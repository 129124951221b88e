--------------------------- MODULE Arguments_proofs ---------------------------
(***************************************************************************)
(* For any texts: the splitting of arguments is well typed, each round of  *)
(* its loop takes something off the text, so there are only so many, and   *)
(* what it takes off that is not in the arguments is quotes and spaces.    *)
(* And for any lists of arguments: each is read as it was meant.           *)
(***************************************************************************)
EXTENDS MCArguments, SequenceTheorems, WellFoundedInduction, TLAPS

\* A part of a text is a text, of the length its ends say.
LEMMA Part ==
  ASSUME NEW t \in Seq(Chars), NEW b \in 1..(Len(t) + 1), NEW e \in (b - 1)..Len(t)
  PROVE  SubSeq(t, b, e) \in Seq(Chars) /\ Len(SubSeq(t, b, e)) = e - b + 1
OBVIOUS

\* What a step does to the text that is left.
LEMMA StepTakes ==
  ASSUME argsa \in Seq(Chars), args \in Seq(Seq(Chars)), Next
  PROVE  /\ argsa' \in Seq(Chars) /\ Len(argsa') < Len(argsa)
         /\ args' \in Seq(Seq(Chars))
         /\ typed' = typed
<1> DEFINE n == Len(argsa)
<1>n. n \in Nat
  OBVIOUS
<1>p. \A i \in Places : i \in 1..n
  BY DEF Places
<1>1. CASE TakeQuoted
  <2>1. PICK q \in Quotes, b \in Places, e \in Places :
          /\ Delimited(argsa, q, b, e)
          /\ args'  = Append(args, SubSeq(argsa, b + 1, e - 1))
          /\ argsa' = SubSeq(argsa, e + 1, n)
    BY <1>1 DEF TakeQuoted
  <2>2. b < e /\ b \in 1..n /\ e \in 1..n
    BY <1>p, <2>1 DEF Delimited
  <2> HIDE DEF n
  <2>3. SubSeq(argsa, b + 1, e - 1) \in Seq(Chars)
    <3>1. b + 1 \in 1..(n + 1) /\ e - 1 \in ((b + 1) - 1)..n
      BY <1>n, <2>2
    <3> QED BY <3>1, Part DEF n
  <2>4. argsa' \in Seq(Chars) /\ Len(argsa') = n - (e + 1) + 1
    <3>1. e + 1 \in 1..(n + 1) /\ n \in ((e + 1) - 1)..n
      BY <1>n, <2>2
    <3> QED BY <2>1, <3>1, Part DEF n
  <2>5. Len(argsa') < n
    BY <1>n, <2>2, <2>4
  <2>6. args' \in Seq(Seq(Chars))
    BY <2>1, <2>3
  <2> QED BY <1>1, <2>4, <2>5, <2>6 DEF TakeQuoted, n
<1>2. CASE TakeWord
  <2>1. PICK b \in Places, e \in Places :
          /\ FirstWord(argsa, b, e)
          /\ args'  = Append(args, SubSeq(argsa, b, e))
          /\ argsa' = SubSeq(argsa, 1, b - 1) \o SubSeq(argsa, e + 2, n)
    BY <1>2 DEF TakeWord
  <2>2. b <= e /\ e < n /\ b \in 1..n /\ e \in 1..n
    BY <1>p, <2>1 DEF FirstWord
  <2> HIDE DEF n
  <2> DEFINE head == SubSeq(argsa, 1, b - 1)
             tail == SubSeq(argsa, e + 2, n)
  <2>3. SubSeq(argsa, b, e) \in Seq(Chars)
    <3>1. b \in 1..(n + 1) /\ e \in (b - 1)..n
      BY <1>n, <2>2
    <3> QED BY <3>1, Part DEF n
  <2>4. head \in Seq(Chars) /\ Len(head) = b - 1 - 1 + 1
    <3>1. 1 \in 1..(n + 1) /\ b - 1 \in (1 - 1)..n
      BY <1>n, <2>2
    <3> QED BY <3>1, Part DEF n
  <2>5. tail \in Seq(Chars) /\ Len(tail) = n - (e + 2) + 1
    <3>1. e + 2 \in 1..(n + 1) /\ n \in ((e + 2) - 1)..n
      BY <1>n, <2>2
    <3> QED BY <3>1, Part DEF n
  <2> HIDE DEF head, tail
  <2>6. argsa' \in Seq(Chars) /\ Len(argsa') = Len(head) + Len(tail)
    BY <2>1, <2>4, <2>5 DEF head, tail
  <2>7. Len(argsa') < n
    BY <1>n, <2>2, <2>4, <2>5, <2>6
  <2>8. args' \in Seq(Seq(Chars))
    BY <2>1, <2>3
  <2> QED BY <1>2, <2>6, <2>7, <2>8 DEF TakeWord, n
<1>3. CASE TakeRest
  <2>1. args' = Append(args, argsa) /\ argsa' = <<>> /\ argsa # <<>> /\ typed' = typed
    BY <1>3 DEF TakeRest, False
  <2>2. Len(argsa') = 0 /\ n # 0
    BY <2>1
  <2> QED BY <1>n, <2>1, <2>2
<1> QED BY <1>1, <1>2, <1>3 DEF Next

\* The arguments and the rest are texts whatever was typed (parse_command).
THEOREM TypeCorrect == Spec => []TypeOK
<1>1. Init => TypeOK
  BY ArgumentsAssumption DEF Init, TypeOK
<1>2. TypeOK /\ [Next]_vars => TypeOK'
  <2>1. TypeOK /\ Next => TypeOK'
    BY StepTakes DEF TypeOK
  <2>2. TypeOK /\ UNCHANGED vars => TypeOK'
    BY DEF TypeOK, vars
  <2> QED BY <2>1, <2>2
<1> QED BY <1>1, <1>2, PTL DEF Spec

\* Every round of the loop shortens the text, of any length and with any quotes in
\* it, so the loop takes at most as many rounds as there are characters.
THEOREM EveryRoundTakes == Spec => Shrinks
<1>1. TypeOK /\ [Next]_vars => [Len(argsa') < Len(argsa)]_vars
  BY StepTakes DEF TypeOK
<1> QED BY <1>1, TypeCorrect, PTL DEF Spec, Shrinks

\* Induction over the natural numbers, as a fact about sets of them.
LEMMA Induction ==
  ASSUME NEW T, 0 \in T, \A n \in Nat : n \in T => n + 1 \in T
  PROVE  Nat \subseteq T
<1> DEFINE B == Nat \ T
<1> SUFFICES ASSUME B # {} PROVE FALSE
  OBVIOUS
<1>1. PICK m \in B : \A k \in B : <<k, m>> \notin OpToRel(<, Nat)
  <2> HIDE DEF B
  <2>1. B \subseteq Nat
    BY DEF B
  <2> QED BY <2>1, NatLessThanWellFounded, WFMin
<1>2. m \in Nat /\ m # 0 /\ m - 1 \in Nat
  OBVIOUS
<1>3. m - 1 \in B
  <2>1. (m - 1) + 1 = m
    BY <1>2
  <2> QED BY <1>2, <2>1
<1>4. <<m - 1, m>> \in OpToRel(<, Nat)
  BY <1>2 DEF OpToRel
<1> QED BY <1>1, <1>3, <1>4

Steps(f, V, b, n, G) ==
  f \in [0..n -> V] /\ f[0] = b /\ \A i \in 1..n : f[i] = G[i][f[i - 1]]

\* A function given by its first value and a step exists on any initial part.
LEMMA StepByStep ==
  ASSUME NEW V, NEW b \in V, NEW n \in Nat, NEW G \in [1..n -> [V -> V]]
  PROVE  \E f : Steps(f, V, b, n, G)
<1> DEFINE Ok(m) == \E f \in [0..m -> V] : f[0] = b /\ \A i \in 1..m : f[i] = G[i][f[i - 1]]
           T == {m \in Nat : m <= n => Ok(m)}
<1>1. 0 \in T
  <2> DEFINE f == [i \in 0..0 |-> b]
  <2>1. f \in [0..0 -> V] /\ f[0] = b /\ \A i \in 1..0 : f[i] = G[i][f[i - 1]]
    OBVIOUS
  <2> QED BY <2>1
<1>2. ASSUME NEW m \in Nat, m \in T PROVE m + 1 \in T
  <2> SUFFICES ASSUME m + 1 <= n PROVE Ok(m + 1)
    OBVIOUS
  <2>1. PICK f \in [0..m -> V] : f[0] = b /\ \A i \in 1..m : f[i] = G[i][f[i - 1]]
    BY <1>2
  <2> DEFINE g == [i \in 0..(m + 1) |-> IF i = m + 1 THEN G[m + 1][f[m]] ELSE f[i]]
  <2>2. m + 1 \in 1..n /\ m \in 0..m /\ f[m] \in V
    OBVIOUS
  <2>3. G[m + 1][f[m]] \in V
    BY <2>2
  <2>4. \A i \in 0..(m + 1) : i = m + 1 \/ i \in 0..m
    OBVIOUS
  <2>5. g \in [0..(m + 1) -> V] /\ \A i \in 0..m : g[i] = f[i]
    BY <2>3, <2>4
  <2>6. g[m + 1] = G[m + 1][f[m]]
    OBVIOUS
  <2>7. \A i \in 1..(m + 1) : i - 1 \in 0..m /\ (i = m + 1 \/ (i \in 1..m /\ i \in 0..m))
    OBVIOUS
  <2> HIDE DEF g
  <2>8. \A i \in 1..(m + 1) : g[i] = G[i][g[i - 1]]
    <3> SUFFICES ASSUME NEW i \in 1..(m + 1) PROVE g[i] = G[i][g[i - 1]]
      OBVIOUS
    <3>1. CASE i = m + 1
      <4>1. i - 1 = m
        BY <3>1
      <4> QED BY <2>2, <2>5, <2>6, <3>1, <4>1
    <3>2. CASE i \in 1..m
      BY <2>1, <2>5, <2>7, <3>2
    <3> QED BY <2>7, <3>1, <3>2
  <2>9. g[0] = b
    BY <2>1, <2>5
  <2> QED BY <2>5, <2>8, <2>9
<1> HIDE DEF T
<1>3. Nat \subseteq T
  BY <1>1, <1>2, Induction
<1>4. n \in T
  BY <1>3
<1> QED BY <1>4 DEF T, Steps

----------------------------------------------------------------------------
\* Letters, and the lists of texts FlattenSeq makes one of.

Drops == Quotes \cup {" "}
Keep(k, t, S) == /\ k \in [0..Len(t) -> Seq(S)] /\ k[0] = <<>>
              /\ \A i \in 1..Len(t) :
                   k[i] = IF t[i] \in Drops THEN k[i - 1] ELSE Append(k[i - 1], t[i])

\* Letters computes by such a function.
LEMMA LettersIs ==
  ASSUME NEW S, NEW t \in Seq(S)
  PROVE  \E k : Keep(k, t, S) /\ Letters(t) = k[Len(t)]
<1> DEFINE n == Len(t)
           V == Seq(S)
           G == [i \in 1..n |-> [x \in V |-> IF t[i] \in Drops THEN x ELSE Append(x, t[i])]]
           eq(k) == k = [i \in 0..n |-> IF i = 0 THEN <<>>
                                        ELSE IF t[i] \in Drops THEN k[i - 1]
                                        ELSE Append(k[i - 1], t[i])]
           h == CHOOSE k : eq(k)
<1>1. n \in Nat /\ \A i \in 1..n : t[i] \in S
  OBVIOUS
<1>2. \A x \in V : \A i \in 1..n : Append(x, t[i]) \in V
  BY <1>1, AppendProperties
<1>G. G \in [1..n -> [V -> V]]
  <2> HIDE DEF V
  <2> QED BY <1>2
<1>3. <<>> \in V
  OBVIOUS
<1>4. \E f : Steps(f, V, <<>>, n, G)
  <2> DEFINE b == <<>>
  <2>1. b \in V
    BY <1>3
  <2> HIDE DEF n, V, G, b
  <2>2. \E f : Steps(f, V, b, n, G)
    BY <1>1, <1>G, <2>1, StepByStep
  <2> QED BY <2>2 DEF b
<1>5. PICK f \in [0..n -> V] : f[0] = <<>> /\ \A i \in 1..n : f[i] = G[i][f[i - 1]]
  BY <1>4 DEF Steps
<1>6. \A i \in 0..n : i # 0 => i \in 1..n /\ i - 1 \in 0..n
  BY <1>1
<1>7. \A i \in 1..n : f[i] = IF t[i] \in Drops THEN f[i - 1] ELSE Append(f[i - 1], t[i])
  <2> HIDE DEF n, V
  <2>1. \A i \in 1..n : f[i - 1] \in V
    BY <1>1, <1>5
  <2> QED BY <1>5, <2>1
<1> HIDE DEF n, V, G
<1>8. eq(f)
  BY <1>5, <1>6, <1>7
<1>9. eq(h)
  BY <1>8
<1>10. Letters(t) = h[n]
  BY DEF Letters, n, Drops
<1> HIDE DEF h
<1>11. \A i \in 0..n : h[i] \in V
  <2> DEFINE T == {i \in Nat : i <= n => h[i] \in V}
  <2>1. 0 \in T
    BY <1>1, <1>3, <1>9
  <2>2. ASSUME NEW i \in Nat, i \in T PROVE i + 1 \in T
    <3> SUFFICES ASSUME i + 1 <= n PROVE h[i + 1] \in V
      OBVIOUS
    <3>1. i + 1 \in 0..n /\ i + 1 \in 1..n /\ i + 1 # 0 /\ (i + 1) - 1 = i /\ h[i] \in V
      BY <1>1, <2>2
    <3>2. h[i + 1] = IF t[i + 1] \in Drops THEN h[i] ELSE Append(h[i], t[i + 1])
      BY <1>9, <3>1
    <3> QED BY <1>2, <3>1, <3>2
  <2> HIDE DEF T
  <2>3. Nat \subseteq T
    BY <2>1, <2>2, Induction
  <2> QED BY <1>1, <2>3 DEF T
<1>12. h \in [0..n -> V] /\ h[0] = <<>>
  BY <1>1, <1>9, <1>11
<1>13. \A i \in 1..n : h[i] = IF t[i] \in Drops THEN h[i - 1] ELSE Append(h[i - 1], t[i])
  <2>1. \A i \in 1..n : i \in 0..n /\ i # 0
    BY <1>1
  <2> QED BY <1>9, <2>1
<1> QED BY <1>10, <1>12, <1>13 DEF Keep, n, V

\* An element behind two sequences.
LEMMA AppendCat ==
  ASSUME NEW S
  PROVE  \A c \in S : \A x \in Seq(S) : \A y \in Seq(S) : Append(x \o y, c) = x \o Append(y, c)
OBVIOUS

\* The letters of two texts behind each other are those of the one and of the other.
LEMMA LettersCat ==
  ASSUME NEW S, NEW s \in Seq(S), NEW t \in Seq(S)
  PROVE  /\ Letters(s \o t) = Letters(s) \o Letters(t)
         /\ Letters(s) \in Seq(S)
<1>0. \A c \in S : \A x \in Seq(S) : \A y \in Seq(S) : Append(x \o y, c) = x \o Append(y, c)
  BY AppendCat
<1> DEFINE m == Len(s)
           n == Len(t)
           u == s \o t
<1>1. /\ u \in Seq(S) /\ Len(u) = m + n /\ m \in Nat /\ n \in Nat
      /\ \A i \in 1..m : u[i] = s[i]
      /\ \A i \in 1..n : u[m + i] = t[i]
  OBVIOUS
<1> HIDE DEF u
<1>2. PICK k : Keep(k, s, S) /\ Letters(s) = k[m]
  BY LettersIs
<1>3. PICK l : Keep(l, t, S) /\ Letters(t) = l[n]
  BY LettersIs
<1>4. PICK h : Keep(h, u, S) /\ Letters(u) = h[m + n]
  BY <1>1, LettersIs
<1> HIDE DEF m, n
<1>5. h[m] = k[m]
  <2> DEFINE T == {i \in Nat : i <= m => h[i] = k[i]}
  <2>1. 0 \in T
    BY <1>2, <1>4 DEF Keep
  <2>2. ASSUME NEW i \in Nat, i \in T PROVE i + 1 \in T
    <3> SUFFICES ASSUME i + 1 <= m PROVE h[i + 1] = k[i + 1]
      OBVIOUS
    <3>1. i + 1 \in 1..m /\ i + 1 \in 1..(m + n) /\ (i + 1) - 1 = i /\ h[i] = k[i]
      BY <1>1, <2>2
    <3>2. k[i + 1] = IF s[i + 1] \in Drops THEN k[i] ELSE Append(k[i], s[i + 1])
      BY <1>2, <3>1 DEF Keep, m
    <3>3. h[i + 1] = IF u[i + 1] \in Drops THEN h[i] ELSE Append(h[i], u[i + 1])
      BY <1>1, <1>4, <3>1 DEF Keep
    <3> QED BY <1>1, <3>1, <3>2, <3>3
  <2> HIDE DEF T
  <2>3. Nat \subseteq T
    BY <2>1, <2>2, Induction
  <2> QED BY <1>1, <2>3 DEF T
<1>6. k[m] \in Seq(S) /\ \A i \in 0..n : l[i] \in Seq(S)
  <2>1. k \in [0..m -> Seq(S)] /\ l \in [0..n -> Seq(S)]
    BY <1>2, <1>3 DEF Keep, m, n
  <2> QED BY <1>1, <2>1
<1>7. h[m + n] = k[m] \o l[n]
  <2> DEFINE g == [i \in 0..n |-> k[m] \o l[i]]
             T == {i \in Nat : i <= n => h[m + i] = g[i]}
  <2>1. ASSUME NEW i \in 0..n, NEW c \in S PROVE Append(g[i], c) = k[m] \o Append(l[i], c)
    <3>1. g[i] = k[m] \o l[i] /\ k[m] \in Seq(S) /\ l[i] \in Seq(S)
      BY <1>6, <2>1
    <3> HIDE DEF g
    <3>2. Append(k[m] \o l[i], c) = k[m] \o Append(l[i], c)
      BY <1>0, <2>1, <3>1, Zenon
    <3> QED BY <3>1, <3>2
  <2>2. g[0] = k[m]
    <3>1. l[0] = <<>> /\ 0 \in 0..n
      BY <1>1, <1>3 DEF Keep
    <3>2. k[m] \o <<>> = k[m]
      BY <1>6, ConcatEmptySeq
    <3> QED BY <3>1, <3>2
  <2>3. \A i \in 1..n : g[i] = IF t[i] \in Drops THEN g[i - 1] ELSE Append(g[i - 1], t[i])
    <3> SUFFICES ASSUME NEW i \in 1..n
                 PROVE  g[i] = IF t[i] \in Drops THEN g[i - 1] ELSE Append(g[i - 1], t[i])
      OBVIOUS
    <3>1. i - 1 \in 0..n /\ i \in 0..n
      BY <1>1
    <3>2. g[i] = k[m] \o l[i] /\ g[i - 1] = k[m] \o l[i - 1]
      BY <3>1
    <3>3. l[i] = IF t[i] \in Drops THEN l[i - 1] ELSE Append(l[i - 1], t[i])
      BY <1>3 DEF Keep, n
    <3>4. t[i] \in S
      BY DEF n
    <3>5. Append(g[i - 1], t[i]) = k[m] \o Append(l[i - 1], t[i])
      <4> HIDE DEF g
      <4> QED BY <2>1, <3>1, <3>4
    <3> HIDE DEF g
    <3> QED BY <3>2, <3>3, <3>5
  <2> HIDE DEF g
  <2>4. 0 \in T
    BY <1>1, <1>5, <2>2
  <2>5. ASSUME NEW i \in Nat, i \in T PROVE i + 1 \in T
    <3> SUFFICES ASSUME i + 1 <= n PROVE h[m + (i + 1)] = g[i + 1]
      OBVIOUS
    <3> DEFINE j == m + (i + 1)
    <3>1. /\ i + 1 \in 1..n /\ j \in 1..(m + n) /\ (i + 1) - 1 = i /\ j - 1 = m + i
          /\ h[m + i] = g[i]
      <4>1. i <= n /\ i \in T
        BY <1>1, <2>5
      <4>2. h[m + i] = g[i]
        BY <4>1
      <4> QED BY <1>1, <4>2
    <3>2. u[j] = t[i + 1]
      BY <1>1, <3>1
    <3> HIDE DEF j
    <3>3. h[j] = IF u[j] \in Drops THEN h[j - 1] ELSE Append(h[j - 1], u[j])
      BY <1>1, <1>4, <3>1 DEF Keep
    <3>4. g[i + 1] = IF t[i + 1] \in Drops THEN g[i] ELSE Append(g[i], t[i + 1])
      BY <2>3, <3>1
    <3> QED BY <3>1, <3>2, <3>3, <3>4 DEF j
  <2> HIDE DEF T
  <2>6. n \in T
    BY <1>1, <2>4, <2>5, Induction
  <2>7. h[m + n] = g[n]
    BY <1>1, <2>6 DEF T
  <2>8. n \in 0..n
    BY <1>1
  <2>9. g[n] = k[m] \o l[n]
    BY <2>8 DEF g
  <2> QED BY <2>7, <2>9
<1> QED BY <1>2, <1>3, <1>4, <1>5, <1>6, <1>7 DEF u

\* Sequences behind each other.
LEMMA CatType ==
  ASSUME NEW S
  PROVE  /\ \A x \in Seq(S) : \A y \in Seq(S) : x \o y \in Seq(S)
         /\ \A x \in Seq(S) : x \o <<>> = x /\ <<>> \o x = x
OBVIOUS

\* In whatever way they are taken together.
LEMMA CatAssoc ==
  ASSUME NEW S
  PROVE  \A x \in Seq(S) : \A y \in Seq(S) : \A z \in Seq(S) : (x \o y) \o z = x \o (y \o z)
OBVIOUS

Flat(k, ss, S) == /\ k \in [1..Len(ss) -> Seq(S)] /\ k[1] = ss[1]
                  /\ \A i \in 2..Len(ss) : k[i] = k[i - 1] \o ss[i]

\* FlattenSeq computes by such a function.
LEMMA FlattenIs ==
  ASSUME NEW S, NEW ss \in Seq(Seq(S)), ss # <<>>
  PROVE  \E k : Flat(k, ss, S) /\ FlattenSeq(ss) = k[Len(ss)]
<1> DEFINE n == Len(ss)
           V == Seq(S)
           G == [i \in 1..(n - 1) |-> [x \in V |-> x \o ss[i + 1]]]
           eq(k) == k = [i \in 1..n |-> IF i = 1 THEN ss[i] ELSE k[i - 1] \o ss[i]]
           h == CHOOSE k : eq(k)
<1>1. n \in Nat /\ n - 1 \in Nat /\ n # 0 /\ \A i \in 1..n : ss[i] \in V
  <2>1. Len(ss) # 0 /\ Len(ss) \in Nat
    BY EmptySeq
  <2> QED BY <2>1
<1>2. \A x \in V : \A y \in V : x \o y \in V
  BY CatType
<1> HIDE DEF n, V
<1>3. G \in [1..(n - 1) -> [V -> V]]
  <2>1. \A i \in 1..(n - 1) : ss[i + 1] \in V
    BY <1>1
  <2> QED BY <1>2, <2>1
<1>4. ss[1] \in V
  BY <1>1
<1> HIDE DEF G
<1>5. PICK f : Steps(f, V, ss[1], n - 1, G)
  BY <1>1, <1>3, <1>4, StepByStep
<1> DEFINE g == [i \in 1..n |-> f[i - 1]]
<1>6. eq(g)
  <2>1. \A i \in 1..n : i # 1 => i - 1 \in 1..(n - 1) /\ i - 1 \in 1..n /\ (i - 1) - 1 \in 0..(n - 1)
    BY <1>1
  <2>2. \A i \in 1..n : i # 1 => f[i - 1] = f[(i - 1) - 1] \o ss[i]
    <3> SUFFICES ASSUME NEW i \in 1..n, i # 1 PROVE f[i - 1] = f[(i - 1) - 1] \o ss[i]
      OBVIOUS
    <3>1. f[i - 1] = G[i - 1][f[(i - 1) - 1]] /\ f[(i - 1) - 1] \in V
      BY <1>5, <2>1 DEF Steps
    <3>2. (i - 1) + 1 = i
      BY <1>1
    <3> QED BY <2>1, <3>1, <3>2 DEF G
  <2>3. \A i \in 1..n : i # 1 => g[i - 1] = f[(i - 1) - 1]
    BY <2>1
  <2>4. f[1 - 1] = ss[1]
    BY <1>5 DEF Steps
  <2>5. \A i \in 1..n : f[i - 1] = IF i = 1 THEN ss[i] ELSE g[i - 1] \o ss[i]
    <3> HIDE DEF g
    <3> QED BY <2>2, <2>3, <2>4
  <2> QED BY <2>5
<1>7. eq(h)
  <2> HIDE DEF g
  <2> QED BY <1>6
<1>8. FlattenSeq(ss) = h[n]
  BY <1>1 DEF FlattenSeq, n
<1> HIDE DEF h, g
<1>9. h[1] = ss[1] /\ \A i \in 2..n : h[i] = h[i - 1] \o ss[i]
  <2>1. 1 \in 1..n /\ \A i \in 2..n : i \in 1..n /\ i # 1
    BY <1>1
  <2> QED BY <1>7, <2>1
<1>10. \A i \in 1..n : h[i] \in V
  <2> DEFINE T == {i \in Nat : i + 1 <= n => h[i + 1] \in V}
  <2>1. 0 \in T
    BY <1>4, <1>9
  <2>2. ASSUME NEW i \in Nat, i \in T PROVE i + 1 \in T
    <3> SUFFICES ASSUME (i + 1) + 1 <= n PROVE h[(i + 1) + 1] \in V
      OBVIOUS
    <3> DEFINE j == (i + 1) + 1
    <3>1. j \in 2..n /\ j \in 1..n /\ j - 1 = i + 1 /\ h[i + 1] \in V
      BY <1>1, <2>2
    <3> HIDE DEF j
    <3>2. h[j] = h[i + 1] \o ss[j] /\ ss[j] \in V
      BY <1>1, <1>9, <3>1
    <3>3. h[j] \in V
      BY <1>2, <3>1, <3>2
    <3> QED BY <3>3 DEF j
  <2> HIDE DEF T
  <2>3. Nat \subseteq T
    BY <2>1, <2>2, Induction
  <2>4. \A i \in 1..n : i - 1 \in Nat /\ i - 1 \in T /\ (i - 1) + 1 = i /\ i <= n
    BY <1>1, <2>3
  <2>5. \A i \in Nat : i \in T => (i + 1 <= n => h[i + 1] \in V)
    BY DEF T
  <2> QED BY <2>4, <2>5
<1>11. h \in [1..n -> V]
  BY <1>7, <1>10
<1> QED BY <1>8, <1>9, <1>11 DEF Flat, n, V

\* What is behind a list of sequences is behind all that is in them.
LEMMA FlattenAppend ==
  ASSUME NEW S, NEW ss \in Seq(Seq(S)), NEW x \in Seq(S)
  PROVE  /\ FlattenSeq(ss) \in Seq(S)
         /\ FlattenSeq(Append(ss, x)) = FlattenSeq(ss) \o x
<1> DEFINE tt == Append(ss, x)
           n == Len(ss)
<1>1. /\ tt \in Seq(Seq(S)) /\ tt # <<>> /\ Len(tt) = n + 1 /\ tt[n + 1] = x /\ n \in Nat
      /\ \A i \in 1..n : tt[i] = ss[i]
  BY AppendProperties
<1> HIDE DEF tt
<1>2. PICK h : Flat(h, tt, S) /\ FlattenSeq(tt) = h[n + 1]
  BY <1>1, FlattenIs
<1>3. CASE ss = <<>>
  <2>1. n = 0 /\ FlattenSeq(ss) = <<>>
    BY <1>3 DEF FlattenSeq
  <2>2. h[n + 1] = x
    BY <1>1, <1>2, <2>1 DEF Flat
  <2>3. <<>> \in Seq(S) /\ <<>> \o x = x
    BY CatType
  <2> QED BY <1>2, <2>1, <2>2, <2>3 DEF tt
<1>4. CASE ss # <<>>
  <2>1. PICK k : Flat(k, ss, S) /\ FlattenSeq(ss) = k[n]
    BY <1>4, FlattenIs
  <2>2. n # 0
    BY <1>4, EmptySeq
  <2> HIDE DEF n
  <2>3. h[n] = k[n]
    <3> DEFINE T == {i \in Nat : i + 1 <= n => h[i + 1] = k[i + 1]}
    <3>1. 0 \in T
      <4>1. h[1] = tt[1] /\ k[1] = ss[1]
        BY <1>2, <2>1 DEF Flat
      <4> QED BY <1>1, <4>1
    <3>2. ASSUME NEW i \in Nat, i \in T PROVE i + 1 \in T
      <4> SUFFICES ASSUME (i + 1) + 1 <= n PROVE h[(i + 1) + 1] = k[(i + 1) + 1]
        OBVIOUS
      <4> DEFINE j == (i + 1) + 1
      <4>1. j \in 2..n /\ j \in 1..n /\ j \in 2..(n + 1) /\ j - 1 = i + 1 /\ h[i + 1] = k[i + 1]
        BY <1>1, <3>2
      <4> HIDE DEF j
      <4>2. h[j] = h[j - 1] \o tt[j] /\ k[j] = k[j - 1] \o ss[j]
        BY <1>1, <1>2, <2>1, <4>1 DEF Flat, n
      <4>3. h[j] = k[j]
        BY <1>1, <4>1, <4>2
      <4> QED BY <4>3 DEF j
    <3> HIDE DEF T
    <3>3. n - 1 \in T
      <4>1. n - 1 \in Nat
        BY <1>1, <2>2
      <4> QED BY <3>1, <3>2, <4>1, Induction
    <3> QED BY <1>1, <2>2, <3>3 DEF T
  <2>4. h[n + 1] = h[n] \o x
    <3>1. n + 1 \in 2..(n + 1) /\ (n + 1) - 1 = n
      BY <1>1, <2>2
    <3>2. \A i \in 2..(n + 1) : h[i] = h[i - 1] \o tt[i]
      BY <1>1, <1>2 DEF Flat
    <3> QED BY <1>1, <3>1, <3>2
  <2>5. k[n] \in Seq(S)
    <3>1. k \in [1..n -> Seq(S)] /\ n \in 1..n
      BY <1>1, <2>1, <2>2 DEF Flat, n
    <3> QED BY <3>1
  <2> QED BY <1>2, <2>1, <2>3, <2>4, <2>5 DEF tt
<1> QED BY <1>3, <1>4

\* There are no letters where there are only quotes and spaces.
LEMMA NoLetters ==
  ASSUME NEW S, NEW t \in Seq(S), \A i \in 1..Len(t) : t[i] \in Drops
  PROVE  Letters(t) = <<>>
<1> DEFINE n == Len(t)
<1>1. PICK k : Keep(k, t, S) /\ Letters(t) = k[n]
  BY LettersIs
<1> DEFINE T == {i \in Nat : i <= n => k[i] = <<>>}
<1>2. 0 \in T
  BY <1>1 DEF Keep
<1>3. ASSUME NEW i \in Nat, i \in T PROVE i + 1 \in T
  <2> SUFFICES ASSUME i + 1 <= n PROVE k[i + 1] = <<>>
    OBVIOUS
  <2> DEFINE j == i + 1
  <2>1. n \in Nat
    OBVIOUS
  <2>2. j \in 1..n /\ j - 1 = i /\ k[i] = <<>>
    BY <1>3, <2>1
  <2> HIDE DEF j
  <2>3. t[j] \in Drops /\ k[j] = IF t[j] \in Drops THEN k[j - 1] ELSE Append(k[j - 1], t[j])
    BY <1>1, <2>2 DEF Keep
  <2>4. k[j] = <<>>
    BY <2>2, <2>3
  <2> QED BY <2>4 DEF j
<1>4. n \in Nat
  OBVIOUS
<1> HIDE DEF T
<1>5. n \in T
  BY <1>2, <1>3, <1>4, Induction
<1> QED BY <1>1, <1>4, <1>5 DEF T

\* The empty text has no letters.
LEMMA NoLettersInNothing == Letters(<<>>) = <<>>
<1> DEFINE t == <<>>
<1>1. t \in Seq(Chars) /\ Len(t) = 0
  OBVIOUS
<1> HIDE DEF t
<1>2. \A i \in 1..Len(t) : t[i] \in Drops
  BY <1>1
<1>3. Letters(t) = <<>>
  BY <1>1, <1>2, NoLetters
<1> QED BY <1>3 DEF t

\* The letters of a part of a text are those of its two parts ...
LEMMA LettersCut ==
  ASSUME NEW S, NEW t \in Seq(S),
         NEW m \in 1..(Len(t) + 1), NEW k \in (m - 1)..Len(t), NEW n \in k..Len(t)
  PROVE  /\ Letters(SubSeq(t, m, n)) = Letters(SubSeq(t, m, k)) \o Letters(SubSeq(t, k + 1, n))
         /\ Letters(SubSeq(t, m, n)) \in Seq(S)
<1>1. SubSeq(t, m, n) = SubSeq(t, m, k) \o SubSeq(t, k + 1, n)
  BY ConcatAdjacentSubSeq
<1>2. SubSeq(t, m, k) \in Seq(S) /\ SubSeq(t, k + 1, n) \in Seq(S) /\ SubSeq(t, m, n) \in Seq(S)
  <2>1. m \in Int /\ n \in Int /\ k \in Int /\ k + 1 \in Int
    OBVIOUS
  <2>2. /\ \A i \in m..n : t[i] \in S
        /\ \A i \in m..k : t[i] \in S
        /\ \A i \in (k + 1)..n : t[i] \in S
    OBVIOUS
  <2> QED BY <2>1, <2>2, SubSeqProperties
<1> QED BY <1>1, <1>2, LettersCat

\* ... and there are none in a part that is only quotes and spaces.
LEMMA NoLettersIn ==
  ASSUME NEW S, NEW t \in Seq(S), NEW m \in 1..(Len(t) + 1), NEW n \in (m - 1)..Len(t),
         \A i \in m..n : t[i] \in Drops
  PROVE  Letters(SubSeq(t, m, n)) = <<>>
<1>1. \A i \in m..n : t[i] \in S
  OBVIOUS
<1>2. /\ SubSeq(t, m, n) \in Seq(S)
      /\ \A i \in 1..Len(SubSeq(t, m, n)) : SubSeq(t, m, n)[i] \in Drops
  <2>1. /\ SubSeq(t, m, n) \in Seq(S)
        /\ Len(SubSeq(t, m, n)) = IF m <= n THEN n - m + 1 ELSE 0
        /\ \A i \in 1..(n - m + 1) : SubSeq(t, m, n)[i] = t[m + i - 1]
    BY <1>1, SubSeqProperties
  <2>2. \A i \in 1..Len(SubSeq(t, m, n)) : i \in 1..(n - m + 1) /\ m + i - 1 \in m..n
    BY <2>1
  <2> QED BY <2>1, <2>2
<1> QED BY <1>2, NoLetters

\* The letters of x are taken off the rest and go behind those of the arguments.
LEMMA LettersMove ==
  ASSUME argsa \in Seq(Chars), args \in Seq(Seq(Chars)), argsa' \in Seq(Chars),
         NEW x \in Seq(Chars), args' = Append(args, x), typed' = typed,
         Letters(argsa) = Letters(x) \o Letters(argsa'),
         LettersKept
  PROVE  LettersKept'
<1> DEFINE a == Letters(FlattenSeq(args))
           b == Letters(x)
           c == Letters(argsa')
<1>1. FlattenSeq(args) \in Seq(Chars) /\ FlattenSeq(args') = FlattenSeq(args) \o x
  BY FlattenAppend
<1>2. a \in Seq(Chars) /\ b \in Seq(Chars) /\ c \in Seq(Chars)
  BY <1>1, LettersCat
<1>3. Letters(FlattenSeq(args')) = a \o b
  BY <1>1, LettersCat
<1>4. a \o (b \o c) = Letters(typed)
  BY DEF LettersKept
<1>5. LettersKept' <=> Letters(FlattenSeq(args')) \o c = Letters(typed)
  <2> HIDE DEF a, b
  <2> QED BY DEF LettersKept
<1> HIDE DEF a, b, c
<1>6. (a \o b) \o c = a \o (b \o c)
  <2>1. \A x1 \in Seq(Chars) : \A y1 \in Seq(Chars) : \A z1 \in Seq(Chars) :
          (x1 \o y1) \o z1 = x1 \o (y1 \o z1)
    BY ONLY CatAssoc
  <2> QED BY ONLY <1>2, <2>1, Zenon
<1> QED BY <1>3, <1>4, <1>5, <1>6

\* Each rule keeps the letters: it puts them into an argument or leaves them.
LEMMA StepKeepsLetters ==
  ASSUME argsa \in Seq(Chars), args \in Seq(Seq(Chars)), LettersKept, Next
  PROVE  LettersKept'
<1> DEFINE n == Len(argsa)
           S == Chars
           L(i, j) == Letters(SubSeq(argsa, i, j))
<1>1. /\ n \in Nat /\ argsa' \in Seq(Chars) /\ typed' = typed
      /\ SubSeq(argsa, 1, n) = argsa
      /\ \A i \in Places : i \in 1..n
      /\ \A i \in 1..(n + 1) : \A j \in (i - 1)..n : SubSeq(argsa, i, j) \in Seq(Chars)
  BY StepTakes, SubSeqFull, Part DEF Places
<1>2. \A i \in 1..(n + 1) : \A k \in (i - 1)..n : \A j \in k..n :
        L(i, j) = L(i, k) \o L(k + 1, j) /\ L(i, j) \in Seq(Chars)
  BY LettersCut
<1>3. \A i \in 1..(n + 1) : \A j \in (i - 1)..n : (\A l \in i..j : argsa[l] \in Drops) => L(i, j) = <<>>
  BY NoLettersIn
<1>4. \A x \in Seq(Chars) : x \o <<>> = x /\ <<>> \o x = x
  BY CatType
<1>5. Letters(argsa) = L(1, n)
  BY <1>1
<1> HIDE DEF n, L
<1>6. CASE TakeQuoted
  <2>1. PICK q \in Quotes, b \in Places, e \in Places :
          /\ Delimited(argsa, q, b, e)
          /\ args'  = Append(args, SubSeq(argsa, b + 1, e - 1))
          /\ argsa' = SubSeq(argsa, e + 1, n)
    BY <1>6 DEF TakeQuoted, n
  <2>2. /\ b < e /\ b \in 1..n /\ e \in 1..n
        /\ \A i \in 1..b : argsa[i] \in Drops
        /\ \A i \in e..e : argsa[i] \in Drops
    <3>1. b \in 1..n /\ e \in 1..n
      BY <1>1
    <3>2. /\ b < e /\ argsa[b] \in Drops /\ argsa[e] \in Drops
          /\ \A i \in 1..(b - 1) : argsa[i] \in Drops
      BY <2>1 DEF Delimited, Blank, Drops
    <3>3. (\A i \in 1..b : i = b \/ i \in 1..(b - 1)) /\ (\A i \in e..e : i = e)
      BY <3>1
    <3> QED BY <3>1, <3>2, <3>3
  <2>3. L(1, b) = <<>> /\ L(e, e) = <<>>
    BY <1>1, <1>3, <2>2
  <2>4. /\ L(1, n) = L(1, b) \o L(b + 1, n)
        /\ L(b + 1, n) = L(b + 1, e - 1) \o L(e, n)
        /\ L(e, n) = L(e, e) \o L(e + 1, n)
        /\ L(b + 1, n) \in Seq(Chars) /\ L(e + 1, n) \in Seq(Chars)
    <3>1. /\ 1 \in 1..(n + 1) /\ b \in (1 - 1)..n /\ n \in b..n
          /\ b + 1 \in 1..(n + 1) /\ e - 1 \in ((b + 1) - 1)..n /\ n \in (e - 1)..n
          /\ e \in 1..(n + 1) /\ e \in (e - 1)..n /\ n \in e..n
          /\ e + 1 \in 1..(n + 1) /\ n \in ((e + 1) - 1)..n /\ n \in n..n
          /\ (e - 1) + 1 = e
      BY <1>1, <2>2
    <3>2. L(1, n) = L(1, b) \o L(b + 1, n)
      BY <1>2, <3>1
    <3>3. /\ L(b + 1, n) = L(b + 1, e - 1) \o L((e - 1) + 1, n)
          /\ L(b + 1, n) \in Seq(Chars)
      BY <1>2, <3>1
    <3>4. L(e, n) = L(e, e) \o L(e + 1, n)
      BY <1>2, <3>1
    <3>5. L(e + 1, n) \in Seq(Chars)
      BY <1>2, <3>1
    <3> QED BY <3>1, <3>2, <3>3, <3>4, <3>5
  <2>5. Letters(argsa) = L(b + 1, e - 1) \o L(e + 1, n)
    BY <1>4, <1>5, <2>3, <2>4
  <2>6. SubSeq(argsa, b + 1, e - 1) \in Seq(Chars)
    BY <1>1, <2>2
  <2> QED BY <1>1, <2>1, <2>5, <2>6, LettersMove DEF L
<1>7. CASE TakeWord
  <2>1. PICK b \in Places, e \in Places :
          /\ FirstWord(argsa, b, e)
          /\ args'  = Append(args, SubSeq(argsa, b, e))
          /\ argsa' = SubSeq(argsa, 1, b - 1) \o SubSeq(argsa, e + 2, n)
    BY <1>7 DEF TakeWord, n
  <2>2. /\ b <= e /\ e < n /\ b \in 1..n /\ e \in 1..n
        /\ \A i \in 1..(b - 1) : argsa[i] \in Drops
        /\ \A i \in (e + 1)..(e + 1) : argsa[i] \in Drops
    <3>1. b \in 1..n /\ e \in 1..n
      BY <1>1
    <3>2. /\ b <= e /\ e < n /\ argsa[e + 1] \in Drops
          /\ \A i \in 1..(b - 1) : argsa[i] \in Drops
      BY <2>1 DEF FirstWord, Blank, Drops, n
    <3>3. \A i \in (e + 1)..(e + 1) : i = e + 1
      BY <3>1
    <3> QED BY <3>1, <3>2, <3>3
  <2>3. L(1, b - 1) = <<>> /\ L(e + 1, e + 1) = <<>>
    BY <1>1, <1>3, <2>2
  <2>4. /\ L(1, n) = L(1, b - 1) \o L(b, n)
        /\ L(b, n) = L(b, e) \o L(e + 1, n)
        /\ L(e + 1, n) = L(e + 1, e + 1) \o L(e + 2, n)
        /\ L(b, n) \in Seq(Chars) /\ L(e + 2, n) \in Seq(Chars)
    <3>1. /\ 1 \in 1..(n + 1) /\ b - 1 \in (1 - 1)..n /\ n \in (b - 1)..n
          /\ b \in 1..(n + 1) /\ e \in (b - 1)..n /\ n \in e..n
          /\ e + 1 \in 1..(n + 1) /\ e + 1 \in ((e + 1) - 1)..n /\ n \in (e + 1)..n
          /\ e + 2 \in 1..(n + 1) /\ n \in ((e + 2) - 1)..n /\ n \in n..n
          /\ (b - 1) + 1 = b /\ (e + 1) + 1 = e + 2
      BY <1>1, <2>2
    <3>2. L(1, n) = L(1, b - 1) \o L((b - 1) + 1, n)
      BY <1>2, <3>1
    <3>3. L(b, n) = L(b, e) \o L(e + 1, n) /\ L(b, n) \in Seq(Chars)
      BY <1>2, <3>1
    <3>4. L(e + 1, n) = L(e + 1, e + 1) \o L((e + 1) + 1, n)
      BY <1>2, <3>1
    <3>5. L(e + 2, n) \in Seq(Chars)
      BY <1>2, <3>1
    <3> QED BY <3>1, <3>2, <3>3, <3>4, <3>5
  <2>5. Letters(argsa') = L(1, b - 1) \o L(e + 2, n)
    <3>1. SubSeq(argsa, 1, b - 1) \in Seq(Chars) /\ SubSeq(argsa, e + 2, n) \in Seq(Chars)
      BY <1>1, <2>2
    <3> QED BY <2>1, <3>1, LettersCat DEF L
  <2>6. Letters(argsa) = L(b, e) \o Letters(argsa')
    BY <1>4, <1>5, <2>3, <2>4, <2>5
  <2>7. SubSeq(argsa, b, e) \in Seq(Chars)
    BY <1>1, <2>2
  <2> QED BY <1>1, <2>1, <2>6, <2>7, LettersMove DEF L
<1>8. CASE TakeRest
  <2>1. args' = Append(args, argsa) /\ argsa' = <<>>
    BY <1>8 DEF TakeRest
  <2>2. Letters(argsa') = <<>>
    BY <2>1, NoLettersInNothing
  <2>3. Letters(argsa) \in Seq(Chars)
    BY LettersCat
  <2>4. Letters(argsa) = Letters(argsa) \o Letters(argsa')
    BY <1>4, <2>2, <2>3
  <2> QED BY <1>1, <2>1, <2>4, LettersMove
<1> QED BY <1>6, <1>7, <1>8 DEF Next

\* For any texts: the arguments so far and the rest hold what was typed, in its order
\* (parse_command's rules take off quotes and spaces, and nothing else).
THEOREM LettersStay == Spec => []LettersKept
<1>1. Init => LettersKept
  <2> SUFFICES ASSUME Init PROVE LettersKept
    OBVIOUS
  <2>1. typed \in Seq(Chars) /\ argsa = typed /\ args = <<>>
    BY ArgumentsAssumption DEF Init
  <2>2. FlattenSeq(args) = <<>>
    BY <2>1 DEF FlattenSeq
  <2>3. Letters(<<>>) = <<>>
    BY NoLettersInNothing
  <2>4. Letters(typed) \in Seq(Chars)
    BY <2>1, LettersCat
  <2> QED BY <2>1, <2>2, <2>3, <2>4, CatType DEF LettersKept
<1>2. TypeOK /\ LettersKept /\ [Next]_vars => LettersKept'
  <2>1. TypeOK /\ LettersKept /\ Next => LettersKept'
    BY StepKeepsLetters DEF TypeOK
  <2>2. LettersKept /\ UNCHANGED vars => LettersKept'
    BY DEF LettersKept, vars
  <2> QED BY <2>1, <2>2
<1> QED BY <1>1, <1>2, TypeCorrect, PTL DEF Spec

----------------------------------------------------------------------------

\* One text in a list is that text.
LEMMA FlattenOne == ASSUME NEW S, NEW x \in Seq(S) PROVE FlattenSeq(<<x>>) = x
<1> DEFINE e == <<>>
<1>1. e \in Seq(Seq(S)) /\ FlattenSeq(e) = <<>> /\ Append(e, x) = <<x>>
  BY DEF FlattenSeq
<1> HIDE DEF e
<1>2. FlattenSeq(Append(e, x)) = FlattenSeq(e) \o x
  BY <1>1, FlattenAppend
<1>3. <<>> \o x = x
  BY CatType
<1> QED BY <1>1, <1>2, <1>3

\* Lists behind each other.
LEMMA FlattenCat ==
  ASSUME NEW S, NEW ss \in Seq(Seq(S)), NEW tt \in Seq(Seq(S))
  PROVE  FlattenSeq(ss \o tt) = FlattenSeq(ss) \o FlattenSeq(tt)
<1> DEFINE n == Len(tt)
           V == Seq(S)
           P(i) == SubSeq(tt, 1, i)
           T == {i \in Nat : i <= n => FlattenSeq(ss \o P(i)) = FlattenSeq(ss) \o FlattenSeq(P(i))}
<1>1. n \in Nat /\ P(n) = tt /\ P(0) = <<>> /\ ss \in Seq(V)
  BY SubSeqFull
<1>2. \A i \in 0..n : P(i) \in Seq(V)
  <2>1. \A i \in 0..n : \A j \in 1..i : tt[j] \in V
    OBVIOUS
  <2>2. 1 \in Int /\ \A i \in 0..n : i \in Int
    OBVIOUS
  <2> HIDE DEF V, n
  <2> QED BY <2>1, <2>2, SubSeqProperties
<1>3. \A i \in 1..n : P(i) = P(i - 1) \o <<tt[i]>> /\ tt[i] \in V
  <2> SUFFICES ASSUME NEW i \in 1..n PROVE P(i) = P(i - 1) \o <<tt[i]>> /\ tt[i] \in V
    OBVIOUS
  <2>1. 1 \in 1..Len(tt) /\ i \in 1..Len(tt)
    BY <1>1
  <2> QED BY <2>1, SubSeqRecursiveSecond
<1>4. \A i \in 1..n : P(i) = Append(P(i - 1), tt[i])
  <2> SUFFICES ASSUME NEW i \in 1..n PROVE P(i) = Append(P(i - 1), tt[i])
    OBVIOUS
  <2>1. i - 1 \in 0..n
    BY <1>1
  <2>2. P(i - 1) \in Seq(V) /\ tt[i] \in V
    BY <1>2, <1>3, <2>1
  <2> HIDE DEF P, V
  <2> QED BY <1>3, <2>2, AppendIsConcat
<1>5. \A c \in V : \A x \in Seq(V) : \A y \in Seq(V) : Append(x \o y, c) = x \o Append(y, c)
  BY AppendCat
<1>6. \A x \in Seq(V) : \A y \in Seq(V) : x \o y \in Seq(V)
  BY CatType
<1> HIDE DEF P, n
<1>7. \A x \in Seq(V) : \A c \in V : FlattenSeq(x) \in V /\ FlattenSeq(Append(x, c)) = FlattenSeq(x) \o c
  BY FlattenAppend
<1>8. 0 \in T
  <2>1. ss \o <<>> = ss
    BY <1>1, CatType
  <2>2. FlattenSeq(<<>>) = <<>>
    BY DEF FlattenSeq
  <2>3. FlattenSeq(ss) \o <<>> = FlattenSeq(ss)
    BY <1>1, <1>7, CatType
  <2> QED BY <1>1, <2>1, <2>2, <2>3
<1> HIDE DEF V
<1>9. ASSUME NEW i \in Nat, i \in T PROVE i + 1 \in T
  <2> DEFINE j == i + 1
             f == FlattenSeq(ss)
             u == P(i)
             c == tt[j]
  <2> SUFFICES ASSUME j <= n PROVE FlattenSeq(ss \o P(j)) = f \o FlattenSeq(P(j))
    OBVIOUS
  <2>1. j \in 1..n /\ j - 1 = i /\ i \in 0..n /\ FlattenSeq(ss \o u) = f \o FlattenSeq(u)
    BY <1>1, <1>9
  <2>2. P(j) = Append(u, c) /\ u \in Seq(V) /\ c \in V
    BY <1>2, <1>3, <1>4, <2>1
  <2> HIDE DEF u, c, j
  <2>3. ss \o Append(u, c) = Append(ss \o u, c) /\ ss \o u \in Seq(V)
    BY <1>1, <1>5, <1>6, <2>2
  <2>4. FlattenSeq(Append(ss \o u, c)) = FlattenSeq(ss \o u) \o c
    BY <1>7, <2>2, <2>3
  <2>5. FlattenSeq(Append(u, c)) = FlattenSeq(u) \o c /\ f \in V /\ FlattenSeq(u) \in V
    BY <1>1, <1>7, <2>2
  <2> HIDE DEF f
  <2>6. \A x \in V : \A y \in V : \A z \in V : (x \o y) \o z = x \o (y \o z)
    BY CatAssoc DEF V
  <2>7. (f \o FlattenSeq(u)) \o c = f \o (FlattenSeq(u) \o c)
    BY <2>2, <2>5, <2>6, Zenon
  <2> QED BY <2>1, <2>2, <2>3, <2>4, <2>5, <2>7
<1> HIDE DEF T
<1>10. n \in T
  BY <1>1, <1>8, <1>9, Induction
<1> QED BY <1>1, <1>10 DEF T

----------------------------------------------------------------------------
\* The list a player means, each argument as typed with a space before it, and the
\* text from one place in the list on.
Parts(l)   == [i \in DOMAIN l |-> <<" ">> \o AsTyped(l[i])]
Rest(l, k) == FlattenSeq(SubSeq(Parts(l), k + 1, Len(l)))

\* A function on the first places is a list, and one element makes one.
LEMMA IsList ==
  ASSUME NEW S
  PROVE  /\ \A n \in Nat : \A f \in [1..n -> S] : f \in Seq(S) /\ Len(f) = n /\ DOMAIN f = 1..n
         /\ \A c \in S : <<c>> \in Seq(S) /\ Len(<<c>>) = 1 /\ <<c>>[1] = c
OBVIOUS

\* The parts of a list are texts.
LEMMA ListIs ==
  ASSUME NEW l \in Lists
  PROVE  /\ l \in Seq(Arg) /\ Len(l) \in Nat /\ Len(l) # 0 /\ DOMAIN l = 1..Len(l)
         /\ Parts(l) \in Seq(Seq(Chars)) /\ Len(Parts(l)) = Len(l)
         /\ \A i \in 1..Len(l) : /\ l[i] \in Arg /\ AsTyped(l[i]) \in Seq(Chars)
                                 /\ l[i].text \in Seq(Chars)
                                 /\ Parts(l)[i] = <<" ">> \o AsTyped(l[i])
                                 /\ Parts(l)[i] \in Seq(Chars)
<1>a. MaxArgs \in Nat
  BY MCArgumentsAssumption
<1>b. \A w \in Bare \cup Inside : w \in Seq(Chars)
  BY MCArgumentsAssumption, Zenon
<1>1. PICK n \in 1..MaxArgs : l \in [1..n -> Arg]
  BY DEF Lists
<1>2. n \in Nat /\ n # 0
  BY <1>a
<1>3. l \in Seq(Arg) /\ Len(l) = n /\ DOMAIN l = 1..n
  BY <1>1, <1>2, IsList
<1>4. \A x \in Seq(Chars) : \A y \in Seq(Chars) : x \o y \in Seq(Chars)
  BY CatType
<1>5. \A i \in 1..n : l[i] \in Arg /\ l[i].text \in Seq(Chars)
  BY <1>b, <1>1 DEF Arg
<1>6. <<" ">> \in Seq(Chars) /\ <<"'">> \in Seq(Chars)
  <2>1. " " \in Chars /\ "'" \in Chars
    BY MCArgumentsAssumption DEF Quotes
  <2> QED BY <2>1, IsList, Zenon
<1>7. \A i \in 1..n : AsTyped(l[i]) \in Seq(Chars)
  BY <1>4, <1>5, <1>6, Zenon DEF AsTyped
<1>8. \A i \in 1..n : <<" ">> \o AsTyped(l[i]) \in Seq(Chars)
  BY <1>4, <1>6, <1>7, Zenon
<1>9. \A i \in 1..n : Parts(l)[i] = <<" ">> \o AsTyped(l[i])
  BY <1>3, Zenon DEF Parts
<1> DEFINE P == Parts(l)
<1>10. P \in [1..n -> Seq(Chars)]
  <2>1. P = [i \in 1..n |-> <<" ">> \o AsTyped(l[i])]
    BY <1>3 DEF Parts
  <2> HIDE DEF P
  <2> DEFINE e(i) == <<" ">> \o AsTyped(l[i])
  <2>2. \A i \in 1..n : e(i) \in Seq(Chars)
    BY <1>8
  <2> HIDE DEF e
  <2>3. [i \in 1..n |-> e(i)] \in [1..n -> Seq(Chars)]
    BY <2>2
  <2> QED BY <2>1, <2>3 DEF e
<1>11. P \in Seq(Seq(Chars)) /\ Len(P) = n
  <2> HIDE DEF P
  <2> QED BY <1>2, <1>10, IsList
<1> QED BY <1>2, <1>3, <1>5, <1>7, <1>8, <1>9, <1>11

\* What is left from one place on is the argument there and what is left from the next.
LEMMA RestIs ==
  ASSUME NEW l \in Lists, NEW k \in 0..Len(l)
  PROVE  /\ Rest(l, k) \in Seq(Chars)
         /\ k = Len(l) => Rest(l, k) = <<>>
         /\ k < Len(l) => Rest(l, k) = (<<" ">> \o AsTyped(l[k + 1])) \o Rest(l, k + 1)
<1> DEFINE n == Len(l)
           P == Parts(l)
           V == Seq(Chars)
<1>1. n \in Nat /\ P \in Seq(V) /\ Len(P) = n /\ \A i \in 1..n : P[i] \in V
  BY ListIs
<1>2. \A i \in 1..n : P[i] = <<" ">> \o AsTyped(l[i])
  BY ListIs
<1>3. \A i \in 0..n : SubSeq(P, i + 1, n) \in Seq(V)
  <2> HIDE DEF P, V, n
  <2>1. \A i \in 0..n : i + 1 \in Int /\ n \in Int /\ \A j \in (i + 1)..n : P[j] \in V
    BY <1>1
  <2> QED BY <2>1, SubSeqProperties
<1>4. \A i \in 0..n : Rest(l, i) \in V
  <2>1. \A u \in Seq(V) : FlattenSeq(u) \in V
    <3>1. <<>> \in Seq(Chars)
      OBVIOUS
    <3> QED BY <3>1, FlattenAppend
  <2> HIDE DEF V
  <2> QED BY <1>3, <2>1, Zenon DEF Rest, P, n
<1>5. ASSUME k = n PROVE Rest(l, k) = <<>>
  <2>1. SubSeq(P, k + 1, n) = <<>>
    <3> HIDE DEF P, n
    <3>1. k + 1 \in Int /\ n \in Int /\ n < k + 1
      BY <1>1, <1>5
    <3> QED BY <3>1, SubSeqEmpty
  <2> QED BY <2>1 DEF Rest, FlattenSeq
<1>6. ASSUME k < n PROVE Rest(l, k) = (<<" ">> \o AsTyped(l[k + 1])) \o Rest(l, k + 1)
  <2> DEFINE r == SubSeq(P, (k + 1) + 1, n)
             x == P[k + 1]
  <2>1. k + 1 \in 0..n /\ k + 1 \in 1..n /\ n \in (k + 1)..n
    BY <1>1, <1>6
  <2>2. SubSeq(P, k + 1, n) = <<x>> \o r
    <3> HIDE DEF P, V, n
    <3> QED BY <1>1, <2>1, SubSeqRecursiveFirst
  <2>3. r \in Seq(V) /\ x \in V
    BY <1>1, <1>3, <2>1
  <2>4. FlattenSeq(SubSeq(P, k + 1, n)) = FlattenSeq(<<x>>) \o FlattenSeq(r)
    <3> DEFINE e == <<x>>
    <3>1. e \in Seq(V)
      <4> HIDE DEF x, V, P
      <4> QED BY <2>3
    <3> HIDE DEF e, r, x, P, n, V
    <3>2. FlattenSeq(e \o r) = FlattenSeq(e) \o FlattenSeq(r)
      BY <2>3, <3>1, FlattenCat DEF V
    <3> QED BY <2>2, <3>2 DEF e
  <2>5. FlattenSeq(<<x>>) = x
    BY <2>3, FlattenOne
  <2>6. x = <<" ">> \o AsTyped(l[k + 1])
    BY <1>2, <2>1
  <2>7. Rest(l, k) = FlattenSeq(SubSeq(P, k + 1, n)) /\ Rest(l, k + 1) = FlattenSeq(r)
    BY DEF Rest
  <2> HIDE DEF r, x, P, n
  <2> QED BY <2>4, <2>5, <2>6, <2>7
<1> QED BY <1>4, <1>5, <1>6

----------------------------------------------------------------------------

\* A name that keeps the character out of the provers' sight.
IsSpace(s) == s = " "

\* Spaces are no quotes.
LEMMA QuotesAre == "'" \in Quotes /\ \A s : IsSpace(s) => s \notin Quotes
BY Zenon DEF Quotes, IsSpace

\* A quote q after nothing but s, and the next one like it; a word after nothing but s.
Quoted(t, s, q, b, e) == /\ b < e /\ t[b] = q /\ t[e] = q
                         /\ \A i \in 1..(b - 1) : t[i] = s
                         /\ \A i \in (b + 1)..(e - 1) : t[i] # q
Word(t, s, b, e) == /\ b <= e
                    /\ \A i \in 1..(b - 1) : t[i] = s
                    /\ \A i \in b..e : t[i] # s

QuotedIn(t, s, n, q, b, e) ==
  n \in Nat /\ b \in 1..n /\ e \in 1..n /\ q # s /\ Quoted(t, s, q, b, e)
WordIn(t, s, n, b, e) == n \in Nat /\ b \in 1..n /\ e \in 1..n /\ Word(t, s, b, e)

SpaceBehind(t, s, n, e) == e < n /\ t[e + 1] = s

\* There is one such place at most ...
LEMMA OneQuoted ==
  \A t, s, n, a, q, k, e, b, f :
    QuotedIn(t, s, n, a, k, e) /\ QuotedIn(t, s, n, q, b, f) => b = k /\ f = e
<1> SUFFICES ASSUME NEW t, NEW s, NEW n, NEW a, NEW q, NEW k, NEW e, NEW b, NEW f,
                    QuotedIn(t, s, n, a, k, e), QuotedIn(t, s, n, q, b, f)
             PROVE  b = k /\ f = e
  OBVIOUS
<1>0. /\ n \in Nat /\ a # s /\ q # s /\ k \in 1..n /\ e \in 1..n /\ b \in 1..n /\ f \in 1..n
      /\ Quoted(t, s, a, k, e) /\ Quoted(t, s, q, b, f)
  BY DEF QuotedIn
<1>1. ~(b < k)
  <2>1. b < k => b \in 1..(k - 1)
    BY <1>0
  <2> QED BY <1>0, <2>1 DEF Quoted
<1>2. ~(k < b)
  <2>1. k < b => k \in 1..(b - 1)
    BY <1>0
  <2> QED BY <1>0, <2>1 DEF Quoted
<1>3. b = k
  BY <1>0, <1>1, <1>2
<1>4. q = a /\ t[e] = a /\ t[f] = a /\ k < e /\ k < f
  BY <1>0, <1>3 DEF Quoted
<1>5. ~(e < f)
  <2>1. e < f => e \in (b + 1)..(f - 1)
    BY <1>0, <1>3, <1>4
  <2> QED BY <1>0, <1>4, <2>1 DEF Quoted
<1>6. ~(f < e)
  <2>1. f < e => f \in (k + 1)..(e - 1)
    BY <1>0, <1>4
  <2> QED BY <1>0, <1>4, <2>1 DEF Quoted
<1> QED BY <1>0, <1>3, <1>5, <1>6

\* ... none if a word begins there with anything else ...
LEMMA NoneQuoted ==
  \A t, s, n, q, k, e, b, f :
    WordIn(t, s, n, k, e) /\ QuotedIn(t, s, n, q, b, f) => t[k] = q
<1> SUFFICES ASSUME NEW t, NEW s, NEW n, NEW q, NEW k, NEW e, NEW b, NEW f,
                    WordIn(t, s, n, k, e), QuotedIn(t, s, n, q, b, f)
             PROVE  t[k] = q
  OBVIOUS
<1>0. /\ n \in Nat /\ q # s /\ k \in 1..n /\ e \in 1..n /\ b \in 1..n /\ f \in 1..n
      /\ Word(t, s, k, e) /\ Quoted(t, s, q, b, f)
  BY DEF QuotedIn, WordIn
<1>1. ~(b < k)
  <2>1. b < k => b \in 1..(k - 1)
    BY <1>0
  <2> QED BY <1>0, <2>1 DEF Quoted, Word
<1>2. ~(k < b)
  <2>1. (k < b => k \in 1..(b - 1)) /\ k \in k..e
    BY <1>0 DEF Word
  <2> QED BY <1>0, <2>1 DEF Quoted, Word
<1>3. b = k
  BY <1>0, <1>1, <1>2
<1> QED BY <1>0, <1>3 DEF Quoted

\* ... and one word at most, if it is as long as it can be.
LEMMA OneWord ==
  \A t, s, n, k, e, b, f :
    WordIn(t, s, n, k, e) /\ WordIn(t, s, n, b, f) /\ SpaceBehind(t, s, n, f)
    => b = k /\ e <= f /\ (SpaceBehind(t, s, n, e) => f = e)
<1> SUFFICES ASSUME NEW t, NEW s, NEW n, NEW k, NEW e, NEW b, NEW f,
                    WordIn(t, s, n, k, e), WordIn(t, s, n, b, f), SpaceBehind(t, s, n, f)
             PROVE  b = k /\ e <= f /\ (SpaceBehind(t, s, n, e) => f = e)
  OBVIOUS
<1>0. /\ n \in Nat /\ k \in 1..n /\ e \in 1..n /\ b \in 1..n /\ f \in 1..n
      /\ Word(t, s, k, e) /\ Word(t, s, b, f) /\ f < n /\ t[f + 1] = s
  BY DEF WordIn, SpaceBehind
<1>1. ~(b < k)
  <2>1. (b < k => b \in 1..(k - 1)) /\ b \in b..f
    BY <1>0 DEF Word
  <2> QED BY <1>0, <2>1 DEF Word
<1>2. ~(k < b)
  <2>1. (k < b => k \in 1..(b - 1)) /\ k \in k..e
    BY <1>0 DEF Word
  <2> QED BY <1>0, <2>1 DEF Word
<1>3. b = k
  BY <1>0, <1>1, <1>2
<1>4. b <= f
  BY <1>0 DEF Word
<1>5. ~(f < e)
  <2>1. f < e => f + 1 \in k..e
    BY <1>0, <1>3, <1>4
  <2> QED BY <1>0, <2>1 DEF Word
<1>6. SpaceBehind(t, s, n, e) => ~(e < f)
  <2>1. k <= e
    BY <1>0 DEF Word
  <2>2. e < f => e + 1 \in b..f
    BY <1>0, <1>3, <2>1
  <2> QED BY <1>0, <2>2 DEF Word, SpaceBehind
<1> QED BY <1>0, <1>3, <1>5, <1>6

\* Delimited and FirstWord find such places.
LEMMA PlacesAre ==
  ASSUME NEW t, NEW q, NEW b, NEW e, NEW s, IsSpace(s)
  PROVE  /\ Delimited(t, q, b, e) <=> 1 <= b /\ e <= Len(t) /\ Quoted(t, s, q, b, e)
         /\ FirstWord(t, b, e) <=> 1 <= b /\ e < Len(t) /\ t[e + 1] = s /\ Word(t, s, b, e)
<1>1. Delimited(t, q, b, e) <=> 1 <= b /\ e <= Len(t) /\ Quoted(t, s, q, b, e)
  BY Zenon DEF Delimited, Blank, Quoted, IsSpace
<1>2. FirstWord(t, b, e) <=> 1 <= b /\ e < Len(t) /\ t[e + 1] = s /\ Word(t, s, b, e)
  BY Zenon DEF FirstWord, Blank, Word, IsSpace
<1> QED BY <1>1, <1>2, Zenon

\* What two texts behind each other have where ...
LEMMA CatIs ==
  ASSUME NEW S
  PROVE  \A x \in Seq(S) : \A y \in Seq(S) :
           /\ x \o y \in Seq(S) /\ Len(x \o y) = Len(x) + Len(y)
           /\ \A i \in 1..Len(x) + Len(y) :
                (x \o y)[i] = IF i <= Len(x) THEN x[i] ELSE y[i - Len(x)]
BY ConcatProperties

\* ... and what a part of a text has where.
LEMMA PartIs ==
  ASSUME NEW S
  PROVE  \A t \in Seq(S) : \A a \in Nat : \A m \in Nat : a + m <= Len(t) =>
           /\ SubSeq(t, a + 1, a + m) \in Seq(S) /\ Len(SubSeq(t, a + 1, a + m)) = m
           /\ \A i \in 1..m : SubSeq(t, a + 1, a + m)[i] = t[a + i]
<1> SUFFICES ASSUME NEW t \in Seq(S), NEW a \in Nat, NEW m \in Nat, a + m <= Len(t)
             PROVE  /\ SubSeq(t, a + 1, a + m) \in Seq(S) /\ Len(SubSeq(t, a + 1, a + m)) = m
                    /\ \A i \in 1..m : SubSeq(t, a + 1, a + m)[i] = t[a + i]
  OBVIOUS
<1> QED OBVIOUS

\* Three texts behind each other: their places ...
LEMMA Pieces ==
  ASSUME NEW S, NEW x \in Seq(S), NEW y \in Seq(S), NEW z \in Seq(S),
         NEW t, t = (x \o y) \o z
  PROVE  /\ t \in Seq(S) /\ Len(t) = Len(x) + Len(y) + Len(z)
         /\ Len(x) \in Nat /\ Len(y) \in Nat /\ Len(z) \in Nat
         /\ \A i \in 1..Len(x) : t[i] = x[i]
         /\ \A i \in 1..Len(y) : t[Len(x) + i] = y[i]
         /\ \A i \in 1..Len(z) : t[Len(x) + Len(y) + i] = z[i]
<1> DEFINE u == x \o y
           p == Len(x)
           m == Len(y)
           k == Len(z)
<1>1. u \in Seq(S) /\ Len(u) = p + m /\ \A i \in 1..p + m : u[i] = IF i <= p THEN x[i] ELSE y[i - p]
  BY CatIs, Zenon
<1>2. t = u \o z /\ p \in Nat /\ m \in Nat /\ k \in Nat
  OBVIOUS
<1> HIDE DEF u
<1>3. /\ u \o z \in Seq(S) /\ Len(u \o z) = Len(u) + k
      /\ \A i \in 1..Len(u) + k : (u \o z)[i] = IF i <= Len(u) THEN u[i] ELSE z[i - Len(u)]
  <2>1. \A a \in Seq(S) : \A b \in Seq(S) :
           /\ a \o b \in Seq(S) /\ Len(a \o b) = Len(a) + Len(b)
           /\ \A i \in 1..Len(a) + Len(b) :
                (a \o b)[i] = IF i <= Len(a) THEN a[i] ELSE b[i - Len(a)]
    BY CatIs
  <2> QED BY <1>1, <2>1, Zenon
<1> HIDE DEF p, m, k
<1>4. t \in Seq(S) /\ Len(t) = (p + m) + k
  BY <1>1, <1>2, <1>3, Zenon
<1>5. \A i \in 1..(p + m) + k : t[i] = IF i <= p + m THEN u[i] ELSE z[i - (p + m)]
  BY <1>1, <1>2, <1>3, Zenon
<1>6. /\ \A i \in 1..p : t[i] = x[i]
      /\ \A i \in 1..m : t[p + i] = y[i]
      /\ \A i \in 1..k : t[p + m + i] = z[i]
  <2>1. ASSUME NEW i \in 1..p PROVE t[i] = x[i]
    <3>1. i \in 1..(p + m) + k /\ i \in 1..p + m /\ i <= p + m /\ i <= p
      BY <1>2
    <3> QED BY <1>1, <1>5, <3>1, Zenon
  <2>2. ASSUME NEW i \in 1..m PROVE t[p + i] = y[i]
    <3>1. p + i \in 1..(p + m) + k /\ p + i \in 1..p + m /\ p + i <= p + m /\ ~(p + i <= p) /\ (p + i) - p = i
      BY <1>2
    <3> QED BY <1>1, <1>5, <3>1, Zenon
  <2>3. ASSUME NEW i \in 1..k PROVE t[p + m + i] = z[i]
    <3>1. p + m + i \in 1..(p + m) + k /\ ~(p + m + i <= p + m) /\ (p + m + i) - (p + m) = i
      BY <1>2
    <3> QED BY <1>5, <3>1, Zenon
  <2> QED BY <2>1, <2>2, <2>3
<1> QED BY <1>2, <1>4, <1>6, Zenon DEF p, m, k

\* A part of a text is known by its places.
LEMMA PartByPlaces ==
  ASSUME NEW S
  PROVE  \A t \in Seq(S) : \A w \in Seq(S) : \A a \in Nat :
           a + Len(w) <= Len(t) /\ (\A i \in 1..Len(w) : t[a + i] = w[i])
           => SubSeq(t, a + 1, a + Len(w)) = w
<1> SUFFICES ASSUME NEW t \in Seq(S), NEW w \in Seq(S), NEW a \in Nat,
                    a + Len(w) <= Len(t), \A i \in 1..Len(w) : t[a + i] = w[i]
             PROVE  SubSeq(t, a + 1, a + Len(w)) = w
  OBVIOUS
<1> DEFINE v == SubSeq(t, a + 1, a + Len(w))
<1>1. Len(w) \in Nat
  OBVIOUS
<1>2. v \in Seq(S) /\ Len(v) = Len(w) /\ \A i \in 1..Len(w) : v[i] = t[a + i]
  <2>1. \A h \in Seq(S) : \A b \in Nat : \A m \in Nat : b + m <= Len(h) =>
           /\ SubSeq(h, b + 1, b + m) \in Seq(S) /\ Len(SubSeq(h, b + 1, b + m)) = m
           /\ \A i \in 1..m : SubSeq(h, b + 1, b + m)[i] = h[b + i]
    BY PartIs
  <2> QED BY <1>1, <2>1, Zenon
<1> HIDE DEF v
<1>3. \A i \in 1..Len(v) : v[i] = w[i]
  BY <1>2
<1> QED BY <1>2, <1>3, SeqEqual DEF v

\* ... and how to get them back.
LEMMA PiecesBack ==
  ASSUME NEW S, NEW x \in Seq(S), NEW y \in Seq(S), NEW z \in Seq(S),
         NEW t, t = (x \o y) \o z
  PROVE  /\ SubSeq(t, 1, Len(x)) = x
         /\ SubSeq(t, Len(x) + 1, Len(x) + Len(y)) = y
         /\ SubSeq(t, Len(x) + Len(y) + 1, Len(t)) = z
<1>1. /\ t \in Seq(S) /\ Len(t) = Len(x) + Len(y) + Len(z)
      /\ \A i \in 1..Len(x) : t[i] = x[i]
      /\ \A i \in 1..Len(y) : t[Len(x) + i] = y[i]
      /\ \A i \in 1..Len(z) : t[Len(x) + Len(y) + i] = z[i]
  BY Pieces
<1>2. Len(x) \in Nat /\ Len(y) \in Nat /\ Len(z) \in Nat /\ Len(t) \in Nat
  OBVIOUS
<1>3. \A w \in Seq(S) : \A a \in Nat :
        a + Len(w) <= Len(t) /\ (\A i \in 1..Len(w) : t[a + i] = w[i])
        => SubSeq(t, a + 1, a + Len(w)) = w
  BY <1>1, PartByPlaces
<1>4. SubSeq(t, 0 + 1, 0 + Len(x)) = x
  <2>1. 0 \in Nat /\ 0 + Len(x) <= Len(t) /\ \A i \in 1..Len(x) : t[0 + i] = x[i]
    BY <1>1, <1>2
  <2> QED BY <1>3, <2>1, Zenon
<1>5. SubSeq(t, Len(x) + 1, Len(x) + Len(y)) = y
  <2>1. Len(x) + Len(y) <= Len(t)
    BY <1>1, <1>2
  <2> QED BY <1>1, <1>2, <1>3, <2>1
<1>6. SubSeq(t, (Len(x) + Len(y)) + 1, (Len(x) + Len(y)) + Len(z)) = z
  <2>1. Len(x) + Len(y) \in Nat /\ (Len(x) + Len(y)) + Len(z) <= Len(t)
    BY <1>1, <1>2
  <2> QED BY <1>1, <1>2, <1>3, <2>1
<1> QED BY <1>1, <1>2, <1>4, <1>5, <1>6
\* Three texts laid behind each other, and the last of them cut off again.
Laid(x, y, z, t, S) ==
  /\ t \in Seq(S) /\ Len(t) = Len(x) + Len(y) + Len(z)
  /\ Len(x) \in Nat /\ Len(y) \in Nat /\ Len(z) \in Nat
  /\ \A i \in 1..Len(x) : t[i] = x[i]
  /\ \A i \in 1..Len(y) : t[Len(x) + i] = y[i]
  /\ \A i \in 1..Len(z) : t[Len(x) + Len(y) + i] = z[i]
  /\ SubSeq(t, Len(x) + Len(y) + 1, Len(t)) = z

\* Any three texts behind each other are.
LEMMA ThreePieces ==
  ASSUME NEW S
  PROVE  \A x \in Seq(S) : \A y \in Seq(S) : \A z \in Seq(S) : Laid(x, y, z, (x \o y) \o z, S)
<1> SUFFICES ASSUME NEW x \in Seq(S), NEW y \in Seq(S), NEW z \in Seq(S)
             PROVE  Laid(x, y, z, (x \o y) \o z, S)
  OBVIOUS
<1> DEFINE t == (x \o y) \o z
<1>1. t = (x \o y) \o z
  OBVIOUS
<1> HIDE DEF t
<1> QED BY <1>1, Pieces, PiecesBack DEF Laid

\* x stands in quotes behind p blanks, and rest behind it; or bare behind lead.
QuotedAt(t, s, q, p, m, x, rest, S) ==
  /\ t \in Seq(S) /\ p \in Nat /\ m \in Nat /\ Len(t) \in Nat /\ p + m + 2 <= Len(t)
  /\ Quoted(t, s, q, p + 1, p + m + 2)
  /\ SubSeq(t, p + 2, p + m + 1) = x
  /\ SubSeq(t, p + m + 3, Len(t)) = rest

\* Where an argument in quotes stands.
LEMMA QuotedPlaces ==
  ASSUME NEW S, NEW lead \in Seq(S), NEW x \in Seq(S), NEW rest \in Seq(S), NEW q \in S, NEW s,
         \A i \in 1..Len(lead) : lead[i] = s, \A i \in 1..Len(x) : x[i] # q,
         NEW t, t = (lead \o ((<<q>> \o x) \o <<q>>)) \o rest,
         NEW p, p = Len(lead), NEW m, m = Len(x)
  PROVE  QuotedAt(t, s, q, p, m, x, rest, S)
<1> DEFINE o == <<q>>
           y == (o \o x) \o o
<1>o. o \in Seq(S) /\ Len(o) = 1 /\ o[1] = q
  OBVIOUS
<1> HIDE DEF o
<1>1. Laid(o, x, o, y, S)
  BY <1>o, ThreePieces, Zenon
<1>2. t = (lead \o y) \o rest
  BY DEF o
<1>3. y \in Seq(S)
  BY <1>1 DEF Laid
<1> HIDE DEF y
<1>4. Laid(lead, y, rest, t, S)
  <2>1. \A a \in Seq(S) : \A b \in Seq(S) : \A c \in Seq(S) : Laid(a, b, c, (a \o b) \o c, S)
    BY ThreePieces
  <2> QED BY <1>2, <1>3, <2>1, Zenon
<1>5. p \in Nat /\ m \in Nat /\ Len(y) = m + 2 /\ Len(t) \in Nat /\ p + m + 2 <= Len(t)
  BY <1>o, <1>1, <1>4 DEF Laid
<1>6. /\ \A i \in 1..p : t[i] = s
      /\ \A i \in 1..(m + 2) : t[p + i] = y[i]
  BY <1>4, <1>5 DEF Laid
<1>7. /\ y[1] = q /\ y[m + 2] = q
      /\ \A i \in 1..m : y[1 + i] = x[i]
  BY <1>o, <1>1, <1>5 DEF Laid
<1>8. t[p + 1] = q /\ t[p + m + 2] = q /\ \A i \in 1..m : t[(p + 1) + i] = x[i]
  <2>1. 1 \in 1..(m + 2) /\ m + 2 \in 1..(m + 2) /\ p + (m + 2) = p + m + 2
    BY <1>5
  <2>2. ASSUME NEW i \in 1..m PROVE t[(p + 1) + i] = x[i]
    <3>1. 1 + i \in 1..(m + 2) /\ p + (1 + i) = (p + 1) + i
      BY <1>5
    <3> QED BY <1>6, <1>7, <3>1, Zenon
  <2>3. t[p + 1] = y[1] /\ t[p + (m + 2)] = y[m + 2]
    BY <1>6, <2>1, Zenon
  <2> QED BY <1>7, <2>1, <2>2, <2>3, Zenon
<1>9. SubSeq(t, (p + 1) + 1, (p + 1) + Len(x)) = x
  <2>1. p + 1 \in Nat /\ (p + 1) + Len(x) <= Len(t) /\ x \in Seq(S) /\ t \in Seq(S)
    BY <1>4, <1>5 DEF Laid
  <2>2. \A i \in 1..Len(x) : t[(p + 1) + i] = x[i]
    BY <1>8
  <2>3. \A u \in Seq(S) : \A w \in Seq(S) : \A a \in Nat :
           a + Len(w) <= Len(u) /\ (\A i \in 1..Len(w) : u[a + i] = w[i])
           => SubSeq(u, a + 1, a + Len(w)) = w
    BY PartByPlaces
  <2> QED BY <2>1, <2>2, <2>3, Zenon
<1>10. (p + 1) + 1 = p + 2 /\ (p + 1) + Len(x) = p + m + 1 /\ Len(lead) + Len(y) + 1 = p + m + 3
  BY <1>5
<1>11. Quoted(t, s, q, p + 1, p + m + 2)
  <2>1. p + 1 < p + m + 2 /\ (p + 1) - 1 = p
    BY <1>5
  <2>2. ASSUME NEW i \in ((p + 1) + 1)..((p + m + 2) - 1) PROVE t[i] # q
    <3>1. i - (p + 1) \in 1..m /\ (p + 1) + (i - (p + 1)) = i
      BY <1>5
    <3>2. t[(p + 1) + (i - (p + 1))] = x[i - (p + 1)] /\ x[i - (p + 1)] # q
      BY <1>8, <3>1, Zenon
    <3> QED BY <3>1, <3>2, Zenon
  <2> QED BY <1>6, <1>8, <2>1, <2>2, Zenon DEF Quoted
<1>12. t \in Seq(S) /\ SubSeq(t, Len(lead) + Len(y) + 1, Len(t)) = rest
  BY <1>4, Zenon DEF Laid
<1> QED BY <1>5, <1>9, <1>10, <1>11, <1>12, Zenon DEF QuotedAt

WordAt(t, s, p, m, lead, x, rest, S) ==
  /\ t \in Seq(S) /\ p \in Nat /\ m \in Nat /\ m # 0 /\ Len(t) \in Nat
  /\ t[p + 1] = x[1] /\ Word(t, s, p + 1, p + m)
  /\ SubSeq(t, 1, p) = lead /\ SubSeq(t, p + 1, p + m) = x
  /\ rest = <<>> => Len(t) = p + m
  /\ rest # <<>> => /\ p + m < Len(t) /\ t[p + m + 1] = rest[1]
                    /\ SubSeq(t, p + m + 2, Len(t)) = Tail(rest)

\* Where a bare argument stands.
LEMMA WordPlaces ==
  ASSUME NEW S, NEW lead \in Seq(S), NEW x \in Seq(S), NEW rest \in Seq(S), NEW s,
         \A i \in 1..Len(lead) : lead[i] = s, \A i \in 1..Len(x) : x[i] # s, x # <<>>,
         NEW t, t = (lead \o x) \o rest,
         NEW p, p = Len(lead), NEW m, m = Len(x)
  PROVE  WordAt(t, s, p, m, lead, x, rest, S)
<1>1. /\ t \in Seq(S) /\ Len(t) = Len(lead) + Len(x) + Len(rest)
      /\ Len(lead) \in Nat /\ Len(x) \in Nat /\ Len(rest) \in Nat
      /\ \A i \in 1..Len(lead) : t[i] = lead[i]
      /\ \A i \in 1..Len(x) : t[Len(lead) + i] = x[i]
      /\ \A i \in 1..Len(rest) : t[Len(lead) + Len(x) + i] = rest[i]
  BY Pieces
<1>2. SubSeq(t, 1, p) = lead /\ SubSeq(t, p + 1, p + m) = x
  BY PiecesBack
<1>3. p \in Nat /\ m \in Nat /\ m # 0 /\ Len(t) \in Nat /\ Len(t) = p + m + Len(rest)
  BY <1>1
<1>4. \A i \in 1..p : t[i] = s
  BY <1>1
<1>5. \A i \in 1..m : t[p + i] = x[i]
  BY <1>1
<1>6. t[p + 1] = x[1]
  <2>1. 1 \in 1..m
    BY <1>3
  <2> QED BY <1>5, <2>1
<1>7. Word(t, s, p + 1, p + m)
  <2>1. p + 1 <= p + m /\ (p + 1) - 1 = p
    BY <1>3
  <2>2. ASSUME NEW i \in (p + 1)..(p + m) PROVE t[i] # s
    <3>1. i - p \in 1..m /\ p + (i - p) = i
      BY <1>3
    <3>2. t[p + (i - p)] = x[i - p] /\ x[i - p] # s
      BY <1>5, <3>1, Zenon
    <3> QED BY <3>1, <3>2, Zenon
  <2> QED BY <1>4, <2>1, <2>2, Zenon DEF Word
<1>8. ASSUME rest = <<>> PROVE Len(t) = p + m
  <2>1. Len(rest) = 0
    BY <1>8
  <2> QED BY <1>3, <2>1
<1>9. ASSUME rest # <<>>
      PROVE  /\ p + m < Len(t) /\ t[p + m + 1] = rest[1]
             /\ SubSeq(t, p + m + 2, Len(t)) = Tail(rest)
  <2> DEFINE r == Tail(rest)
  <2>1. /\ r \in Seq(S) /\ Len(r) = Len(rest) - 1 /\ \A i \in 1..Len(r) : r[i] = rest[i + 1]
    BY <1>9, HeadTailProperties
  <2>2. Len(rest) # 0
    BY <1>9
  <2> HIDE DEF r
  <2>3. p + m < Len(t) /\ 1 \in 1..Len(rest) /\ p + m + 1 \in Nat /\ (p + m + 1) + Len(r) = Len(t)
    BY <1>1, <1>3, <2>1, <2>2
  <2>4. t[p + m + 1] = rest[1]
    BY <1>1, <2>3, Zenon
  <2>5. \A i \in 1..Len(r) : t[(p + m + 1) + i] = r[i]
    <3> SUFFICES ASSUME NEW i \in 1..Len(r) PROVE t[(p + m + 1) + i] = r[i]
      OBVIOUS
    <3>1. i + 1 \in 1..Len(rest) /\ p + m + (i + 1) = (p + m + 1) + i
      BY <1>1, <1>3, <2>1
    <3>2. r[i] = rest[i + 1] /\ t[p + m + (i + 1)] = rest[i + 1]
      BY <1>1, <2>1, <3>1, Zenon
    <3> QED BY <3>1, <3>2, Zenon
  <2>6. SubSeq(t, (p + m + 1) + 1, (p + m + 1) + Len(r)) = r
    <3>1. \A u \in Seq(S) : \A w \in Seq(S) : \A a \in Nat :
           a + Len(w) <= Len(u) /\ (\A i \in 1..Len(w) : u[a + i] = w[i])
           => SubSeq(u, a + 1, a + Len(w)) = w
      BY PartByPlaces
    <3>2. (p + m + 1) + Len(r) <= Len(t)
      BY <1>3, <2>3
    <3> QED BY <1>1, <2>1, <2>3, <2>5, <3>1, <3>2, Zenon
  <2>7. (p + m + 1) + 1 = p + m + 2
    BY <1>3
  <2> QED BY <2>3, <2>4, <2>6, <2>7, Zenon DEF r
<1> QED BY <1>1, <1>2, <1>3, <1>6, <1>7, <1>8, <1>9, Zenon DEF WordAt

\* Both, for all texts at once.
LEMMA PlacesForAll ==
  ASSUME NEW S, NEW s
  PROVE  /\ \A lead \in Seq(S) : \A x \in Seq(S) : \A rest \in Seq(S) : \A q \in S :
              (\A i \in 1..Len(lead) : lead[i] = s) /\ (\A i \in 1..Len(x) : x[i] # q)
              => QuotedAt((lead \o ((<<q>> \o x) \o <<q>>)) \o rest, s, q, Len(lead), Len(x), x, rest, S)
         /\ \A lead \in Seq(S) : \A x \in Seq(S) : \A rest \in Seq(S) :
              (\A i \in 1..Len(lead) : lead[i] = s) /\ (\A i \in 1..Len(x) : x[i] # s) /\ x # <<>>
              => WordAt((lead \o x) \o rest, s, Len(lead), Len(x), lead, x, rest, S)
<1>1. ASSUME NEW lead \in Seq(S), NEW x \in Seq(S), NEW rest \in Seq(S), NEW q \in S,
             \A i \in 1..Len(lead) : lead[i] = s, \A i \in 1..Len(x) : x[i] # q
      PROVE  QuotedAt((lead \o ((<<q>> \o x) \o <<q>>)) \o rest, s, q, Len(lead), Len(x), x, rest, S)
  BY <1>1, QuotedPlaces
<1>2. ASSUME NEW lead \in Seq(S), NEW x \in Seq(S), NEW rest \in Seq(S),
             \A i \in 1..Len(lead) : lead[i] = s, \A i \in 1..Len(x) : x[i] # s, x # <<>>
      PROVE  WordAt((lead \o x) \o rest, s, Len(lead), Len(x), lead, x, rest, S)
  BY <1>2, WordPlaces
<1> QED BY <1>1, <1>2, Zenon

\* With an argument in quotes in front, a round takes that argument and leaves the rest.
LEMMA QuotedTaken ==
  ASSUME NEW lead \in Seq(Chars), NEW x \in Seq(Chars), NEW rest \in Seq(Chars),
         NEW q \in Quotes, q \in Chars, NEW s, IsSpace(s),
         \A i \in 1..Len(lead) : lead[i] = s, \A i \in 1..Len(x) : x[i] # q,
         argsa = (lead \o ((<<q>> \o x) \o <<q>>)) \o rest, Next
  PROVE  args' = Append(args, x) /\ argsa' = rest /\ typed' = typed
<1> DEFINE p == Len(lead)
           m == Len(x)
           n == Len(argsa)
<1>0. QuotedAt(argsa, s, q, p, m, x, rest, Chars)
  BY PlacesForAll, Zenon
<1>1. /\ argsa \in Seq(Chars) /\ p \in Nat /\ m \in Nat /\ n \in Nat /\ p + m + 2 <= n
      /\ Quoted(argsa, s, q, p + 1, p + m + 2)
      /\ SubSeq(argsa, p + 2, p + m + 1) = x
      /\ SubSeq(argsa, p + m + 3, n) = rest
  BY <1>0, Zenon DEF QuotedAt
<1> HIDE DEF p, m, n
<1>2. Places = 1..n /\ p + 1 \in 1..n /\ p + m + 2 \in 1..n
  BY <1>1 DEF Places, n
<1>3. Delimited(argsa, q, p + 1, p + m + 2)
  <2>1. 1 <= p + 1
    BY <1>1
  <2> QED BY <1>1, <2>1, PlacesAre, Zenon DEF n
<1>4. HasQuoted
  BY <1>2, <1>3, Zenon DEF HasQuoted
<1>5. TakeQuoted
  BY <1>4, Zenon DEF Next, TakeWord, TakeRest
<1>6. PICK c \in Quotes, b \in Places, e \in Places :
        /\ Delimited(argsa, c, b, e)
        /\ args'  = Append(args, SubSeq(argsa, b + 1, e - 1))
        /\ argsa' = SubSeq(argsa, e + 1, n)
  BY <1>5, Zenon DEF TakeQuoted, n
<1>7. Quoted(argsa, s, c, b, e)
  BY <1>6, PlacesAre, Zenon
<1>8. c # s /\ q # s
  BY QuotesAre, Zenon
<1>9. b = p + 1 /\ e = p + m + 2
  <2>1. b \in 1..n /\ e \in 1..n
    BY <1>2, Zenon
  <2>2. QuotedIn(argsa, s, n, q, p + 1, p + m + 2) /\ QuotedIn(argsa, s, n, c, b, e)
    BY <1>1, <1>2, <1>7, <1>8, <2>1, Zenon DEF QuotedIn
  <2> QED BY ONLY <2>2, OneQuoted
<1>10. b + 1 = p + 2 /\ e - 1 = p + m + 1 /\ e + 1 = p + m + 3
  BY <1>1, <1>9
<1>11. typed' = typed
  BY <1>5, Zenon DEF TakeQuoted
<1> QED BY <1>1, <1>6, <1>10, <1>11, Zenon

\* With a bare one in front, it takes that and the space behind it, or all if none is.
LEMMA WordTaken ==
  ASSUME NEW lead \in Seq(Chars), NEW x \in Seq(Chars), NEW rest \in Seq(Chars), NEW s, IsSpace(s),
         \A i \in 1..Len(lead) : lead[i] = s, \A i \in 1..Len(x) : x[i] # s,
         x # <<>>, x[1] \notin Quotes, rest # <<>> => rest[1] = s,
         argsa = (lead \o x) \o rest, Next
  PROVE  /\ typed' = typed
         /\ rest # <<>> => args' = Append(args, x) /\ argsa' = lead \o Tail(rest)
         /\ rest = <<>> => args' = Append(args, argsa) /\ argsa' = <<>> /\ ~False(argsa)
<1> DEFINE p == Len(lead)
           m == Len(x)
           n == Len(argsa)
<1>0. WordAt(argsa, s, p, m, lead, x, rest, Chars)
  BY PlacesForAll, Zenon
<1>1. /\ argsa \in Seq(Chars) /\ p \in Nat /\ m \in Nat /\ m # 0 /\ n \in Nat
      /\ argsa[p + 1] = x[1] /\ Word(argsa, s, p + 1, p + m)
      /\ SubSeq(argsa, 1, p) = lead /\ SubSeq(argsa, p + 1, p + m) = x
      /\ rest = <<>> => n = p + m
      /\ rest # <<>> => /\ p + m < n /\ argsa[p + m + 1] = rest[1]
                        /\ SubSeq(argsa, p + m + 2, n) = Tail(rest)
  BY <1>0, Zenon DEF WordAt
<1> HIDE DEF p, m, n
<1>2. Places = 1..n /\ p + 1 \in 1..n /\ p + m \in 1..n
  <2>1. rest = <<>> \/ rest # <<>>
    OBVIOUS
  <2>2. p + m <= n
    BY <1>1, <2>1
  <2> QED BY <1>1, <2>2 DEF Places, n
<1>3. ~HasQuoted
  <2> SUFFICES ASSUME NEW c \in Quotes, NEW b \in Places, NEW e \in Places, Delimited(argsa, c, b, e)
               PROVE  FALSE
    BY Zenon DEF HasQuoted
  <2>1. Quoted(argsa, s, c, b, e) /\ c # s
    BY PlacesAre, QuotesAre, Zenon
  <2>2. b \in 1..n /\ e \in 1..n
    BY <1>2, Zenon
  <2>3. argsa[p + 1] = c
    <3>1. WordIn(argsa, s, n, p + 1, p + m) /\ QuotedIn(argsa, s, n, c, b, e)
      BY <1>1, <1>2, <2>1, <2>2, Zenon DEF QuotedIn, WordIn
    <3> QED BY <3>1, NoneQuoted, Zenon
  <2> QED BY <1>1, <2>3, Zenon
<1>4. ASSUME NEW b \in Places, NEW e \in Places, FirstWord(argsa, b, e)
      PROVE  /\ b = p + 1 /\ p + m <= e /\ e < n
             /\ SpaceBehind(argsa, s, n, p + m) => e = p + m
  <2>1. Word(argsa, s, b, e) /\ e < n /\ argsa[e + 1] = s
    <3>1. FirstWord(argsa, b, e) <=> 1 <= b /\ e < n /\ argsa[e + 1] = s /\ Word(argsa, s, b, e)
      BY ONLY IsSpace(s), PlacesAre, Zenon DEF n
    <3> QED BY <1>4, <3>1, Zenon
  <2>2. b \in 1..n /\ e \in 1..n
    BY <1>2, Zenon
  <2>3. WordIn(argsa, s, n, p + 1, p + m) /\ WordIn(argsa, s, n, b, e)
    BY <1>1, <1>2, <2>1, <2>2, Zenon DEF WordIn
  <2>4. SpaceBehind(argsa, s, n, e)
    BY <2>1, Zenon DEF SpaceBehind
  <2>5. b = p + 1 /\ p + m <= e /\ (SpaceBehind(argsa, s, n, p + m) => e = p + m)
    BY ONLY <2>3, <2>4, OneWord
  <2> QED BY <2>1, <2>5, Zenon
<1>5. CASE rest # <<>>
  <2>1. argsa[p + m + 1] = s /\ p + m < n
    BY <1>1, <1>5, Zenon
  <2>2. HasWord
    <3>1. 1 <= p + 1
      BY <1>1
    <3>2. FirstWord(argsa, p + 1, p + m)
      BY <1>1, <2>1, <3>1, PlacesAre, Zenon DEF n
    <3> QED BY <1>2, <3>2, Zenon DEF HasWord
  <2>3. TakeWord
    BY <1>3, <2>2, Zenon DEF Next, TakeQuoted, TakeRest, HasQuoted
  <2>4. PICK b \in Places, e \in Places :
          /\ FirstWord(argsa, b, e)
          /\ args'  = Append(args, SubSeq(argsa, b, e))
          /\ argsa' = SubSeq(argsa, 1, b - 1) \o SubSeq(argsa, e + 2, n)
    BY <2>3, Zenon DEF TakeWord, n
  <2>5. b = p + 1 /\ e = p + m
    BY <1>4, <2>1, <2>4, Zenon DEF SpaceBehind
  <2>6. b - 1 = p
    BY <1>1, <2>5
  <2>7. typed' = typed
    BY <2>3, Zenon DEF TakeWord
  <2> QED BY <1>1, <1>5, <2>4, <2>5, <2>6, <2>7, Zenon
<1>6. CASE rest = <<>>
  <2>1. ~HasWord
    <3> SUFFICES ASSUME NEW b \in Places, NEW e \in Places, FirstWord(argsa, b, e) PROVE FALSE
      BY Zenon DEF HasWord
    <3>1. p + m <= e /\ e < n /\ e \in 1..n
      BY <1>2, <1>4, Zenon
    <3>2. n = p + m
      BY <1>1, <1>6, Zenon
    <3> QED BY <1>1, <3>1, <3>2
  <2>2. TakeRest
    BY <1>3, <2>1, Zenon DEF Next, TakeQuoted, TakeWord, HasQuoted, HasWord
  <2> QED BY <1>6, <2>2, Zenon DEF TakeRest
<1> QED BY <1>5, <1>6, Zenon

----------------------------------------------------------------------------
\* Names for three characters.
Space == " "
Apostrophe == "'"
Zero == "0"

\* A quote was taken before place k + 1.
AnyQuoted(l, k) == \E i \in 1..k : l[i].quoted

\* The texts of a list.
Meant(l) == [i \in DOMAIN l |-> l[i].text]

\* What is left when k arguments were taken: a space first if one of them was quoted.
Lead(l, k) == IF AnyQuoted(l, k) THEN <<Space>> ELSE <<>>
Left(l, k) == (Lead(l, k) \o AsTyped(l[k + 1])) \o Rest(l, k + 1)

\* What is known of them.
LEMMA CharactersAre ==
  /\ Space \in Chars /\ Apostrophe \in Chars /\ Apostrophe \in Quotes
  /\ IsSpace(Space) /\ Space \notin Quotes /\ Zero # Space /\ Zero # Apostrophe
  /\ \A t : False(t) <=> t = <<>> \/ t = <<Zero>>
<1>1. Quotes \cup {" "} \subseteq Chars
  BY MCArgumentsAssumption, Zenon
<1> QED BY <1>1, Zenon DEF Space, Apostrophe, Zero, Quotes, IsSpace, False

\* The characters of an argument as it is typed.
LEMMA ArgIs ==
  ASSUME NEW a \in Arg
  PROVE  /\ a.text \in Seq(Chars) /\ AsTyped(a) \in Seq(Chars)
         /\ a.quoted => /\ AsTyped(a) = (<<Apostrophe>> \o a.text) \o <<Apostrophe>>
                        /\ \A i \in 1..Len(a.text) : a.text[i] # Apostrophe
         /\ ~a.quoted => /\ AsTyped(a) = a.text /\ a.text # <<>> /\ a.text[1] \notin Quotes
                         /\ \A i \in 1..Len(a.text) : a.text[i] # Space
<1>1. /\ \A w \in Bare : /\ w \in Seq(Chars) /\ w # <<>> /\ w[1] \notin Quotes
                         /\ \A i \in DOMAIN w : w[i] # Space
      /\ \A x \in Inside : x \in Seq(Chars) /\ \A i \in DOMAIN x : x[i] # Apostrophe
  BY MCArgumentsAssumption, Zenon DEF Space, Apostrophe
<1>2. a.quoted => a.text \in Inside
  BY DEF Arg
<1>3. ~a.quoted => a.text \in Bare
  BY DEF Arg
<1>4. \A w \in Seq(Chars) : DOMAIN w = 1..Len(w)
  OBVIOUS
<1>5. a.text \in Seq(Chars)
  BY <1>1, <1>2, <1>3, Zenon
<1>6. a.quoted => /\ AsTyped(a) = (<<Apostrophe>> \o a.text) \o <<Apostrophe>>
                  /\ \A i \in 1..Len(a.text) : a.text[i] # Apostrophe
  <2>1. a.quoted => AsTyped(a) = (<<Apostrophe>> \o a.text) \o <<Apostrophe>>
    BY Zenon DEF AsTyped, Apostrophe
  <2>2. a.quoted => \A i \in DOMAIN a.text : a.text[i] # Apostrophe
    BY <1>1, <1>2, Zenon
  <2>3. DOMAIN a.text = 1..Len(a.text)
    BY <1>4, <1>5, Zenon
  <2> QED BY <2>1, <2>2, <2>3
<1>7. ~a.quoted => /\ AsTyped(a) = a.text /\ a.text # <<>> /\ a.text[1] \notin Quotes
                   /\ \A i \in 1..Len(a.text) : a.text[i] # Space
  <2>1. ~a.quoted => AsTyped(a) = a.text
    BY Zenon DEF AsTyped
  <2>2. ~a.quoted => /\ a.text # <<>> /\ a.text[1] \notin Quotes
                     /\ \A i \in DOMAIN a.text : a.text[i] # Space
    BY <1>1, <1>3, Zenon
  <2>3. DOMAIN a.text = 1..Len(a.text)
    BY <1>4, <1>5, Zenon
  <2> QED BY <2>1, <2>2, <2>3
<1>8. AsTyped(a) \in Seq(Chars)
  <2> DEFINE o == <<Apostrophe>>
  <2>1. \A x \in Seq(Chars) : \A y \in Seq(Chars) : x \o y \in Seq(Chars)
    BY CatType
  <2>2. o \in Seq(Chars)
    BY CharactersAre, IsList, Zenon
  <2> HIDE DEF o
  <2>3. (o \o a.text) \o o \in Seq(Chars)
    BY <1>5, <2>1, <2>2, Zenon
  <2> QED BY <1>5, <1>6, <1>7, <2>3 DEF o
<1> QED BY <1>5, <1>6, <1>7, <1>8

\* t has c in front and r behind it.
Begins(t, c, r) == t # <<>> /\ t[1] = c /\ Tail(t) = r

\* The first character of a text, and the rest.
LEMMA TailOfCat ==
  ASSUME NEW S
  PROVE  \A c \in S : \A x \in Seq(S) : \A y \in Seq(S) : Begins((<<c>> \o x) \o y, c, x \o y)
<1> SUFFICES ASSUME NEW c \in S, NEW x \in Seq(S), NEW y \in Seq(S)
             PROVE  /\ (<<c>> \o x) \o y # <<>> /\ ((<<c>> \o x) \o y)[1] = c
                    /\ Tail((<<c>> \o x) \o y) = x \o y
  BY Zenon DEF Begins
<1>1. (<<c>> \o x) \o y = <<c>> \o (x \o y)
  <2>1. <<c>> \in Seq(S)
    OBVIOUS
  <2> QED BY <2>1, ConcatAssociative
<1>2. \A z \in Seq(S) : <<c>> \o z # <<>> /\ (<<c>> \o z)[1] = c /\ Tail(<<c>> \o z) = z
  OBVIOUS
<1>3. x \o y \in Seq(S)
  BY CatType
<1> QED BY <1>1, <1>2, <1>3, Zenon

\* What is left behind the first places, said with Space, and the tail of it.
LEMMA RestBegins ==
  ASSUME NEW l \in Lists, NEW k \in 0..(Len(l) - 1)
  PROVE  /\ Len(l) \in Nat /\ k + 1 \in 1..Len(l) /\ k + 1 \in 0..Len(l) /\ k \in 0..Len(l)
         /\ l[k + 1] \in Arg /\ Rest(l, k + 1) \in Seq(Chars)
         /\ Rest(l, k) \in Seq(Chars) /\ Rest(l, k) # <<>> /\ Rest(l, k)[1] = Space
         /\ Rest(l, k) = (<<Space>> \o AsTyped(l[k + 1])) \o Rest(l, k + 1)
         /\ Tail(Rest(l, k)) = AsTyped(l[k + 1]) \o Rest(l, k + 1)
<1> DEFINE a == AsTyped(l[k + 1])
           r == Rest(l, k + 1)
<1>1. Len(l) \in Nat
  BY ListIs
<1>2. k + 1 \in 1..Len(l) /\ k + 1 \in 0..Len(l) /\ k \in 0..Len(l) /\ k < Len(l)
  BY <1>1
<1>3. l[k + 1] \in Arg /\ a \in Seq(Chars)
  BY <1>2, ListIs
<1>4. r \in Seq(Chars)
  BY <1>2, RestIs
<1>5. Rest(l, k) \in Seq(Chars) /\ Rest(l, k) = (<<Space>> \o a) \o r
  <2>1. Rest(l, k) \in Seq(Chars) /\ (k < Len(l) => Rest(l, k) = (<<" ">> \o AsTyped(l[k + 1])) \o Rest(l, k + 1))
    BY <1>2, RestIs, Zenon
  <2> QED BY <1>2, <2>1, Zenon DEF Space
<1> HIDE DEF a, r
<1>6. \A c \in Chars : \A x \in Seq(Chars) : \A y \in Seq(Chars) : Begins((<<c>> \o x) \o y, c, x \o y)
  BY TailOfCat, Zenon
<1>7. Space \in Chars
  BY CharactersAre
<1>8. Rest(l, k) # <<>> /\ Rest(l, k)[1] = Space /\ Tail(Rest(l, k)) = a \o r
  <2>1. Begins((<<Space>> \o a) \o r, Space, a \o r)
    BY <1>3, <1>4, <1>6, <1>7, Zenon
  <2> QED BY <1>5, <2>1, Zenon DEF Begins
<1>9. l[k + 1] \in Arg
  BY <1>3, Zenon
<1>10. /\ Rest(l, k) = (<<Space>> \o AsTyped(l[k + 1])) \o Rest(l, k + 1)
       /\ Tail(Rest(l, k)) = AsTyped(l[k + 1]) \o Rest(l, k + 1) /\ Rest(l, k + 1) \in Seq(Chars)
  BY <1>4, <1>5, <1>8, Zenon DEF a, r
<1> QED BY <1>1, <1>2, <1>5, <1>8, <1>9, <1>10

\* The texts of a list, one by one.
LEMMA MeantIs ==
  ASSUME NEW l \in Lists
  PROVE  /\ Meant(l) \in Seq(Seq(Chars)) /\ Len(Meant(l)) = Len(l)
         /\ SubSeq(Meant(l), 1, 0) = <<>> /\ SubSeq(Meant(l), 1, Len(l)) = Meant(l)
         /\ Front(Meant(l)) = SubSeq(Meant(l), 1, Len(l) - 1)
         /\ \A k \in 0..(Len(l) - 1) :
              SubSeq(Meant(l), 1, k + 1) = Append(SubSeq(Meant(l), 1, k), l[k + 1].text)
<1> DEFINE n == Len(l)
           M == Meant(l)
           V == Seq(Chars)
<1>1. n \in Nat /\ DOMAIN l = 1..n /\ \A i \in 1..n : l[i].text \in V
  BY ListIs
<1>2. \A i \in 1..n : M[i] = l[i].text
  BY <1>1, Zenon DEF Meant
<1>3. M \in [1..n -> V]
  <2> DEFINE e(i) == l[i].text
  <2>1. M = [i \in 1..n |-> e(i)] /\ \A i \in 1..n : e(i) \in V
    BY <1>1 DEF Meant
  <2> HIDE DEF e, M, n, V
  <2> QED BY <2>1
<1> HIDE DEF M, n, V
<1>4. M \in Seq(V) /\ Len(M) = n
  BY <1>1, <1>3, IsList
<1>5. SubSeq(M, 1, 0) = <<>> /\ SubSeq(M, 1, n) = M
  BY <1>4, SubSeqFull
<1>6. Front(M) = SubSeq(M, 1, n - 1)
  BY <1>4 DEF Front
<1>7. ASSUME NEW k \in 0..(n - 1)
      PROVE  SubSeq(M, 1, k + 1) = Append(SubSeq(M, 1, k), l[k + 1].text)
  <2>1. k + 1 \in 1..n /\ k + 1 \in 1..Len(M) /\ 1 \in 1..Len(M) /\ (k + 1) - 1 = k
    BY <1>1, <1>4
  <2>2. SubSeq(M, 1, k + 1) = SubSeq(M, 1, (k + 1) - 1) \o <<M[k + 1]>>
    BY <1>4, <2>1, SubSeqRecursiveSecond
  <2>3. M[k + 1] = l[k + 1].text /\ M[k + 1] \in V
    BY <1>1, <1>2, <2>1
  <2>4. SubSeq(M, 1, k) \in Seq(V)
    <3>1. \A i \in 1..k : M[i] \in V
      BY <1>1, <1>3
    <3>2. 1 \in Int /\ k \in Int
      BY <1>1
    <3> QED BY <3>1, <3>2, SubSeqProperties
  <2>5. Append(SubSeq(M, 1, k), M[k + 1]) = SubSeq(M, 1, k) \o <<M[k + 1]>>
    <3> DEFINE u == SubSeq(M, 1, k)
               c == M[k + 1]
    <3>1. u \in Seq(V) /\ c \in V
      BY <2>3, <2>4
    <3> HIDE DEF u, c
    <3>2. Append(u, c) = u \o <<c>>
      BY <3>1, AppendIsConcat
    <3> QED BY <3>2 DEF u, c
  <2> QED BY <2>1, <2>2, <2>3, <2>5, Zenon
<1> QED BY <1>4, <1>5, <1>6, <1>7 DEF M, n, V

\* What the bot makes of a list, by how its last argument is typed.
LEMMA UnderstoodIs ==
  ASSUME NEW l \in Lists, NEW k, k = Len(l) - 1
  PROVE  /\ k \in 0..(Len(l) - 1) /\ k + 1 = Len(l)
         /\ l[k + 1].quoted => Understood(l) = Append(SubSeq(Meant(l), 1, k), l[k + 1].text)
         /\ ~l[k + 1].quoted /\ AnyQuoted(l, k) =>
              Understood(l) = Append(SubSeq(Meant(l), 1, k), <<Space>> \o l[k + 1].text)
         /\ ~l[k + 1].quoted /\ ~AnyQuoted(l, k) =>
              Understood(l) = IF l[k + 1].text = <<Zero>> THEN SubSeq(Meant(l), 1, k)
                              ELSE Append(SubSeq(Meant(l), 1, k), l[k + 1].text)
<1>1. Len(l) \in Nat /\ Len(l) # 0 /\ DOMAIN l = 1..Len(l)
  BY ListIs
<1>2. k \in 0..(Len(l) - 1) /\ k + 1 = Len(l)
  BY <1>1
<1>3. ~l[k + 1].quoted => ((\E i \in DOMAIN l : l[i].quoted) <=> AnyQuoted(l, k))
  <2>1. \A i \in 1..k : i \in 1..Len(l)
    BY <1>2
  <2>2. \A i \in 1..Len(l) : i \in 1..k \/ i = k + 1
    BY <1>2
  <2> HIDE DEF AnyQuoted
  <2>3. AnyQuoted(l, k) <=> \E i \in 1..k : l[i].quoted
    BY DEF AnyQuoted
  <2> QED BY <1>1, <2>1, <2>2, <2>3
<1> DEFINE after == \E i \in DOMAIN l : l[i].quoted
           last == l[k + 1]
<1>4. Understood(l) = IF last.quoted THEN Meant(l)
                      ELSE IF after THEN Append(Front(Meant(l)), <<Space>> \o last.text)
                      ELSE IF last.text = <<Zero>> THEN Front(Meant(l))
                      ELSE Meant(l)
  BY <1>2, Zenon DEF Understood, Meant, Space, Zero
<1>5. /\ Front(Meant(l)) = SubSeq(Meant(l), 1, k)
      /\ Meant(l) = Append(SubSeq(Meant(l), 1, k), l[k + 1].text)
  <2>1. /\ SubSeq(Meant(l), 1, Len(l)) = Meant(l)
        /\ Front(Meant(l)) = SubSeq(Meant(l), 1, Len(l) - 1)
        /\ SubSeq(Meant(l), 1, k + 1) = Append(SubSeq(Meant(l), 1, k), l[k + 1].text)
    BY <1>2, MeantIs, Zenon
  <2> QED BY <1>2, <2>1, Zenon
<1> HIDE DEF after
<1>6. ~last.quoted => (after <=> AnyQuoted(l, k))
  BY <1>3 DEF after
<1> QED BY <1>2, <1>4, <1>5, <1>6, Zenon

\* From one argument to the next, what is left.
LEMMA LeftNext ==
  ASSUME NEW l \in Lists, NEW k \in 0..(Len(l) - 1), k + 1 # Len(l)
  PROVE  /\ k + 1 \in 0..(Len(l) - 1)
         /\ l[k + 1].quoted => Rest(l, k + 1) = Left(l, k + 1)
         /\ ~l[k + 1].quoted => Lead(l, k) \o Tail(Rest(l, k + 1)) = Left(l, k + 1)
<1> DEFINE j == k + 1
           a == AsTyped(l[j + 1])
           r == Rest(l, j + 1)
<1>1. Len(l) \in Nat
  BY ListIs
<1>2. j \in 0..(Len(l) - 1) /\ j \in 1..j
  BY <1>1
<1> HIDE DEF j
<1>3. /\ Rest(l, j) = (<<Space>> \o a) \o r /\ Tail(Rest(l, j)) = a \o r
      /\ r \in Seq(Chars) /\ l[j + 1] \in Arg
  BY <1>2, RestBegins, Zenon
<1>4. a \in Seq(Chars)
  BY <1>3, ArgIs
<1>5. l[j].quoted => Lead(l, j) = <<Space>>
  BY <1>2, Zenon DEF Lead, AnyQuoted
<1>6. ~l[j].quoted => Lead(l, j) = Lead(l, k)
  <2>1. \A i \in 1..k : i \in 1..j
    BY DEF j
  <2>2. \A i \in 1..j : i \in 1..k \/ i = j
    BY DEF j
  <2>3. ~l[j].quoted => (AnyQuoted(l, j) <=> AnyQuoted(l, k))
    BY <2>1, <2>2, Zenon DEF AnyQuoted
  <2> QED BY <2>3, Zenon DEF Lead
<1>7. Lead(l, k) \in Seq(Chars)
  <2>1. <<Space>> \in Seq(Chars)
    BY CharactersAre, IsList, Zenon
  <2>2. <<>> \in Seq(Chars)
    OBVIOUS
  <2> QED BY <2>1, <2>2, Zenon DEF Lead
<1>8. Lead(l, k) \o (a \o r) = (Lead(l, k) \o a) \o r
  <2> HIDE DEF a, r
  <2> DEFINE u == Lead(l, k)
  <2>1. u \in Seq(Chars)
    BY <1>7
  <2> HIDE DEF u
  <2>2. (u \o a) \o r = u \o (a \o r)
    <3>1. \A x \in Seq(Chars) : \A y \in Seq(Chars) : \A z \in Seq(Chars) :
            (x \o y) \o z = x \o (y \o z)
      BY CatAssoc
    <3> QED BY <1>3, <1>4, <2>1, <3>1, Zenon
  <2> QED BY <2>2 DEF u
<1>9. l[j].quoted => Rest(l, j) = Left(l, j)
  BY <1>3, <1>5, Zenon DEF Left
<1>10. ~l[j].quoted => Lead(l, k) \o Tail(Rest(l, j)) = Left(l, j)
  BY <1>3, <1>6, <1>8, Zenon DEF Left
<1> QED BY <1>2, <1>9, <1>10, Zenon DEF j

\* At first everything is left.
LEMMA JoinedIs ==
  ASSUME NEW l \in Lists
  PROVE  0 \in 0..(Len(l) - 1) /\ Joined(l) = Left(l, 0)
<1>1. Len(l) \in Nat /\ Len(l) # 0 /\ Parts(l) \in Seq(Seq(Chars)) /\ Len(Parts(l)) = Len(l)
  BY ListIs
<1>2. 0 \in 0..(Len(l) - 1) /\ 0 + 1 = 1
  BY <1>1
<1>3. Joined(l) = Tail(Rest(l, 0))
  <2>1. SubSeq(Parts(l), 1, Len(l)) = Parts(l)
    BY <1>1, SubSeqFull
  <2>2. Joined(l) = Tail(FlattenSeq(Parts(l)))
    BY Zenon DEF Joined, Parts
  <2>3. Rest(l, 0) = FlattenSeq(SubSeq(Parts(l), 1, Len(l)))
    BY <1>2, Zenon DEF Rest
  <2> QED BY <2>1, <2>2, <2>3, Zenon
<1>4. /\ Tail(Rest(l, 0)) = AsTyped(l[0 + 1]) \o Rest(l, 0 + 1)
      /\ l[0 + 1] \in Arg
  BY <1>2, RestBegins, Zenon
<1>5. Lead(l, 0) = <<>>
  <2>1. 1..0 = {}
    OBVIOUS
  <2> QED BY <2>1, Zenon DEF Lead, AnyQuoted
<1>6. AsTyped(l[0 + 1]) \in Seq(Chars)
  BY <1>4, ArgIs
<1>7. <<>> \o AsTyped(l[0 + 1]) = AsTyped(l[0 + 1])
  BY <1>6, CatType
<1> QED BY <1>2, <1>3, <1>4, <1>5, <1>7, Zenon DEF Left

\* The inductive invariant: of every list that may have been meant some arguments were
\* taken, each as meant, and the others are left as typed; or all is done.
Taking(l, k) == args = SubSeq(Meant(l), 1, k) /\ argsa = Left(l, k)
Done(l)      == argsa = <<>> /\ args = Understood(l)
Reading(l)   == Done(l) \/ \E k \in 0..(Len(l) - 1) : Taking(l, k)
RInv == \A l \in Lists : Joined(l) = typed => Reading(l)

\* A text that is not empty, with another behind it.
LEMMA FirstOfCat ==
  ASSUME NEW S
  PROVE  \A x \in Seq(S) : \A y \in Seq(S) : x # <<>> => x \o y # <<>> /\ (x \o y)[1] = x[1]
OBVIOUS

\* If the two are one character, it is the first's.
LEMMA OneCharacter ==
  ASSUME NEW S, NEW x \in Seq(S), NEW y \in Seq(S), x # <<>>, NEW c, x \o y = <<c>>
  PROVE  y = <<>> /\ x = <<c>>
<1>1. Len(x \o y) = Len(x) + Len(y) /\ Len(x) \in Nat /\ Len(y) \in Nat /\ Len(x) # 0
  <2>1. Len(x \o y) = Len(x) + Len(y)
    BY ConcatProperties
  <2>2. \A z \in Seq(S) : Len(z) \in Nat /\ (Len(z) = 0 => z = <<>>)
    OBVIOUS
  <2> QED BY <2>1, <2>2, Zenon
<1>2. Len(<<c>>) = 1
  OBVIOUS
<1>3. Len(y) = 0
  BY <1>1, <1>2
<1>4. y = <<>>
  BY <1>3
<1>5. x \o <<>> = x
  BY CatType
<1> QED BY <1>4, <1>5, Zenon

\* What is left ends the loop only where a "0" is left, the last argument, and no quote
\* was taken.
LEMMA LeftIsFalse ==
  ASSUME NEW l \in Lists, NEW k \in 0..(Len(l) - 1), False(Left(l, k))
  PROVE  k = Len(l) - 1 /\ ~l[k + 1].quoted /\ ~AnyQuoted(l, k) /\ l[k + 1].text = <<Zero>>
<1> DEFINE a == l[k + 1]
           y == AsTyped(a)
           r == Rest(l, k + 1)
           p == Lead(l, k)
<1>1. Len(l) \in Nat /\ a \in Arg /\ r \in Seq(Chars) /\ y \in Seq(Chars)
  BY RestBegins, ArgIs, Zenon
<1>2. p = <<>> \/ (AnyQuoted(l, k) /\ p = <<Space>>)
  BY Zenon DEF Lead
<1>3. ASSUME p = <<Space>> PROVE FALSE
  <2> HIDE DEF p, y, r
  <2>1. Left(l, k) = (<<Space>> \o y) \o r
    BY <1>3, Zenon DEF Left, p, y, r
  <2>2. Left(l, k) # <<>> /\ Left(l, k)[1] = Space
    <3>1. \A c \in Chars : \A u \in Seq(Chars) : \A v \in Seq(Chars) :
            Begins((<<c>> \o u) \o v, c, u \o v)
      BY TailOfCat
    <3>2. Space \in Chars
      BY CharactersAre
    <3>3. Begins((<<Space>> \o y) \o r, Space, y \o r)
      BY <1>1, <3>1, <3>2, Zenon
    <3> QED BY <2>1, <3>3, Zenon DEF Begins
  <2>3. Left(l, k) = <<Zero>> /\ Zero # Space
    BY <2>2, CharactersAre, Zenon
  <2>4. <<Zero>>[1] = Zero
    OBVIOUS
  <2> QED BY <2>2, <2>3, <2>4, Zenon
<1>4. p = <<>> /\ ~AnyQuoted(l, k)
  <2>1. AnyQuoted(l, k) => p = <<Space>>
    BY Zenon DEF Lead
  <2> QED BY <1>2, <1>3, <2>1, Zenon
<1>5. Left(l, k) = y \o r
  <2>1. <<>> \o y = y
    BY <1>1, CatType
  <2> QED BY <1>4, <2>1, Zenon DEF Left
<1>6. ASSUME a.quoted PROVE FALSE
  <2>1. y = (<<Apostrophe>> \o a.text) \o <<Apostrophe>> /\ a.text \in Seq(Chars)
    BY <1>1, <1>6, ArgIs, Zenon
  <2> HIDE DEF y, r, a
  <2>2. Apostrophe \in Chars /\ Zero # Apostrophe
    BY CharactersAre
  <2>3. <<Apostrophe>> \in Seq(Chars)
    BY <2>2, IsList, Zenon
  <2>4. y # <<>> /\ y[1] = Apostrophe
    <3>1. \A c \in Chars : \A u \in Seq(Chars) : \A v \in Seq(Chars) :
            Begins((<<c>> \o u) \o v, c, u \o v)
      BY TailOfCat
    <3>2. Begins((<<Apostrophe>> \o a.text) \o <<Apostrophe>>, Apostrophe, a.text \o <<Apostrophe>>)
      BY <2>1, <2>2, <2>3, <3>1, Zenon
    <3> QED BY <2>1, <3>2, Zenon DEF Begins
  <2>5. y \o r # <<>> /\ (y \o r)[1] = y[1]
    BY <1>1, <2>4, FirstOfCat
  <2>6. y \o r = <<Zero>>
    BY <1>5, <2>5, CharactersAre, Zenon
  <2>7. <<Zero>>[1] = Zero
    OBVIOUS
  <2> QED BY <2>2, <2>4, <2>5, <2>6, <2>7, Zenon
<1>7. y = a.text /\ a.text # <<>>
  BY <1>1, <1>6, ArgIs, Zenon
<1> HIDE DEF y, r
<1>8. y \o r = <<Zero>>
  <2>1. y # <<>>
    BY <1>7
  <2>2. y \o r # <<>>
    BY <1>1, <2>1, FirstOfCat
  <2> QED BY <1>5, <2>2, CharactersAre, Zenon
<1>9. r = <<>> /\ y = <<Zero>>
  <2>1. y # <<>>
    BY <1>7
  <2> QED BY <1>1, <1>8, <2>1, OneCharacter
<1>10. ~(k + 1 # Len(l))
  <2> SUFFICES ASSUME k + 1 # Len(l) PROVE FALSE
    OBVIOUS
  <2>1. k + 1 \in 0..(Len(l) - 1)
    BY <1>1
  <2>2. Rest(l, k + 1) # <<>>
    BY <2>1, RestBegins
  <2> QED BY <1>9, <2>2 DEF r
<1>11. k = Len(l) - 1
  BY <1>1, <1>10
<1> QED BY <1>4, <1>6, <1>7, <1>9, <1>11, Zenon

\* A step takes the next argument, or the last one and all that is left.
LEMMA ReadingStep ==
  ASSUME NEW l \in Lists, NEW k \in 0..(Len(l) - 1), Taking(l, k), Next
  PROVE  typed' = typed /\ (Done(l)' \/ \E i \in 0..(Len(l) - 1) : Taking(l, i)')
<1> DEFINE a == l[k + 1]
           r == Rest(l, k + 1)
           p == Lead(l, k)
           x == a.text
<1>1. Len(l) \in Nat /\ a \in Arg /\ r \in Seq(Chars)
  BY RestBegins, Zenon
<1>2. argsa = (p \o AsTyped(a)) \o r /\ args = SubSeq(Meant(l), 1, k)
  BY Zenon DEF Taking, Left
<1>3. p \in Seq(Chars) /\ \A i \in 1..Len(p) : p[i] = Space
  <2>1. /\ <<Space>> \in Seq(Chars) /\ \A i \in 1..Len(<<Space>>) : <<Space>>[i] = Space
        /\ <<>> \in Seq(Chars) /\ \A i \in 1..Len(<<>>) : <<>>[i] = Space
    <3>1. Space \in Chars
      BY CharactersAre
    <3> QED BY <3>1
  <2> QED BY <2>1, Zenon DEF Lead
<1>4. x \in Seq(Chars)
  BY <1>1, ArgIs
<1>5. k + 1 # Len(l) => k + 1 \in 0..(Len(l) - 1) /\ r # <<>> /\ r[1] = Space
  <2> SUFFICES ASSUME k + 1 # Len(l) PROVE k + 1 \in 0..(Len(l) - 1) /\ r # <<>> /\ r[1] = Space
    OBVIOUS
  <2>1. k + 1 \in 0..(Len(l) - 1)
    BY <1>1
  <2>2. Rest(l, k + 1) # <<>> /\ Rest(l, k + 1)[1] = Space
    BY <2>1, RestBegins
  <2> QED BY <2>1, <2>2
<1>6. k + 1 = Len(l) => k = Len(l) - 1 /\ r = <<>>
  <2>1. k + 1 \in 0..Len(l)
    BY <1>1
  <2>2. k + 1 = Len(l) => Rest(l, k + 1) = <<>>
    BY <2>1, RestIs
  <2> QED BY <1>1, <2>2
<1>7. SubSeq(Meant(l), 1, k + 1) = Append(SubSeq(Meant(l), 1, k), x)
  BY MeantIs
<1>8. CASE a.quoted
  <2>1. /\ AsTyped(a) = (<<Apostrophe>> \o x) \o <<Apostrophe>>
        /\ \A i \in 1..Len(x) : x[i] # Apostrophe
    BY <1>1, <1>8, ArgIs
  <2>2. args' = Append(args, x) /\ argsa' = r /\ typed' = typed
    <3>1. argsa = (p \o ((<<Apostrophe>> \o x) \o <<Apostrophe>>)) \o r
      BY <1>2, <2>1, Zenon
    <3>2. Apostrophe \in Quotes /\ Apostrophe \in Chars /\ IsSpace(Space)
      BY CharactersAre
    <3> HIDE DEF p, r, x
    <3> QED BY <1>1, <1>3, <1>4, <2>1, <3>1, <3>2, QuotedTaken
  <2>3. CASE k + 1 = Len(l)
    <3>1. Understood(l) = Append(SubSeq(Meant(l), 1, k), x)
      BY <1>6, <1>8, <2>3, UnderstoodIs, Zenon
    <3> QED BY <1>2, <1>6, <2>2, <2>3, <3>1, Zenon DEF Done
  <2>4. CASE k + 1 # Len(l)
    <3>1. r = Left(l, k + 1)
      BY <1>8, <2>4, LeftNext, Zenon
    <3>2. Taking(l, k + 1)'
      BY <1>2, <1>7, <2>2, <3>1, Zenon DEF Taking
    <3> QED BY <1>5, <2>2, <2>4, <3>2, Zenon
  <2> QED BY <2>3, <2>4, Zenon
<1>9. CASE ~a.quoted
  <2>1. /\ AsTyped(a) = x /\ x # <<>> /\ x[1] \notin Quotes
        /\ \A i \in 1..Len(x) : x[i] # Space
    BY <1>1, <1>9, ArgIs
  <2>2. /\ typed' = typed
        /\ r # <<>> => args' = Append(args, x) /\ argsa' = p \o Tail(r)
        /\ r = <<>> => args' = Append(args, argsa) /\ argsa' = <<>> /\ ~False(argsa)
    <3>1. argsa = (p \o x) \o r
      BY <1>2, <2>1, Zenon
    <3>2. IsSpace(Space)
      BY CharactersAre
    <3>3. r # <<>> => r[1] = Space
      BY <1>5, <1>6
    <3> HIDE DEF p, r, x
    <3> QED BY <1>1, <1>3, <1>4, <2>1, <3>1, <3>2, <3>3, WordTaken
  <2>3. CASE k + 1 = Len(l)
    <3>1. args' = Append(args, argsa) /\ argsa' = <<>> /\ ~False(argsa)
      BY <1>6, <2>2, <2>3, Zenon
    <3>2. argsa = p \o x
      <4>1. p \o x \in Seq(Chars)
        BY <1>3, <1>4, CatType
      <4>2. (p \o x) \o <<>> = p \o x
        BY <4>1, CatType
      <4> QED BY <1>2, <1>6, <2>1, <2>3, <4>2, Zenon
    <3>3. Understood(l) = Append(SubSeq(Meant(l), 1, k), p \o x)
      <4>1. CASE AnyQuoted(l, k)
        <5>1. p = <<Space>>
          BY <4>1, Zenon DEF Lead
        <5>2. Understood(l) = Append(SubSeq(Meant(l), 1, k), <<Space>> \o x)
          BY <1>6, <1>9, <2>3, <4>1, UnderstoodIs, Zenon
        <5> QED BY <5>1, <5>2, Zenon
      <4>2. CASE ~AnyQuoted(l, k)
        <5>1. p \o x = x
          <6>1. p = <<>>
            BY <4>2, Zenon DEF Lead
          <6>2. <<>> \o x = x
            BY <1>4, CatType
          <6> QED BY <6>1, <6>2, Zenon
        <5>2. x # <<Zero>>
          BY <3>1, <3>2, <5>1, CharactersAre, Zenon
        <5>3. Understood(l) = IF x = <<Zero>> THEN SubSeq(Meant(l), 1, k)
                              ELSE Append(SubSeq(Meant(l), 1, k), x)
          BY <1>6, <1>9, <2>3, <4>2, UnderstoodIs, Zenon
        <5> QED BY <5>1, <5>2, <5>3, Zenon
      <4> QED BY <4>1, <4>2, Zenon
    <3> QED BY <1>2, <2>2, <3>1, <3>2, <3>3, Zenon DEF Done
  <2>4. CASE k + 1 # Len(l)
    <3>1. args' = Append(args, x) /\ argsa' = p \o Tail(r)
      BY <1>5, <2>2, <2>4, Zenon
    <3>2. p \o Tail(r) = Left(l, k + 1)
      BY <1>9, <2>4, LeftNext, Zenon
    <3>3. Taking(l, k + 1)'
      BY <1>2, <1>7, <3>1, <3>2, Zenon DEF Taking
    <3> QED BY <1>5, <2>2, <2>4, <3>3, Zenon
  <2> QED BY <2>3, <2>4, Zenon
<1> QED BY <1>8, <1>9, Zenon

\* It holds at first ...
LEMMA ReadingInit == Init => RInv
<1> SUFFICES ASSUME Init, NEW l \in Lists, Joined(l) = typed PROVE Reading(l)
  BY Zenon DEF RInv
<1>1. 0 \in 0..(Len(l) - 1) /\ Joined(l) = Left(l, 0)
  BY JoinedIs
<1>2. SubSeq(Meant(l), 1, 0) = <<>>
  BY MeantIs
<1>3. argsa = typed /\ args = <<>>
  BY Zenon DEF Init
<1>4. Taking(l, 0)
  BY <1>1, <1>2, <1>3, Zenon DEF Taking
<1> QED BY <1>1, <1>4, Zenon DEF Reading

\* ... and each step keeps it.
LEMMA ReadingKept == RInv /\ [Next]_vars => RInv'
<1> SUFFICES ASSUME RInv, [Next]_vars PROVE RInv'
  OBVIOUS
<1>1. CASE UNCHANGED vars
  BY <1>1 DEF vars, RInv, Reading, Taking, Done
<1>2. CASE Next
  <2>1. ASSUME NEW l \in Lists, Joined(l) = typed PROVE typed' = typed /\ Reading(l)'
    <3>1. CASE Done(l)
      <4>1. False(argsa)
        BY <3>1, Zenon DEF Done, False
      <4> QED BY <1>2, <4>1, Zenon DEF Next, TakeQuoted, TakeWord, TakeRest
    <3>2. CASE \E k \in 0..(Len(l) - 1) : Taking(l, k)
      <4>1. PICK k \in 0..(Len(l) - 1) : Taking(l, k)
        BY <3>2
      <4>2. typed' = typed /\ (Done(l)' \/ \E i \in 0..(Len(l) - 1) : Taking(l, i)')
        BY <1>2, <4>1, ReadingStep
      <4> QED BY <4>2, Zenon DEF Reading
    <3>3. Reading(l)
      BY <2>1, Zenon DEF RInv
    <3> QED BY <3>1, <3>2, <3>3, Zenon DEF Reading
  <2>2. typed' = typed
    BY <1>2, Zenon DEF Next, TakeQuoted, TakeWord, TakeRest
  <2> QED BY <2>1, <2>2, Zenon DEF RInv
<1> QED BY <1>1, <1>2

\* When the loop ends, what the invariant says is what ReadAsMeant says.
LEMMA ReadingShows == RInv => ReadAsMeant
<1> SUFFICES ASSUME RInv, False(argsa), NEW l \in Lists, Joined(l) = typed
             PROVE  args = Understood(l)
  <2> SUFFICES ASSUME RInv, False(argsa), NEW r \in Readings, r.typed = typed PROVE args = r.args
    BY Zenon DEF ReadAsMeant
  <2>1. PICK l \in Lists : r = [typed |-> Joined(l), args |-> Understood(l)]
    BY DEF Readings
  <2>2. r.typed = Joined(l) /\ r.args = Understood(l)
    BY <2>1
  <2> QED BY <2>2
<1>1. CASE Done(l)
  BY <1>1, Zenon DEF Done
<1>2. CASE \E k \in 0..(Len(l) - 1) : Taking(l, k)
  <2>1. PICK k \in 0..(Len(l) - 1) : Taking(l, k)
    BY <1>2
  <2>2. args = SubSeq(Meant(l), 1, k) /\ False(Left(l, k))
    BY <2>1, Zenon DEF Taking
  <2>3. k = Len(l) - 1 /\ ~l[k + 1].quoted /\ ~AnyQuoted(l, k) /\ l[k + 1].text = <<Zero>>
    BY <2>2, LeftIsFalse
  <2>4. Understood(l) = IF l[k + 1].text = <<Zero>> THEN SubSeq(Meant(l), 1, k)
                        ELSE Append(SubSeq(Meant(l), 1, k), l[k + 1].text)
    BY <2>3, UnderstoodIs, Zenon
  <2> QED BY <2>2, <2>3, <2>4, Zenon
<1> QED BY <1>1, <1>2, Zenon DEF RInv, Reading

\* For bare and quoted arguments of any kind and length, in any order and number: what a
\* player means is what the command is given, but for the two last arguments Understood
\* names (the loop of parse_command).
THEOREM ListsAreReadAsMeant == Spec => []ReadAsMeant
<1>1. Init => RInv
  BY ReadingInit
<1>2. RInv /\ [Next]_vars => RInv'
  BY ReadingKept
<1>3. RInv => ReadAsMeant
  BY ReadingShows
<1> QED BY <1>1, <1>2, <1>3, PTL DEF Spec
=============================================================================
