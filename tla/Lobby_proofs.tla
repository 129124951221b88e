---------------------------- MODULE Lobby_proofs -----------------------------
(***************************************************************************)
(* The lobby for any game types, maps, names and searches, and however far *)
(* the server is behind the commands.                                      *)
(***************************************************************************)
EXTENDS MCLobby, SequenceTheorems, TLAPS

----------------------------------------------------------------------------
\* The head of what was typed is a key, and the rest are keys.
LEMMA HeadIsKey ==
  ASSUME keys \in Seq(Key), keys # <<>>
  PROVE  /\ Head(keys) \in Key /\ Tail(keys) \in Seq(Key)
         /\ Head(keys).what = "type" => Head(keys).value \in Types
         /\ Head(keys).what = "waves" => Head(keys).value = "n"
<1>1. Head(keys) \in Key /\ Tail(keys) \in Seq(Key)
  BY HeadTailProperties
<1> QED BY <1>1 DEF Key

\* What the commands type for a combo box.
LEMMA TypedIsKey ==
  /\ \A t \in Types : Typed("type", t) \in Key
  /\ \A s \in Searches : Typed("map", s) \in Key
  /\ Typed("waves", "n") \in Key
BY DEF Typed, Key

BotTypeOK ==
  /\ pc \in {"idle", "map", "list", "strip", "pick"}
  /\ goal \in {None, "select", "pick", "list"} /\ search \in Searches \cup {None}
  /\ goal = "select" => search # None
  /\ key \in Maps \cup {None} /\ maps \subseteq Maps
  /\ cache \in [Maps -> SUBSET Maps]

\* A text the box shows is a map.
LEMMA OffersMaps == ASSUME NEW t \in Types, NEW m \in Offers[t] PROVE m \in Maps
BY LobbyAssumption

\* The count of commands stays within its bound.
LEMMA CountsCommands ==
  ASSUME commands \in 0..MaxCommands, Command PROVE commands' \in 0..MaxCommands
BY LobbyAssumption DEF Command

\* One click more on its way keeps the counts numbers.
LEMMA ClicksTypes ==
  ASSUME TypeOK, NEW c \in Switches, NEW on \in BOOLEAN, SetCheck(c, on)
  PROVE  clicks' \in [Switches -> Nat]
<1>1. clicks \in [Switches -> Nat] /\ clicks[c] + 1 \in Nat
  BY DEF TypeOK
<1> QED BY <1>1 DEF SetCheck

\* The walk through maps starts and ends well typed.
LEMMA BotTypes ==
  ASSUME TypeOK PROVE
    /\ UNCHANGED botVars => BotTypeOK'
    /\ Rest => BotTypeOK'
    /\ \A s \in Searches : SelectMap(s) => BotTypeOK'
    /\ \A g \in {"pick", "list"}, s \in Searches \cup {None} : Walk(g, s) => BotTypeOK'
<1>1. UNCHANGED botVars => BotTypeOK'
  BY DEF TypeOK, BotTypeOK, botVars
<1>2. Rest => BotTypeOK'
  BY DEF TypeOK, BotTypeOK, Rest, None
<1>3. ASSUME NEW g \in {"select", "pick", "list"}, NEW s \in Searches \cup {None}, Walk(g, s),
             g = "select" => s # None
      PROVE  BotTypeOK'
  BY <1>3 DEF TypeOK, BotTypeOK, Walk, None
<1>4. \A s \in Searches : SelectMap(s) => BotTypeOK'
  BY <1>2, <1>3, LobbyAssumption DEF SelectMap
<1> QED BY <1>1, <1>2, <1>3, <1>4

\* Every command keeps the types ...
LEMMA TypingOfCommands ==
  ASSUME TypeOK,
         \/ \E c \in Switches, on \in BOOLEAN : Switch(c, on)
         \/ \E t \in Types : SelectGameType(t)
         \/ \E s \in Searches : MapCommand(s)
         \/ \E s \in Searches \cup {None} : ListMaps(s)
         \/ RandomMap
  PROVE  TypeOK'
<1>1. ASSUME NEW on \in BOOLEAN, SelectLock(on) PROVE TypeOK'
  <2>1. clicks' \in [Switches -> Nat]
    <3>1. SetCheck("lock", on) /\ "lock" \in Switches
      BY <1>1 DEF SelectLock, Switches
    <3> QED BY <3>1, ClicksTypes
  <2> QED BY <1>1, <2>1, CountsCommands DEF SelectLock, TypeOK, botVars, mapVars
<1>2. ASSUME NEW v \in {"off", "on", "n"}, SelectFragLimit(v) PROVE TypeOK'
  <2>1. clicks' \in [Switches -> Nat]
    <3>1. SetCheck("frags", (v # "off")) /\ "frags" \in Switches
      BY <1>2 DEF SelectFragLimit, Switches
    <3> QED BY <3>1, ClicksTypes
  <2>2. enabled' \in [Limits -> BOOLEAN]
    BY <1>2 DEF SelectFragLimit, TypeOK
  <2>3. limit' \in [Limits -> {"1", "n"}]
    BY <1>2 DEF SelectFragLimit, TypeOK
  <2> QED BY <1>2, <2>1, <2>2, <2>3, CountsCommands DEF SelectFragLimit, TypeOK, botVars, mapVars
<1>3. ASSUME NEW v \in {"off", "on", "n"}, SelectWaves(v) PROVE TypeOK'
  <2>1. clicks' \in [Switches -> Nat]
    <3>1. SetCheck("waves", (v # "off")) /\ "waves" \in Switches
      BY <1>3 DEF SelectWaves, Switches
    <3> QED BY <3>1, ClicksTypes
  <2>2. enabled' \in [Limits -> BOOLEAN]
    BY <1>3 DEF SelectWaves, TypeOK
  <2>3. keys' \in Seq(Key)
    BY <1>3, TypedIsKey, AppendProperties DEF SelectWaves, TypeOK
  <2> QED BY <1>3, <2>1, <2>2, <2>3, CountsCommands DEF SelectWaves, TypeOK, botVars, mapVars
<1>4. ASSUME NEW t \in Types, SelectGameType(t) PROVE TypeOK'
  <2>1. keys' \in Seq(Key)
    BY <1>4, TypedIsKey, AppendProperties DEF SelectGameType, TypeOK
  <2> QED BY <1>4, <2>1, CountsCommands DEF SelectGameType, TypeOK, botVars, mapVars, switchVars
<1>5. ASSUME \/ \E s \in Searches : MapCommand(s)
             \/ \E s \in Searches \cup {None} : ListMaps(s)
             \/ RandomMap
      PROVE  TypeOK'
  <2>1. BotTypeOK'
    BY <1>5, BotTypes DEF MapCommand, ListMaps, RandomMap
  <2>2. UNCHANGED <<mapVars, switchVars, keys>> /\ Command
    BY <1>5 DEF MapCommand, ListMaps, RandomMap
  <2> QED BY <2>1, <2>2, CountsCommands DEF BotTypeOK, TypeOK, mapVars, switchVars
<1> QED BY <1>1, <1>2, <1>3, <1>4, <1>5 DEF Switch

\* ... every step of a walk ...
LEMMA TypingOfBot == ASSUME TypeOK, Bot PROVE TypeOK'
<1>1. CASE LookMap
  BY <1>1, OffersMaps DEF LookMap, TypeOK, mapVars, switchVars
<1>2. CASE LookList
  <2>1. Offers[type] \subseteq Maps
    BY OffersMaps DEF TypeOK
  <2>2. cache' \in [Maps -> SUBSET Maps]
    BY <1>2, <2>1 DEF LookList, TypeOK
  <2>3. maps' \subseteq Maps
    BY <1>2, LobbyAssumption DEF LookList, TypeOK
  <2> QED BY <1>2, <2>2, <2>3 DEF LookList, TypeOK, mapVars, switchVars
<1>3. CASE TypesMap
  <2>1. BotTypeOK'
    BY <1>3, BotTypes DEF TypesMap
  <2>2. keys' \in Seq(Key)
    <3>1. search \in Searches
      BY <1>3 DEF TypesMap, TypeOK
    <3> QED BY <1>3, <3>1, TypedIsKey, AppendProperties DEF TypesMap, TypeOK
  <2> QED BY <1>3, <2>1, <2>2 DEF TypesMap, BotTypeOK, TypeOK, mapVars, switchVars
<1>4. CASE Lists
  <2>1. BotTypeOK'
    BY <1>4, BotTypes DEF Lists
  <2> QED BY <1>4, <2>1 DEF Lists, BotTypeOK, TypeOK, mapVars, switchVars
<1>5. CASE Strips
  BY <1>5 DEF Strips, Stripped, TypeOK, mapVars, switchVars
<1>6. CASE Picks
  <2>1. BotTypeOK'
    BY <1>6, BotTypes, LobbyAssumption DEF Picks, TypeOK
  <2> QED BY <1>6, <2>1 DEF Picks, BotTypeOK, TypeOK, mapVars, switchVars
<1> QED BY <1>1, <1>2, <1>3, <1>4, <1>5, <1>6 DEF Bot

\* ... and everything the server takes.
LEMMA TypingOfServer == ASSUME TypeOK, Server PROVE TypeOK'
<1>1. ASSUME NEW c \in Switches, TakeClick(c) PROVE TypeOK'
  <2>1. clicks' \in [Switches -> Nat] /\ checked' \in [Switches -> BOOLEAN]
    BY <1>1 DEF TakeClick, TypeOK
  <2> QED BY <1>1, <2>1 DEF TakeClick, TypeOK, botVars, mapVars
<1>2. CASE TakeType
  <2>1. type' \in Types /\ map' \in Offers[type'] /\ keys' \in Seq(Key)
    BY <1>2, HeadIsKey DEF TakeType, Takes, TypeOK
  <2> QED BY <1>2, <2>1 DEF TakeType, TypeOK, botVars, switchVars
<1>3. CASE TakeMap
  <2>1. map' \in Offers[type] /\ keys' \in Seq(Key)
    BY <1>3, HeadIsKey DEF TakeMap, Takes, TypeOK
  <2> QED BY <1>3, <2>1 DEF TakeMap, TypeOK, botVars, switchVars
<1>4. CASE TakeWaves
  <2>1. limit' \in [Limits -> {"1", "n"}] /\ keys' \in Seq(Key)
    BY <1>4, HeadIsKey DEF TakeWaves, Takes, TypeOK
  <2> QED BY <1>4, <2>1 DEF TakeWaves, TypeOK, botVars, mapVars
<1> QED BY <1>1, <1>2, <1>3, <1>4 DEF Server

\* So every step does.
LEMMA Typing == TypeOK /\ [Next]_vars => TypeOK'
<1> SUFFICES ASSUME TypeOK, [Next]_vars PROVE TypeOK'
  OBVIOUS
<1>1. CASE UNCHANGED vars
  BY <1>1 DEF vars, botVars, mapVars, switchVars, TypeOK
<1>2. CASE Next
  BY <1>2, TypingOfCommands, TypingOfBot, TypingOfServer DEF Next, MapsOrType
<1> QED BY <1>1, <1>2

\* The types hold at first.
LEMMA InitTyped == Init => TypeOK
<1> SUFFICES ASSUME Init PROVE TypeOK
  OBVIOUS
<1>1. keys \in Seq(Key) /\ commands \in 0..MaxCommands
  BY LobbyAssumption DEF Init
<1> QED BY <1>1 DEF Init, TypeOK, None

\* TypeOK: the map shown is always one that the type shown offers.
THEOREM LobbyTypeCorrect == Spec => []TypeOK
BY InitTyped, Typing, PTL DEF Spec

----------------------------------------------------------------------------
\* Switches and limits.

HistoryTypeOK == /\ asked \in [Switches -> BOOLEAN] /\ overtaken \in [Switches -> BOOLEAN]
                 /\ mixed \subseteq Maps

\* At most one click is on its way to a box that was not overtaken, and it is the one
\* that was asked for.
OneClick ==
  \A c \in Switches : ~overtaken[c] =>
    /\ clicks[c] \in {0, 1}
    /\ clicks[c] = 0 => checked[c] = asked[c]
    /\ clicks[c] = 1 => checked[c] = ~asked[c]

\* What is enabled and written follows what was asked at once.
Edits == /\ \A c \in Limits : enabled[c] = asked[c]
         /\ ~asked["frags"] => limit["frags"] = "1"

SInv == HistoryTypeOK /\ OneClick /\ Edits

\* A switch command leaves one click under way, the right one, or has overtaken another.
LEMMA SwitchKeeps ==
  ASSUME TypeOK, SInv, NEW c \in Switches, NEW on \in BOOLEAN, Switch(c, on),
         asked' = [asked EXCEPT ![c] = on],
         overtaken' = [overtaken EXCEPT ![c] = clicks[c] > 0]
  PROVE  OneClick' /\ Edits'
<1>1. SetCheck(c, on) /\ checked' = checked
  BY DEF Switch, SelectLock, SelectFragLimit, SelectWaves
<1>2. OneClick'
  <2>1. SUFFICES ASSUME NEW d \in Switches, ~overtaken'[d]
                 PROVE  /\ clicks'[d] \in {0, 1}
                        /\ clicks'[d] = 0 => checked'[d] = asked'[d]
                        /\ clicks'[d] = 1 => checked'[d] = ~asked'[d]
    BY DEF OneClick
  <2>2. CASE d # c
    <3>1. overtaken'[d] = overtaken[d] /\ asked'[d] = asked[d] /\ clicks'[d] = clicks[d]
      BY <1>1, <2>2 DEF SInv, HistoryTypeOK, SetCheck, TypeOK
    <3> QED BY <1>1, <2>1, <3>1 DEF SInv, OneClick
  <2>3. CASE d = c
    <3>1. overtaken'[c] = (clicks[c] > 0) /\ asked'[c] = on
      BY DEF SInv, HistoryTypeOK
    <3>2. clicks[c] = 0 /\ checked[c] \in BOOLEAN
      <4>1. clicks[c] \in Nat /\ checked[c] \in BOOLEAN
        BY DEF TypeOK
      <4>2. ~(clicks[c] > 0)
        BY <2>1, <2>3, <3>1
      <4> QED BY <4>1, <4>2
    <3>3. clicks'[c] = IF checked[c] = on THEN 0 ELSE 1
      BY <1>1, <3>2 DEF SetCheck, TypeOK
    <3> QED BY <1>1, <2>3, <3>1, <3>2, <3>3
  <2> QED BY <2>2, <2>3
<1>3. Edits'
  <2>1. \A d \in Switches : asked'[d] = IF d = c THEN on ELSE asked[d]
    BY DEF SInv, HistoryTypeOK
  <2>2. CASE c = "lock"
    <3>1. UNCHANGED <<enabled, limit>>
      BY <2>2 DEF Switch, SelectLock
    <3> QED BY <2>1, <2>2, <3>1 DEF SInv, Edits, Switches, Limits
  <2>3. CASE c # "lock"
    <3>1. PICK v \in {"off", "on", "n"} :
            /\ on = (v # "off")
            /\ \/ c = "frags" /\ SelectFragLimit(v)
               \/ c = "waves" /\ SelectWaves(v)
      BY <2>3 DEF Switch
    <3>2. \A d \in Limits : enabled'[d] = IF d = c THEN on ELSE enabled[d]
      BY <2>3, <3>1 DEF SelectFragLimit, SelectWaves, TypeOK, Limits
    <3>3. CASE c = "frags"
      <4>1. ~on => limit'["frags"] = "1"
        BY <3>1, <3>3 DEF SelectFragLimit, TypeOK, Limits
      <4> QED BY <2>1, <3>2, <3>3, <4>1 DEF SInv, Edits, Switches, Limits
    <3>4. CASE c = "waves"
      <4>1. limit' = limit
        BY <3>1, <3>4 DEF SelectWaves
      <4> QED BY <2>1, <3>2, <3>4, <4>1 DEF SInv, Edits, Switches, Limits
    <3> QED BY <3>1, <3>3, <3>4
  <2> QED BY <2>2, <2>3
<1> QED BY <1>2, <1>3

\* What is neither a switch nor a click it waits for leaves the switches alone.
LEMMA OthersKeep ==
  ASSUME TypeOK, SInv, MapsOrType \/ Server, UNCHANGED <<asked, overtaken>>
  PROVE  OneClick' /\ Edits'
<1>1. ASSUME UNCHANGED switchVars PROVE OneClick' /\ Edits'
  BY <1>1 DEF switchVars, SInv, OneClick, Edits
<1>2. CASE MapsOrType
  <2>1. UNCHANGED switchVars
    BY <1>2 DEF MapsOrType, SelectGameType, MapCommand, ListMaps, RandomMap, Bot,
                LookMap, LookList, TypesMap, Lists, Strips, Picks
  <2> QED BY <1>1, <2>1
<1>3. ASSUME NEW c \in Switches, TakeClick(c) PROVE OneClick' /\ Edits'
  <2>1. OneClick'
    <3>1. SUFFICES ASSUME NEW d \in Switches, ~overtaken[d]
                   PROVE  /\ clicks'[d] \in {0, 1}
                          /\ clicks'[d] = 0 => checked'[d] = asked[d]
                          /\ clicks'[d] = 1 => checked'[d] = ~asked[d]
      BY DEF OneClick
    <3>2. /\ clicks[d] \in {0, 1}
          /\ clicks[d] = 0 => checked[d] = asked[d]
          /\ clicks[d] = 1 => checked[d] = ~asked[d]
      BY <3>1 DEF SInv, OneClick
    <3>3. CASE d # c
      <4>1. clicks'[d] = clicks[d] /\ checked'[d] = checked[d]
        BY <1>3, <3>3 DEF TakeClick, TypeOK
      <4> QED BY <3>2, <4>1
    <3>4. CASE d = c
      <4>1. clicks[d] = 1 /\ clicks'[d] = 0
        BY <1>3, <3>2, <3>4 DEF TakeClick, TypeOK
      <4>2. checked'[d] = ~checked[d] /\ asked[d] \in BOOLEAN
        BY <1>3, <3>4 DEF TakeClick, TypeOK, SInv, HistoryTypeOK
      <4> QED BY <3>2, <4>1, <4>2
    <3> QED BY <3>3, <3>4
  <2> QED BY <1>3, <2>1 DEF TakeClick, SInv, Edits
<1>4. CASE TakeType \/ TakeMap
  BY <1>1, <1>4 DEF TakeType, TakeMap
<1>5. CASE TakeWaves
  <2>1. limit'["frags"] = limit["frags"] /\ UNCHANGED <<checked, enabled, clicks>>
    BY <1>5 DEF TakeWaves, TypeOK, Limits
  <2> QED BY <2>1 DEF SInv, OneClick, Edits
<1> QED BY <1>2, <1>3, <1>4, <1>5 DEF Server

\* The invariant of the switches is inductive.
LEMMA SwitchesInductive == TypeOK /\ SInv /\ [MCNext]_<<vars, history>> => SInv'
<1> SUFFICES ASSUME TypeOK, SInv, [MCNext]_<<vars, history>> PROVE SInv'
  OBVIOUS
<1>1. CASE UNCHANGED <<vars, history>>
  BY <1>1 DEF vars, history, switchVars, SInv, HistoryTypeOK, OneClick, Edits
<1>2. CASE MCNext
  <2>1. OneClick' /\ Edits'
    BY <1>2, SwitchKeeps, OthersKeep DEF MCNext
  <2>2. asked' \in [Switches -> BOOLEAN] /\ overtaken' \in [Switches -> BOOLEAN]
    <3>1. \A c \in Switches : (clicks[c] > 0) \in BOOLEAN
      OBVIOUS
    <3> QED BY <1>2, <3>1 DEF MCNext, SInv, HistoryTypeOK
  <2>3. mixed' \subseteq Maps
    BY <1>2, OffersMaps DEF MCNext, SInv, HistoryTypeOK, TypeOK
  <2> QED BY <2>1, <2>2, <2>3 DEF SInv, HistoryTypeOK
<1> QED BY <1>1, <1>2

----------------------------------------------------------------------------
\* Maps.

\* Nobody hurried: while the maps are walked through no type is on its way, a search
\* for Tangle was let pass for another type, and no map follows a type in the keys.
Patient ==
  ~hurried =>
    /\ pc # "idle" => ~TypeUnderway
    /\ pc \in {"map", "list", "strip"} /\ goal = "select" /\ search \in Tangles => type # TeamBattle
    /\ \A j \in DOMAIN keys : keys[j].what = "map" =>
         /\ \A i \in 1..(j - 1) : keys[i].what # "type"
         /\ keys[j].value \in Tangles => type # TeamBattle

\* Between reading the map shown and its list, the type stays one that offers it.
Filing ==
  pc = "list" /\ key \in Maps \ mixed /\ cache[key] = {} => key \in Offers[type] /\ ~TypeUnderway

MInv == Patient /\ Filing /\ CacheFits

\* hurried is reset only when nothing is left to go wrong.
LEMMA StillPatient ==
  ASSUME MCNext, ~hurried'
  PROVE  /\ ~hurried \/ (keys' = <<>> /\ pc' = "idle")
         /\ pc' = "map" => ~TypeUnderway
BY DEF MCNext, Walks

\* With nothing typed and no walk nobody is hasty.
LEMMA NothingLeft == ASSUME keys' = <<>>, pc' = "idle" PROVE Patient'
BY DEF Patient, TypeUnderway

\* Keys and type as they were, and the walk no further than it may be.
LEMMA PatientStill ==
  ASSUME Patient, UNCHANGED <<keys, type>>, ~hurried,
         \/ pc' = "idle"
         \/ pc # "idle" /\ pc' \in {"list", "strip"} /\ pc \in {"map", "list"}
              /\ UNCHANGED <<goal, search>>
         \/ pc # "idle" /\ pc' = "pick"
         \/ UNCHANGED <<pc, goal, search>>
  PROVE  Patient'
BY DEF Patient, TypeUnderway

\* A walk begins with no type under way.
LEMMA PatientWalk ==
  ASSUME Patient, UNCHANGED <<keys, type>>, ~hurried, ~TypeUnderway,
         NEW g, NEW s, Walk(g, s), g = "select" /\ s \in Tangles => type # TeamBattle
  PROVE  Patient'
BY DEF Patient, TypeUnderway, Walk

\* What is typed comes behind what is on its way ...
LEMMA KeysAppended ==
  ASSUME keys \in Seq(Key), NEW k \in Key, keys' = Append(keys, k)
  PROVE  /\ Len(keys') = Len(keys) + 1 /\ Len(keys) \in Nat
         /\ DOMAIN keys = 1..Len(keys) /\ DOMAIN keys' = 1..(Len(keys) + 1)
         /\ \A i \in 1..Len(keys) : keys'[i] = keys[i]
         /\ keys'[Len(keys) + 1] = k
<1>1. /\ Len(keys') = Len(keys) + 1 /\ keys' \in Seq(Key)
      /\ \A i \in 1..Len(keys) : keys'[i] = keys[i]
      /\ keys'[Len(keys) + 1] = k
  BY AppendProperties
<1> QED BY <1>1

\* ... and the server takes the first of it.
LEMMA KeysTaken ==
  ASSUME keys \in Seq(Key), keys # <<>>, keys' = Tail(keys)
  PROVE  /\ keys' \in Seq(Key)
         /\ \A i \in DOMAIN keys' : i \in Nat \ {0} /\ i + 1 \in DOMAIN keys /\ keys'[i] = keys[i + 1]
         /\ 1 \in DOMAIN keys /\ keys[1] = Head(keys)
<1>1. /\ keys' \in Seq(Key) /\ Len(keys') = Len(keys) - 1
      /\ \A i \in 1..Len(keys') : keys'[i] = keys[i + 1]
  BY HeadTailProperties
<1>2. Len(keys) \in Nat \ {0} /\ Head(keys) = keys[1] /\ DOMAIN keys = 1..Len(keys)
  BY EmptySeq
<1> QED BY <1>1, <1>2

\* A command that types something which is not a map.
LEMMA PatientTyping ==
  ASSUME TypeOK, Patient, ~hurried, UNCHANGED type, pc = "idle", pc' = "idle",
         NEW k \in Key, k.what # "map", keys' = Append(keys, k)
  PROVE  Patient'
<1>1. /\ Len(keys) \in Nat
      /\ DOMAIN keys = 1..Len(keys) /\ DOMAIN keys' = 1..(Len(keys) + 1)
      /\ \A i \in 1..Len(keys) : keys'[i] = keys[i]
      /\ keys'[Len(keys) + 1] = k
  BY KeysAppended DEF TypeOK
<1>2. ASSUME NEW j \in DOMAIN keys', keys'[j].what = "map"
      PROVE  /\ \A i \in 1..(j - 1) : keys'[i].what # "type"
             /\ keys'[j].value \in Tangles => type' # TeamBattle
  <2>1. j \in 1..Len(keys) /\ keys'[j] = keys[j]
    BY <1>1, <1>2
  <2>2. \A i \in 1..(j - 1) : keys'[i] = keys[i]
    BY <1>1, <2>1
  <2> QED BY <1>1, <1>2, <2>1, <2>2 DEF Patient
<1> QED BY <1>2 DEF Patient

\* A map is typed for the type that is there (select_map).
LEMMA PatientTypesMap ==
  ASSUME TypeOK, Patient, ~hurried, TypesMap, keys' # keys PROVE Patient'
<1>1. /\ pc = "strip" /\ goal = "select" /\ pc' = "idle" /\ UNCHANGED type
      /\ search \in Searches /\ keys' = Append(keys, Typed("map", search))
  BY DEF TypesMap, Rest, mapVars, TypeOK
<1> DEFINE k == Typed("map", search)
<1>2. k \in Key /\ k.what = "map" /\ k.value = search
  BY <1>1, TypedIsKey DEF Typed
<1>3. /\ Len(keys) \in Nat
      /\ DOMAIN keys = 1..Len(keys) /\ DOMAIN keys' = 1..(Len(keys) + 1)
      /\ \A i \in 1..Len(keys) : keys'[i] = keys[i]
      /\ keys'[Len(keys) + 1] = k
  BY <1>1, <1>2, KeysAppended DEF TypeOK
<1> HIDE DEF k
<1>4. \A i \in 1..Len(keys) : keys[i].what # "type"
  BY <1>1, <1>3 DEF Patient, TypeUnderway
<1>5. search \in Tangles => type # TeamBattle
  BY <1>1 DEF Patient
<1>6. ASSUME NEW j \in DOMAIN keys', keys'[j].what = "map"
      PROVE  /\ \A i \in 1..(j - 1) : keys'[i].what # "type"
             /\ keys'[j].value \in Tangles => type' # TeamBattle
  <2>1. \A i \in 1..(j - 1) : i \in 1..Len(keys)
    BY <1>3
  <2>2. CASE j = Len(keys) + 1
    BY <1>1, <1>2, <1>3, <1>4, <1>5, <2>1, <2>2
  <2>3. CASE j # Len(keys) + 1
    <3>1. j \in DOMAIN keys /\ keys'[j] = keys[j]
      BY <1>3, <2>3
    <3> QED BY <1>1, <1>3, <1>4, <1>6, <2>1, <3>1 DEF Patient
  <2> QED BY <2>2, <2>3
<1> QED BY <1>1, <1>6 DEF Patient

\* What the server takes leaves the rest in its order.
LEMMA PatientTakes ==
  ASSUME TypeOK, Patient, ~hurried, TakeType \/ TakeMap \/ TakeWaves PROVE Patient'
<1>1. keys # <<>> /\ keys' = Tail(keys) /\ UNCHANGED <<pc, goal, search>>
  BY DEF TakeType, TakeMap, TakeWaves, Takes, botVars
<1>2. /\ \A i \in DOMAIN keys' : i \in Nat \ {0} /\ i + 1 \in DOMAIN keys /\ keys'[i] = keys[i + 1]
      /\ 1 \in DOMAIN keys /\ keys[1] = Head(keys)
  BY <1>1, KeysTaken DEF TypeOK
<1>3. CASE TakeType
  <2>1. TypeUnderway
    BY <1>2, <1>3 DEF TakeType, Takes, TypeUnderway
  <2>2. pc' = "idle"
    BY <1>1, <2>1 DEF Patient
  <2>3. ASSUME NEW j \in DOMAIN keys', keys'[j].what = "map" PROVE FALSE
    <3>1. keys[j + 1].what = "map" /\ 1 \in 1..((j + 1) - 1) /\ j + 1 \in DOMAIN keys
      BY <1>2, <2>3
    <3>2. keys[1].what = "type"
      BY <1>2, <1>3 DEF TakeType, Takes
    <3> QED BY <3>1, <3>2 DEF Patient
  <2> QED BY <2>2, <2>3 DEF Patient
<1>4. CASE TakeMap \/ TakeWaves
  <2>1. type' = type
    BY <1>4 DEF TakeMap, TakeWaves, mapVars
  <2>2. TypeUnderway' => TypeUnderway
    BY <1>2 DEF TypeUnderway
  <2>3. ASSUME NEW j \in DOMAIN keys', keys'[j].what = "map"
        PROVE  /\ \A i \in 1..(j - 1) : keys'[i].what # "type"
               /\ keys'[j].value \in Tangles => type' # TeamBattle
    <3>1. j \in Nat /\ j + 1 \in DOMAIN keys /\ keys'[j] = keys[j + 1]
      BY <1>2
    <3>2. /\ \A i \in 1..((j + 1) - 1) : keys[i].what # "type"
          /\ keys[j + 1].value \in Tangles => type # TeamBattle
      BY <2>3, <3>1 DEF Patient
    <3>3. ASSUME NEW i \in 1..(j - 1) PROVE keys'[i].what # "type"
      <4>1. i \in DOMAIN keys'
        <5>1. DOMAIN keys' = 1..Len(keys') /\ Len(keys') \in Nat
          BY <1>1, KeysTaken DEF TypeOK
        <5> QED BY <5>1
      <4>2. keys'[i] = keys[i + 1] /\ i + 1 \in 1..((j + 1) - 1)
        BY <1>2, <3>1, <4>1
      <4> QED BY <3>2, <4>2
    <3> QED BY <2>1, <3>1, <3>2, <3>3
  <2> QED BY <1>1, <2>1, <2>2, <2>3 DEF Patient
<1> QED BY <1>3, <1>4

\* Without haste, no step puts a type between a test and the map it was for.
LEMMA PatientSteps ==
  ASSUME TypeOK, Patient, MCNext, ~hurried' PROVE Patient'
<1>0. CASE keys' = <<>> /\ pc' = "idle"
  BY <1>0, NothingLeft
<1>1. SUFFICES ASSUME ~hurried PROVE Patient'
  BY <1>0, StillPatient
<1>2. pc' = "map" => ~TypeUnderway
  BY StillPatient
<1>3. ASSUME NEW c \in Switches, NEW on \in BOOLEAN, Switch(c, on) PROVE Patient'
  <2>1. UNCHANGED <<type, pc, goal, search>> /\ pc = "idle"
    BY <1>3 DEF Switch, SelectLock, SelectFragLimit, SelectWaves, Command, botVars, mapVars
  <2>2. keys' = keys \/ keys' = Append(keys, Typed("waves", "n"))
    BY <1>3 DEF Switch, SelectLock, SelectFragLimit, SelectWaves
  <2>3. CASE keys' = keys
    BY <1>1, <2>1, <2>3, PatientStill
  <2>4. CASE keys' = Append(keys, Typed("waves", "n"))
    <3>1. Typed("waves", "n").what # "map"
      BY DEF Typed
    <3> QED BY <1>1, <2>1, <2>4, <3>1, TypedIsKey, PatientTyping
  <2> QED BY <2>2, <2>3, <2>4
<1>4. ASSUME NEW t \in Types, SelectGameType(t) PROVE Patient'
  <2>1. pc = "idle" /\ pc' = "idle" /\ UNCHANGED type /\ keys' = Append(keys, Typed("type", t))
    BY <1>4 DEF SelectGameType, Command, botVars, mapVars
  <2>2. Typed("type", t).what # "map"
    BY DEF Typed
  <2> QED BY <1>1, <2>1, <2>2, TypedIsKey, PatientTyping
<1>5. ASSUME NEW s, SelectMap(s), UNCHANGED <<type, keys>> PROVE Patient'
  <2>1. CASE Rest
    BY <1>1, <1>5, <2>1, PatientStill DEF Rest
  <2>2. CASE Walk("select", s) /\ ~(s \in Tangles /\ type = TeamBattle)
    <3>1. pc' = "map"
      BY <2>2 DEF Walk
    <3> QED BY <1>1, <1>2, <1>5, <2>2, <3>1, PatientWalk
  <2> QED BY <1>5, <2>1, <2>2 DEF SelectMap
<1>6. ASSUME NEW g \in {"pick", "list"}, NEW s, Walk(g, s), UNCHANGED <<type, keys>> PROVE Patient'
  <2>1. pc' = "map" /\ g # "select"
    BY <1>6 DEF Walk
  <2> QED BY <1>1, <1>2, <1>6, <2>1, PatientWalk
<1>7. CASE \/ \E s \in Searches : MapCommand(s)
           \/ \E s \in Searches \cup {None} : ListMaps(s)
           \/ RandomMap \/ Picks
  BY <1>5, <1>6, <1>7 DEF MapCommand, ListMaps, RandomMap, Picks, mapVars
<1>8. CASE LookMap \/ LookList
  BY <1>1, <1>8, PatientStill DEF LookMap, LookList, mapVars
<1>9. CASE Lists \/ Strips
  BY <1>1, <1>9, PatientStill DEF Lists, Strips, Rest, mapVars
<1>10. CASE TypesMap
  <2>1. CASE keys' = keys
    BY <1>1, <1>10, <2>1, PatientStill DEF TypesMap, Rest, mapVars
  <2> QED BY <1>1, <1>10, <2>1, PatientTypesMap
<1>11. ASSUME NEW c \in Switches, TakeClick(c) PROVE Patient'
  BY <1>1, <1>11, PatientStill DEF TakeClick, botVars, mapVars
<1>12. CASE TakeType \/ TakeMap \/ TakeWaves
  BY <1>1, <1>12, PatientTakes
<1> QED BY <1>3, <1>4, <1>7, <1>8, <1>9, <1>10, <1>11, <1>12
        DEF MCNext, MapsOrType, Bot, Server

----------------------------------------------------------------------------
\* The cache.

\* A walk of one who waited files the list of a type that has the map shown.
LEMMA FilingSteps ==
  ASSUME TypeOK, Filing, MCNext PROVE Filing'
<1>1. mixed \subseteq mixed'
  BY DEF MCNext
<1>2. SUFFICES ASSUME pc' = "list", key' \in Maps \ mixed', cache'[key'] = {}
               PROVE  key' \in Offers'[type'] /\ ~TypeUnderway'
  BY DEF Filing
<1>3. CASE LookMap
  <2>1. /\ pc = "map" /\ key' = map /\ UNCHANGED <<type, keys>> /\ cache[map] = {}
        /\ map \in Offers[type]
    BY <1>2, <1>3 DEF LookMap, mapVars, TypeOK
  <2>2. ~TypeUnderway
    BY <1>2, <2>1 DEF MCNext, Files
  <2> QED BY <2>1, <2>2 DEF TypeUnderway
<1>4. CASE Server
  <2>1. pc = "list" /\ key' = key /\ cache' = cache
    BY <1>2, <1>4 DEF Server, TakeClick, TakeType, TakeMap, TakeWaves, botVars
  <2>2. key \in Offers[type] /\ ~TypeUnderway
    BY <1>1, <1>2, <2>1 DEF Filing
  <2>3. CASE keys' = keys
    <3>1. ~TakeType /\ ~TakeMap /\ ~TakeWaves
      <4>1. CASE keys = <<>>
        BY <4>1 DEF TakeType, TakeMap, TakeWaves, Takes
      <4>2. CASE keys # <<>>
        <5>1. Tail(keys) # keys
          BY <4>2, HeadTailProperties DEF TypeOK
        <5> QED BY <2>3, <5>1 DEF TakeType, TakeMap, TakeWaves, Takes
      <4> QED BY <4>1, <4>2
    <3>2. type' = type
      BY <1>4, <3>1 DEF Server, TakeClick, mapVars
    <3> QED BY <2>1, <2>2, <2>3, <3>2 DEF TypeUnderway
  <2>4. CASE keys' # keys
    <3>1. keys # <<>> /\ keys' = Tail(keys)
      BY <1>4, <2>4 DEF Server, TakeClick, TakeType, TakeMap, TakeWaves, Takes
    <3>2. /\ \A i \in DOMAIN keys' : i + 1 \in DOMAIN keys /\ keys'[i] = keys[i + 1]
          /\ 1 \in DOMAIN keys /\ keys[1] = Head(keys)
      BY <3>1, KeysTaken DEF TypeOK
    <3>3. ~TakeType
      BY <2>2, <3>2 DEF TakeType, Takes, TypeUnderway
    <3>4. type' = type
      BY <1>4, <3>3 DEF Server, TakeClick, TakeMap, TakeWaves, mapVars
    <3> QED BY <2>1, <2>2, <3>2, <3>4 DEF TypeUnderway
  <2> QED BY <2>3, <2>4
<1>5. CASE ~LookMap /\ ~Server
  BY <1>2, <1>5 DEF MCNext, MapsOrType, Switch, SelectLock, SelectFragLimit, SelectWaves,
     SelectGameType, MapCommand, ListMaps, RandomMap, SelectMap, Walk, Rest, Command,
     Bot, LookList, TypesMap, Lists, Strips, Picks, botVars
<1> QED BY <1>3, <1>4, <1>5

\* So what is filed stays the list of one type.
LEMMA CacheSteps ==
  ASSUME TypeOK, Filing, CacheFits, MCNext PROVE CacheFits'
<1>1. mixed \subseteq mixed'
  BY DEF MCNext
<1>2. CASE LookList /\ cache[key] = {}
  <2>1. SUFFICES ASSUME NEW m \in Maps \ mixed', cache'[m] # {}
                 PROVE  \E t \in Types : m \in Offers[t] /\ cache'[m] = Offers[t]
    BY DEF CacheFits
  <2>2. CASE m = key
    <3>1. m \in Offers[type]
      BY <1>1, <1>2, <2>1, <2>2 DEF LookList, Filing
    <3>2. cache'[m] = Offers[type]
      BY <1>2, <2>2 DEF LookList, TypeOK
    <3> QED BY <3>1, <3>2 DEF TypeOK
  <2>3. CASE m # key
    <3>1. cache'[m] = cache[m]
      BY <1>2, <2>3 DEF LookList, TypeOK
    <3> QED BY <1>1, <2>1, <3>1 DEF CacheFits
  <2> QED BY <2>2, <2>3
<1>3. CASE ~(LookList /\ cache[key] = {})
  <2>1. cache' = cache
    BY <1>3 DEF MCNext, MapsOrType, Switch, SelectLock, SelectFragLimit, SelectWaves,
       SelectGameType, MapCommand, ListMaps, RandomMap, SelectMap, Walk, Rest,
       Bot, LookMap, LookList, TypesMap, Lists, Strips, Picks,
       Server, TakeClick, TakeType, TakeMap, TakeWaves, botVars
  <2> QED BY <1>1, <2>1 DEF CacheFits
<1> QED BY <1>2, <1>3

----------------------------------------------------------------------------
IInv == TypeOK /\ SInv /\ MInv

\* The invariant holds at first.
LEMMA Initial == MCInit => IInv
<1> SUFFICES ASSUME MCInit PROVE IInv
  OBVIOUS
<1>1. TypeOK
  BY InitTyped DEF MCInit
<1>2. SInv
  BY DEF MCInit, Init, SInv, HistoryTypeOK, OneClick, Edits, Switches, Limits
<1>3. MInv
  BY DEF MCInit, Init, MInv, Patient, Filing, CacheFits, TypeUnderway
<1> QED BY <1>1, <1>2, <1>3 DEF IInv

\* Every step keeps all of it.
LEMMA Inductive == IInv /\ [MCNext]_<<vars, history>> => IInv'
<1> SUFFICES ASSUME IInv, [MCNext]_<<vars, history>> PROVE IInv'
  OBVIOUS
<1>1. TypeOK'
  <2>1. [Next]_vars
    BY DEF MCNext, Next
  <2> QED BY <2>1, Typing DEF IInv
<1>2. SInv'
  BY SwitchesInductive DEF IInv
<1>3. CASE MCNext
  <2>1. Patient'
    <3>1. CASE hurried'
      BY <3>1 DEF Patient
    <3>2. CASE ~hurried'
      BY <1>3, <3>2, PatientSteps DEF IInv, MInv
    <3> QED BY <3>1, <3>2
  <2> QED BY <1>1, <1>2, <1>3, <2>1, FilingSteps, CacheSteps DEF IInv, MInv
<1>4. CASE UNCHANGED <<vars, history>>
  <2>1. MInv'
    BY <1>4 DEF vars, history, botVars, mapVars, IInv, MInv, Patient, Filing, CacheFits,
                TypeUnderway
  <2> QED BY <1>1, <1>2, <2>1 DEF IInv
<1> QED BY <1>3, <1>4

\* It holds however commands, walks and what the server takes follow each other.
THEOREM Invariance == MCSpec => []IInv
BY Initial, Inductive, PTL DEF MCSpec

\* SwitchesFollow, however far the server is behind.
THEOREM SwitchesFollowCommands == MCSpec => []SwitchesFollow
<1>1. IInv => SwitchesFollow
  <2> SUFFICES ASSUME IInv, NEW c \in Switches, ~overtaken[c]
               PROVE  asked[c] <=> (checked[c] <=> clicks[c] % 2 = 0)
    BY DEF SwitchesFollow
  <2>1. /\ clicks[c] \in {0, 1} /\ asked[c] \in BOOLEAN /\ checked[c] \in BOOLEAN
        /\ clicks[c] = 0 => checked[c] = asked[c]
        /\ clicks[c] = 1 => checked[c] = ~asked[c]
    BY DEF IInv, SInv, OneClick, HistoryTypeOK, TypeOK
  <2>2. 0 % 2 = 0 /\ 1 % 2 = 1
    OBVIOUS
  <2>3. CASE clicks[c] = 0
    BY <2>1, <2>2, <2>3
  <2>4. CASE clicks[c] = 1
    BY <2>1, <2>2, <2>4
  <2> QED BY <2>1, <2>3, <2>4
<1> QED BY <1>1, Invariance, PTL

\* LimitsFollow: what is enabled at once and what is clicked agree in the end.
THEOREM LimitsFollowSwitches == MCSpec => []LimitsFollow
<1>1. IInv => LimitsFollow
  BY DEF IInv, SInv, OneClick, Edits, LimitsFollow, Limits, Switches
<1> QED BY <1>1, Invariance, PTL

\* CacheFits, for any types, maps and texts they share.
THEOREM CacheIsOfOneType == MCSpec => []CacheFits
<1>1. IInv => CacheFits
  BY DEF IInv, MInv
<1> QED BY <1>1, Invariance, PTL

\* TangleStaysOut, for any types, offers and searches: Tangle's own name was not typed
\* by one who waited, and the name of another map leads to that map.
THEOREM NoTangleInTeamBattle == MCSpec => TangleStaysOut
<1>1. IInv /\ [MCNext]_<<vars, history>> =>
        [TakeMap /\ type = TeamBattle /\ map' \in Tangles
           => hurried \/ Head(keys).value \notin Offers[type]]_<<vars, history>>
  <2> SUFFICES ASSUME IInv, TakeMap, type = TeamBattle, map' \in Tangles, ~hurried,
                      Head(keys).value \in Offers[type]
               PROVE  FALSE
    OBVIOUS
  <2>1. 1 \in DOMAIN keys /\ keys[1] = Head(keys) /\ Head(keys).what = "map"
    BY KeysTaken DEF IInv, TypeOK, TakeMap, Takes
  <2>2. Head(keys).value \notin Tangles
    BY <2>1 DEF IInv, MInv, Patient
  <2>3. Head(keys).value \in Maps \ Tangles
    BY <2>2, LobbyAssumption DEF IInv, TypeOK
  <2>4. Begins[Head(keys).value] \cap Offers[type] # {}
    BY <2>3, LobbyAssumption
  <2>5. map' \in Begins[Head(keys).value]
    BY <2>4 DEF TakeMap
  <2> QED BY <2>3, <2>5, LobbyAssumption
<1> QED BY <1>1, Invariance, PTL DEF MCSpec, TangleStaysOut
=============================================================================
