--------------------------- MODULE CommandProofs ---------------------------
(***************************************************************************)
(* Theorems about Commands, for every set of requests, devices, zones and  *)
(* tokens, and any number of failing Writes.                               *)
(***************************************************************************)
EXTENDS Commands, SequenceTheorems, TLAPS

(***************************************************************************)
(* What is on the link: the Writes in down, the tokens in up.              *)
(***************************************************************************)

Elements(s) == {s[i] : i \in 1..Len(s)}

Tokens(s) == {s[i].token : i \in 1..Len(s)}

LEMMA AppendElements ==
  ASSUME NEW S, NEW s \in Seq(S), NEW e \in S
  PROVE  /\ Append(s, e) \in Seq(S)
         /\ Elements(Append(s, e)) = Elements(s) \cup {e}
<1>1. /\ Append(s, e) \in Seq(S)
      /\ Len(Append(s, e)) = Len(s) + 1
      /\ \A i \in 1..Len(s) : Append(s, e)[i] = s[i]
      /\ Append(s, e)[Len(s) + 1] = e
      /\ Len(s) \in Nat
  BY AppendProperties
<1>2. 1..(Len(s) + 1) = 1..Len(s) \cup {Len(s) + 1}
  BY <1>1
<1>3. QED
  BY <1>1, <1>2, Zenon DEF Elements

LEMMA AppendTokens ==
  ASSUME NEW s \in Seq(Ack), NEW a \in Ack
  PROVE  Tokens(Append(s, a)) = Tokens(s) \cup {a.token}
<1>1. /\ Len(Append(s, a)) = Len(s) + 1
      /\ \A i \in 1..Len(s) : Append(s, a)[i] = s[i]
      /\ Append(s, a)[Len(s) + 1] = a
      /\ Len(s) \in Nat
  BY AppendProperties
<1>2. 1..(Len(s) + 1) = 1..Len(s) \cup {Len(s) + 1}
  BY <1>1
<1>3. QED
  BY <1>1, <1>2, Zenon DEF Tokens

\* Drop leaves a stream of Writes, none of them new.
LEMMA DropElements ==
  ASSUME NEW S, NEW s \in Seq(S), NEW n \in Nat
  PROVE  /\ SubSeq(s, n + 1, Len(s)) \in Seq(S)
         /\ Elements(SubSeq(s, n + 1, Len(s))) \subseteq Elements(s)
<1> DEFINE t == SubSeq(s, n + 1, Len(s))
<1>1. /\ Len(s) \in Nat
      /\ \A i \in (n + 1)..Len(s) : s[i] \in S
  BY LenProperties
<1>2. /\ t \in Seq(S)
      /\ Len(t) = IF n + 1 <= Len(s) THEN Len(s) - (n + 1) + 1 ELSE 0
      /\ \A i \in 1..(Len(s) - (n + 1) + 1) : t[i] = s[(n + 1) + i - 1]
  BY <1>1, SubSeqProperties
<1>3. ASSUME NEW i \in 1..Len(t)
      PROVE  t[i] \in Elements(s)
  <2>1. /\ i \in 1..(Len(s) - (n + 1) + 1)
        /\ (n + 1) + i - 1 \in 1..Len(s)
    BY <1>1, <1>2, <1>3
  <2>2. QED
    BY <1>2, <2>1 DEF Elements
<1> HIDE DEF t
<1>4. QED
  BY <1>2, <1>3 DEF Elements, t

\* An acknowledgement handled leaves no new token behind.
LEMMA HandledTokens ==
  ASSUME NEW s \in Seq(Ack), s # <<>>, NEW d
  PROVE  /\ Tail(s) \in Seq(Ack) /\ Tokens(Tail(s)) \subseteq Tokens(s)
         /\ [s EXCEPT ![1].from = @ \ {d}] \in Seq(Ack)
         /\ Tokens([s EXCEPT ![1].from = @ \ {d}]) = Tokens(s)
         /\ Tokens(s) \subseteq Tokens(Tail(s)) \cup {Head(s).token}
         /\ Head(s) \in Ack /\ Head(s).token \in Tokens(s)
<1>1. Len(s) \in Nat /\ 1 \in 1..Len(s) /\ s[1] \in Ack /\ Head(s) = s[1]
  BY EmptySeq, LenProperties, HeadTailProperties
<1>2. Head(s) \in Ack /\ Head(s).token \in Tokens(s)
  BY <1>1 DEF Tokens
<1>3. Tail(s) \in Seq(Ack) /\ Tokens(Tail(s)) \subseteq Tokens(s)
  <2>1. /\ Tail(s) \in Seq(Ack)
        /\ Len(Tail(s)) = Len(s) - 1
        /\ \A i \in 1..Len(Tail(s)) : Tail(s)[i] = s[i + 1]
    BY HeadTailProperties
  <2>2. ASSUME NEW i \in 1..Len(Tail(s))
        PROVE  Tail(s)[i].token \in Tokens(s)
    <3>1. i + 1 \in 1..Len(s)
      BY <1>1, <2>1, <2>2
    <3>2. QED
      BY <2>1, <3>1 DEF Tokens
  <2>3. QED
    BY <2>1, <2>2 DEF Tokens
<1> DEFINE a == [s[1] EXCEPT !.from = @ \ {d}]
<1>4. a \in Ack /\ a.token = s[1].token
  BY <1>1 DEF Ack
<1>5. [s EXCEPT ![1].from = @ \ {d}] = [s EXCEPT ![1] = a]
  OBVIOUS
<1> HIDE DEF a
<1>6. /\ [s EXCEPT ![1] = a] \in Seq(Ack)
      /\ Len([s EXCEPT ![1] = a]) = Len(s)
      /\ \A j \in 1..Len(s) : [s EXCEPT ![1] = a][j] = IF j = 1 THEN a ELSE s[j]
  BY <1>1, <1>4, ExceptSeq
<1>7. Tokens([s EXCEPT ![1] = a]) = Tokens(s)
  BY <1>1, <1>4, <1>6 DEF Tokens
<1>8. Tokens(s) \subseteq Tokens(Tail(s)) \cup {Head(s).token}
  <2>1. /\ Len(Tail(s)) = Len(s) - 1
        /\ \A i \in 1..Len(Tail(s)) : Tail(s)[i] = s[i + 1]
    BY HeadTailProperties
  <2>2. ASSUME NEW i \in 1..Len(s), i # 1
        PROVE  s[i].token \in Tokens(Tail(s))
    <3>1. i - 1 \in 1..Len(Tail(s)) /\ s[i] = Tail(s)[i - 1]
      BY <1>1, <2>1, <2>2
    <3>2. QED
      BY <3>1 DEF Tokens
  <2>3. QED
    BY <1>1, <2>2 DEF Tokens
<1>9. QED
  BY <1>2, <1>3, <1>5, <1>6, <1>7, <1>8

(***************************************************************************)
(* Type correctness.                                                       *)
(***************************************************************************)

LEMMA BodyIsBody ==
  ASSUME NEW w \in Header \cup Body, HasBody(w)
  PROVE  w \in Body
BY DEF Header, Body, HasBody

LEMMA BodyAt ==
  ASSUME TypeOK, NEW i \in 1..Len(down), HasBody(down[i])
  PROVE  down[i] \in Body /\ down[i] \in Elements(down)
<1>1. down[i] \in Header \cup Body
  BY LenProperties DEF TypeOK
<1>2. QED
  BY <1>1, BodyIsBody DEF Elements

LEMMA DropType ==
  ASSUME TypeOK, NEW n \in Nat, Drop(n)
  PROVE  /\ down' \in Seq(Header \cup Body)
         /\ Elements(down') \subseteq Elements(down)
BY DropElements DEF TypeOK, Drop

LEMMA SentType ==
  ASSUME TypeOK, NEW w \in Header \cup Body, down' = Append(down, w)
  PROVE  /\ down' \in Seq(Header \cup Body)
         /\ Elements(down') = Elements(down) \cup {w}
<1>1. PICK S : S = Header \cup Body
  OBVIOUS
<1>2. down \in Seq(S) /\ w \in S
  BY <1>1 DEF TypeOK
<1>3. QED
  BY <1>1, <1>2, AppendElements

LEMMA BodyOfType ==
  ASSUME TypeOK, NEW c \in Call, NEW d \in Device, NEW whole \in BOOLEAN
  PROVE  /\ BodyOf(c, d, whole) \in Body
         /\ BodyOf(c, d, whole).call = c /\ BodyOf(c, d, whole).token = token[c]
BY CommandsAssumption DEF BodyOf, Body, TypeOK

\* A Write that fails leaves a stub of the header, a scrap of the body, or nothing.
LEMMA LeftType ==
  ASSUME TypeOK, NEW c \in Call, NEW d \in Device, LeftBehind(c, d)
  PROVE  /\ down' \in Seq(Header \cup Body)
         /\ Elements(down') \subseteq
              Elements(down) \cup {[call |-> c, whole |-> FALSE], BodyOf(c, d, FALSE)}
<1> DEFINE stub == [call |-> c, whole |-> FALSE]
           scrap == BodyOf(c, d, FALSE)
<1>1. stub \in Header \cup Body /\ scrap \in Header \cup Body
  BY BodyOfType DEF Header
<1>2. CASE UNCHANGED down
  BY <1>2 DEF TypeOK
<1>3. CASE down' = Append(down, stub)
  <2>1. /\ down' \in Seq(Header \cup Body)
        /\ Elements(down') = Elements(down) \cup {stub}
    <3> HIDE DEF stub, scrap
    <3> QED BY <1>1, <1>3, SentType
  <2>2. QED
    BY <2>1
<1>4. CASE down' = Append(down, scrap)
  <2>1. /\ down' \in Seq(Header \cup Body)
        /\ Elements(down') = Elements(down) \cup {scrap}
    <3> HIDE DEF stub, scrap
    <3> QED BY <1>1, <1>4, SentType
  <2>2. QED
    BY <2>1
<1>5. QED
  BY <1>2, <1>3, <1>4 DEF LeftBehind

\* Acknowledging adds at most the one token, and that one unless a write fails.
LEMMA AcknowledgeType ==
  ASSUME TypeOK, NEW t \in Token, NEW from \in SUBSET Device, Acknowledge(t, from)
  PROVE  /\ up' \in Seq(Ack) /\ mute' \in BOOLEAN /\ (mute => mute')
         /\ \/ Tokens(up') = Tokens(up)
            \/ Tokens(up') = Tokens(up) \cup {t} /\ from # {}
         /\ from # {} /\ ~ mute' => t \in Tokens(up')
<1>1. up \in Seq(Ack) /\ mute \in BOOLEAN
  BY DEF TypeOK
<1>2. ASSUME NEW some \in SUBSET from
      PROVE  /\ Acks(t, some) \in Seq(Ack)
             /\ Tokens(Acks(t, some)) =
                  IF some = {} THEN Tokens(up) ELSE Tokens(up) \cup {t}
  <2> DEFINE a == [token |-> t, from |-> some]
  <2>1. a \in Ack /\ a.token = t
    BY DEF Ack
  <2>2. Append(up, a) \in Seq(Ack) /\ Tokens(Append(up, a)) = Tokens(up) \cup {t}
    <3> HIDE DEF a
    <3> QED BY <1>1, <2>1, AppendTokens, AppendProperties
  <2>3. QED
    BY <1>1, <2>2 DEF Acks
<1>3. CASE mute /\ UNCHANGED <<mute, up>>
  BY <1>1, <1>3
<1>4. CASE ~ mute /\ UNCHANGED mute /\ up' = Acks(t, from)
  BY <1>1, <1>2, <1>4
<1>5. CASE /\ ~ mute /\ mute' = TRUE
           /\ \E some \in SUBSET from \ {from} : up' = Acks(t, some)
  <2>1. PICK some \in SUBSET from : up' = Acks(t, some)
    BY <1>5
  <2>2. /\ up' \in Seq(Ack)
        /\ Tokens(up') = IF some = {} THEN Tokens(up) ELSE Tokens(up) \cup {t}
    BY <1>2, <2>1
  <2>3. QED
    BY <1>5, <2>2
<1>6. QED
  BY <1>3, <1>4, <1>5 DEF Acknowledge

LEMMA HandleFrameType ==
  ASSUME TypeOK, NEW b \in Body, NEW t \in Token, HandleFrame(b, t)
  PROVE  /\ up' \in Seq(Ack) /\ mute' \in BOOLEAN /\ (mute => mute')
         /\ heard' \subseteq Call
         /\ acted' \in [Call -> SUBSET Device]
         /\ acted' = IF t = b.token
                     THEN [acted EXCEPT ![b.call] = @ \cup Addressed(b.type)] ELSE acted
         /\ \/ Tokens(up') = Tokens(up)
            \/ Tokens(up') = Tokens(up) \cup {t} /\ Addressed(b.type) # {}
         /\ Addressed(b.type) # {} /\ ~ mute' => t \in Tokens(up')
<1>1. Addressed(b.type) \in SUBSET Device /\ b.call \in Call
  BY DEF Addressed, Body
<1>2. Acknowledge(t, Addressed(b.type))
  BY DEF HandleFrame
<1>3. /\ heard' \subseteq Call
      /\ acted' = IF t = b.token
                  THEN [acted EXCEPT ![b.call] = @ \cup Addressed(b.type)] ELSE acted
  BY <1>1 DEF HandleFrame, TypeOK
<1>4. acted' \in [Call -> SUBSET Device]
  BY <1>1, <1>3 DEF TypeOK
<1>5. QED
  BY <1>1, <1>2, <1>3, <1>4, AcknowledgeType

LEMMA InitType == Init => TypeOK
<1> SUFFICES ASSUME Init PROVE TypeOK
  OBVIOUS
<1>1. down \in Seq(Header \cup Body) /\ up \in Seq(Ack)
  BY DEF Init
<1>2. DOMAIN store \subseteq Call /\ store \in [DOMAIN store -> PendingCommand]
  BY DEF Init, EmptyMap
<1>3. /\ pc \in [Call -> {"idle", "writing", "accepted", "failed"}]
      /\ todo \in [Call -> SUBSET Device] /\ half \in [Call -> SUBSET Device]
      /\ token \in [Call -> Token] /\ failures \in 0..MaxFailures
      /\ acted \in [Call -> SUBSET Device] /\ announced \in [Call -> Nat]
  BY CommandsAssumption DEF Init
<1>4. /\ reader \in {"reading", "desync", "gone"} /\ taken \in Nat
      /\ mute \in BOOLEAN /\ offline \subseteq Device /\ heard \subseteq Call
  BY DEF Init
<1>5. QED
  BY <1>1, <1>2, <1>3, <1>4 DEF TypeOK

LEMMA PutCommand ==
  ASSUME DOMAIN store \subseteq Call, store \in [DOMAIN store -> PendingCommand],
         NEW c \in Call, NEW d \in Device, store' = Add(store, c, NewCommand(d))
  PROVE  /\ DOMAIN store' = DOMAIN store \cup {c}
         /\ store' \in [DOMAIN store' -> PendingCommand]
         /\ store'[c] = NewCommand(d)
         /\ \A o \in DOMAIN store : o # c => store'[o] = store[o]
BY DEF Add, Put, NewCommand, PendingCommand

LEMMA AckCommand ==
  ASSUME DOMAIN store \subseteq Call, store \in [DOMAIN store -> PendingCommand],
         NEW c \in DOMAIN store, store' = [store EXCEPT ![c].status = "acked"]
  PROVE  /\ DOMAIN store' = DOMAIN store
         /\ store' \in [DOMAIN store' -> PendingCommand]
         /\ store'[c].status = "acked"
         /\ \A o \in DOMAIN store : store'[o].node = store[o].node
         /\ \A o \in DOMAIN store : o # c => store'[o] = store[o]
BY DEF PendingCommand

LEMMA NextType == TypeOK /\ [Next]_vars => TypeOK'
<1> SUFFICES ASSUME TypeOK, [Next]_vars PROVE TypeOK'
  OBVIOUS
<1> USE CommandsAssumption
<1>1. ASSUME NEW c \in Call, NEW d \in Device, NodeCommand(c, d)
      PROVE  TypeOK'
  <2>1. DOMAIN store' \subseteq Call /\ store' \in [DOMAIN store' -> PendingCommand]
    <3>1. DOMAIN store \subseteq Call /\ store \in [DOMAIN store -> PendingCommand]
      BY DEF TypeOK
    <3>2. store' = Add(store, c, NewCommand(d))
      BY <1>1 DEF NodeCommand
    <3>3. QED
      BY <3>1, <3>2, PutCommand
  <2>2. QED
    BY <1>1, <2>1 DEF NodeCommand, TypeOK, simVars
<1>2. ASSUME NEW c \in Call, NEW z \in Zones, ZoneCommand(c, z)
      PROVE  TypeOK'
  BY <1>2 DEF ZoneCommand, TypeOK, simVars
<1>3. ASSUME NEW c \in Call, WriteHeader(c)
      PROVE  TypeOK'
  <2>1. [call |-> c, whole |-> TRUE] \in Header \cup Body
    BY DEF Header
  <2>2. down' \in Seq(Header \cup Body)
    BY <1>3, <2>1, SentType DEF WriteHeader
  <2>3. QED
    BY <1>3, <2>2 DEF WriteHeader, TypeOK, simVars
<1>4. ASSUME NEW c \in Call, WriteBody(c)
      PROVE  TypeOK'
  <2>1. PICK d \in half[c] :
          down' = Append(down, BodyOf(c, d, TRUE)) /\ NextFrame(c, d)
    BY <1>4 DEF WriteBody
  <2>2. BodyOf(c, d, TRUE) \in Header \cup Body
    BY BodyOfType DEF TypeOK
  <2>3. down' \in Seq(Header \cup Body)
    BY <2>1, <2>2, SentType
  <2>4. QED
    BY <1>4, <2>1, <2>3 DEF WriteBody, NextFrame, TypeOK, simVars
<1>5. ASSUME NEW c \in Call, WriteFails(c)
      PROVE  TypeOK'
  <2>1. PICK d \in todo[c] :
          /\ LeftBehind(c, d)
          /\ IF c \in DOMAIN store
               THEN /\ pc' = [pc EXCEPT ![c] = "failed"]
                    /\ todo' = [todo EXCEPT ![c] = {}]
               ELSE NextFrame(c, d)
    BY <1>5 DEF WriteFails
  <2>2. /\ pc' \in [Call -> {"idle", "writing", "accepted", "failed"}]
        /\ todo' \in [Call -> SUBSET Device]
    <3>1. CASE c \in DOMAIN store
      BY <2>1, <3>1 DEF TypeOK
    <3>2. CASE c \notin DOMAIN store
      <4>1. NextFrame(c, d)
        BY <2>1, <3>2
      <4>2. todo' \in [Call -> SUBSET Device]
        BY <4>1 DEF NextFrame, TypeOK
      <4>3. pc' \in [Call -> {"idle", "writing", "accepted", "failed"}]
        BY <4>1 DEF NextFrame, TypeOK
      <4>4. QED
        BY <4>2, <4>3
    <3>3. QED
      BY <3>1, <3>2
  <2>3. failures' \in 0..MaxFailures /\ half' \in [Call -> SUBSET Device]
    BY <1>5 DEF WriteFails, TypeOK
  <2>4. down' \in Seq(Header \cup Body)
    BY <2>1, LeftType DEF TypeOK
  <2>5. QED
    BY <1>5, <2>2, <2>3, <2>4 DEF WriteFails, TypeOK, simVars
<1>6. ASSUME NEW b \in Body, NEW t \in Token, HandleFrame(b, t), NEW n \in Nat, Drop(n),
             UNCHANGED <<hubVars, taken, offline, announced>>,
             reader' \in {"reading", "desync", "gone"}
      PROVE  TypeOK'
  <2>1. down' \in Seq(Header \cup Body)
    BY <1>6, DropType
  <2>2. /\ up' \in Seq(Ack) /\ mute' \in BOOLEAN
        /\ heard' \subseteq Call /\ acted' \in [Call -> SUBSET Device]
    BY <1>6, HandleFrameType
  <2>3. QED
    BY <1>6, <2>1, <2>2 DEF TypeOK, hubVars
<1>7. CASE ReadFrame \/ ReadTorn
  <2>1. PICK i \in {2, 3} :
          /\ Len(down) >= i /\ IsBody(down[i]) /\ HandleFrame(down[i], down[i].token)
          /\ Drop(i)
    BY <1>7 DEF ReadFrame, ReadTorn, Torn
  <2>2. i \in 1..Len(down) /\ HasBody(down[i])
    BY <2>1, LenProperties DEF TypeOK, IsBody
  <2>3. down[i] \in Body
    BY <2>2, BodyAt
  <2>4. down[i].token \in Token
    BY <2>3 DEF Body
  <2>5. /\ UNCHANGED <<hubVars, taken, offline, announced>>
        /\ reader' \in {"reading", "desync", "gone"}
    BY <1>7 DEF ReadFrame, ReadTorn
  <2>6. QED
    BY <1>6, <2>1, <2>3, <2>4, <2>5
<1>8. CASE ReadBroken
  <2>1. PICK n \in 4..Len(down) : Drop(n)
    BY <1>8 DEF ReadBroken
  <2>2. n \in Nat
    BY LenProperties DEF TypeOK
  <2>3. QED
    BY <1>8, <2>1, <2>2, DropType DEF ReadBroken, GiveUp, TypeOK, hubVars
<1>9. ASSUME Drop(1), GiveUp \/ UNCHANGED <<reader, mute>>, taken' \in Nat,
             UNCHANGED <<hubVars, offline, heard, acted, up, announced>>
      PROVE  TypeOK'
  <2>1. down' \in Seq(Header \cup Body)
    BY <1>9, DropType
  <2>2. mute' \in BOOLEAN /\ reader' \in {"reading", "desync", "gone"}
    BY <1>9 DEF GiveUp, TypeOK
  <2>3. QED
    BY <1>9, <2>1, <2>2 DEF TypeOK, hubVars
<1>10. CASE ReadScrap \/ Mute
  BY <1>10 DEF ReadScrap, Mute, TypeOK, hubVars
<1>11. CASE ReadJunk
  <2>1. taken' \in Nat
    BY <1>11 DEF ReadJunk, TypeOK
  <2>2. QED
    BY <1>9, <1>11, <2>1 DEF ReadJunk, ReadOn
<1>12. CASE ReadAstray
  <2>1. CASE \E giveUp \in BOOLEAN : ReadOn(giveUp)
    BY <1>9, <1>12, <2>1 DEF ReadAstray, ReadOn, TypeOK
  <2>2. ASSUME reader = "desync", down # <<>>, HasBody(down[1]),
               NEW t \in {down[1].token} \cup TornToken, HandleFrame(down[1], t),
               Drop(1), UNCHANGED <<hubVars, reader, offline, announced>>
        PROVE  TypeOK'
    <3>1. 1 \in 1..Len(down)
      BY <2>2, EmptySeq, LenProperties DEF TypeOK
    <3>2. down[1] \in Body
      BY <2>2, <3>1, BodyAt
    <3>3. t \in Token
      BY <3>2 DEF Body
    <3>4. QED
      BY <1>6, <1>12, <2>2, <3>2, <3>3 DEF ReadAstray
  <2>3. QED
    BY <1>12, <2>1, <2>2 DEF ReadAstray
<1>13. CASE HandleCommandAck
  <2>1. up' \in Seq(Ack)
    <3>1. up \in Seq(Ack) /\ up # <<>>
      BY <1>13 DEF HandleCommandAck, TypeOK
    <3>2. PICK d : up' = IF Head(up).from = {d} THEN Tail(up)
                         ELSE [up EXCEPT ![1].from = @ \ {d}]
      BY <1>13 DEF HandleCommandAck
    <3>3. QED
      BY <3>1, <3>2, HandledTokens
  <2>2. CASE UNCHANGED <<store, announced>>
    BY <1>13, <2>1, <2>2 DEF HandleCommandAck, TypeOK, simVars
  <2>3. ASSUME NEW c \in Acknowledged(Head(up).token),
               store' = [store EXCEPT ![c].status = "acked"],
               announced' = [announced EXCEPT ![c] = @ + 1]
        PROVE  TypeOK'
    <3>1. c \in DOMAIN store
      BY <2>3 DEF Acknowledged
    <3>2. DOMAIN store' \subseteq Call /\ store' \in [DOMAIN store' -> PendingCommand]
      BY <2>3, <3>1, AckCommand DEF TypeOK
    <3>3. announced' \in [Call -> Nat]
      BY <2>3, <3>1 DEF TypeOK
    <3>4. QED
      BY <1>13, <2>1, <3>2, <3>3 DEF HandleCommandAck, TypeOK, simVars
  <2>4. QED
    BY <1>13, <2>2, <2>3 DEF HandleCommandAck
<1>14. ASSUME NEW d \in Device, NEW off \in BOOLEAN, SetOffline(d, off)
       PROVE  TypeOK'
  BY <1>14 DEF SetOffline, TypeOK, hubVars
<1>15. CASE UNCHANGED vars
  BY <1>15 DEF vars, hubVars, simVars, TypeOK
<1>16. QED
  BY <1>1, <1>2, <1>3, <1>4, <1>5, <1>7, <1>8, <1>10, <1>11, <1>12, <1>13, <1>14, <1>15
     DEF Next, Handler, Write, ReadLoop

\* Every variable keeps its type: the records stay records of known devices, the
\* link carries headers and bodies only, whatever fails and however it is torn.
THEOREM TypeCorrect == Spec => []TypeOK
BY InitType, NextType, PTL DEF Spec

(***************************************************************************)
(* The inductive invariant.  A body on the link, whole or not, carries its  *)
(* own request's token; an acknowledgement on its way carries the token of  *)
(* a request that some device has carried out, or a pieced-together one;    *)
(* and a command carried out is acked, on its way to be, or cut off.        *)
(***************************************************************************)

CallInv ==
  \A c \in Call :
    /\ half[c] \subseteq todo[c]
    /\ pc[c] # "writing" => todo[c] = {}
    /\ pc[c] = "idle" => c \notin DOMAIN store /\ acted[c] = {}
    /\ c \notin DOMAIN store => token[c] = ZeroToken

\* w's frame is on the link with the token of its request, which has started.
Sent(w) == Started(w.call) /\ w.token = token[w.call]

FrameInv == \A w \in Elements(down) : HasBody(w) => Sent(w)

\* Some request with this token has been carried out.
CarriedOut(t) == \E c \in Call : Started(c) /\ token[c] = t /\ acted[c] # {}

AckInv == \A t \in Tokens(up) : t \in TornToken \/ CarriedOut(t)

\* CarriedOutIsOwed, of the set of tokens on their way.
OwedInv ==
  \A c \in DOMAIN store : acted[c] # {} /\ ~ mute /\ Unambiguous(c) =>
    Acked(c) \/ token[c] \in Tokens(up)

IInv ==
  /\ TypeOK
  /\ CallInv
  /\ FrameInv
  /\ AckInv
  /\ OwedInv
  /\ AckMeansActed
  /\ AnnouncedOnce

\* What no step takes back.
Monotone ==
  /\ mute => mute'
  /\ \A c \in Call :
       /\ acted[c] \subseteq acted'[c]
       /\ Started(c) => /\ Started(c)' /\ token'[c] = token[c]
                        /\ c \in DOMAIN store' => c \in DOMAIN store
       /\ Acked(c) => Acked(c)'

LEMMA FrameIn ==
  ASSUME TypeOK, NEW w \in Elements(down)
  PROVE  w \in Header \cup Body /\ w.call \in Call
<1>1. w \in Header \cup Body
  BY LenProperties DEF TypeOK, Elements
<1>2. QED
  BY <1>1 DEF Header, Body

LEMMA KeepFrames ==
  ASSUME TypeOK, FrameInv, Monotone, Elements(down') \subseteq Elements(down)
  PROVE  FrameInv'
<1> SUFFICES ASSUME NEW w \in Elements(down'), HasBody(w) PROVE Sent(w)'
  BY DEF FrameInv
<1>1. w.call \in Call /\ Sent(w)
  BY FrameIn DEF FrameInv
<1>2. QED
  BY <1>1 DEF Sent, Monotone

LEMMA KeepAcks ==
  ASSUME AckInv, Monotone, Tokens(up') \subseteq Tokens(up)
  PROVE  AckInv'
<1> SUFFICES ASSUME NEW t \in Tokens(up'), t \notin TornToken PROVE CarriedOut(t)'
  BY DEF AckInv
<1>1. PICK c \in Call : Started(c) /\ token[c] = t /\ acted[c] # {}
  BY DEF AckInv, CarriedOut
<1>2. Started(c)' /\ token'[c] = t /\ acted'[c] # {}
  BY <1>1 DEF Monotone
<1>3. QED
  BY <1>2 DEF CarriedOut

\* No request is less ambiguous than it was.
LEMMA StillUnambiguous ==
  ASSUME Monotone, NEW c \in Call, Started(c), Unambiguous(c)'
  PROVE  Unambiguous(c)
BY DEF Monotone, Unambiguous

LEMMA KeepMeaning ==
  ASSUME AckMeansActed, Monotone,
         \A c \in Call : Acked(c)' => Acked(c) /\ Started(c)
  PROVE  AckMeansActed'
<1> SUFFICES ASSUME NEW c \in Call, Acked(c)', Unambiguous(c)' PROVE acted'[c] # {}
  BY DEF AckMeansActed
<1>1. Acked(c) /\ Started(c)
  OBVIOUS
<1>2. Unambiguous(c)
  BY <1>1, StillUnambiguous
<1>3. acted[c] # {}
  BY <1>1, <1>2 DEF AckMeansActed
<1>4. QED
  BY <1>3 DEF Monotone

\* A step by which nothing is carried out and no acknowledgement taken.
LEMMA KeepOwed ==
  ASSUME TypeOK, TypeOK', CallInv, OwedInv, Monotone, UNCHANGED acted,
         Tokens(up) \subseteq Tokens(up')
  PROVE  OwedInv'
<1> SUFFICES ASSUME NEW c \in DOMAIN store', acted[c] # {}, ~ mute', Unambiguous(c)'
             PROVE  Acked(c)' \/ token'[c] \in Tokens(up')
  BY DEF OwedInv
<1>1. c \in Call
  BY DEF TypeOK
<1>2. Started(c)
  BY <1>1 DEF CallInv, Started
<1>3. Unambiguous(c)
  BY <1>1, <1>2, StillUnambiguous
<1>4. c \in DOMAIN store /\ token'[c] = token[c] /\ ~ mute
  BY <1>1, <1>2 DEF Monotone
<1>5. Acked(c) \/ token[c] \in Tokens(up)
  BY <1>3, <1>4 DEF OwedInv
<1>6. QED
  BY <1>1, <1>4, <1>5 DEF Monotone

LEMMA InitInv == Init => IInv
<1> SUFFICES ASSUME Init PROVE IInv
  OBVIOUS
<1>1. Elements(down) = {} /\ Tokens(up) = {}
  BY DEF Init, Elements, Tokens
<1>2. DOMAIN store = {}
  BY DEF Init, EmptyMap
<1>3. QED
  BY <1>1, <1>2, InitType
     DEF Init, IInv, CallInv, FrameInv, AckInv, OwedInv, AckMeansActed, AnnouncedOnce, Acked

\* A handler's step leaves the others' records, tokens and progress alone.
LEMMA HandlerMonotone ==
  ASSUME TypeOK, CallInv, NEW c \in Call, Handler(c)
  PROVE  Monotone
<1>1. ASSUME NEW d \in Device, NodeCommand(c, d)
      PROVE  Monotone
  <2>1. /\ DOMAIN store' = DOMAIN store \cup {c}
        /\ \A o \in DOMAIN store : o # c => store'[o] = store[o]
    <3>1. DOMAIN store \subseteq Call /\ store \in [DOMAIN store -> PendingCommand]
      BY DEF TypeOK
    <3>2. store' = Add(store, c, NewCommand(d))
      BY <1>1 DEF NodeCommand
    <3>3. QED
      BY <3>1, <3>2, PutCommand
  <2>2. c \notin DOMAIN store
    BY <1>1 DEF NodeCommand, CallInv
  <2>3. \A o \in Call : Acked(o) => Acked(o)'
    BY <2>1, <2>2 DEF Acked
  <2>4. QED
    BY <1>1, <2>1, <2>3 DEF NodeCommand, Monotone, Started, TypeOK, simVars
<1>2. ASSUME NEW z \in Zones, ZoneCommand(c, z)
      PROVE  Monotone
  BY <1>2 DEF ZoneCommand, Monotone, Started, Acked, TypeOK, simVars
<1>3. CASE WriteHeader(c)
  BY <1>3 DEF WriteHeader, Monotone, Started, Acked, simVars
<1>4. CASE WriteBody(c)
  <2>1. PICK d \in half[c] : NextFrame(c, d)
    BY <1>4 DEF WriteBody
  <2>2. pc[c] = "writing"
    BY <2>1 DEF CallInv, TypeOK
  <2>3. QED
    BY <1>4, <2>1, <2>2 DEF WriteBody, NextFrame, Monotone, Started, Acked, TypeOK, simVars
<1>5. CASE WriteFails(c)
  <2>1. PICK d \in todo[c] :
          IF c \in DOMAIN store
            THEN /\ pc' = [pc EXCEPT ![c] = "failed"]
                 /\ todo' = [todo EXCEPT ![c] = {}]
            ELSE NextFrame(c, d)
    BY <1>5 DEF WriteFails
  <2>2. pc[c] = "writing"
    BY <2>1 DEF CallInv, TypeOK
  <2>3. /\ pc'[c] # "idle"
        /\ \A o \in Call : o # c => pc'[o] = pc[o]
    BY <2>1, <2>2 DEF NextFrame, TypeOK
  <2>4. QED
    BY <1>5, <2>2, <2>3 DEF WriteFails, Monotone, Started, Acked, TypeOK, simVars
<1>6. QED
  BY <1>1, <1>2, <1>3, <1>4, <1>5 DEF Handler, Write

LEMMA AckMonotone ==
  ASSUME TypeOK, HandleCommandAck
  PROVE  Monotone /\ DOMAIN store' = DOMAIN store
<1>1. DOMAIN store' = DOMAIN store
  BY DEF HandleCommandAck
<1>2. \A c \in Call : Acked(c) => Acked(c)'
  <2>1. CASE UNCHANGED <<store, announced>>
    BY <2>1 DEF Acked
  <2>2. ASSUME NEW o \in Acknowledged(Head(up).token),
               store' = [store EXCEPT ![o].status = "acked"]
        PROVE  \A c \in Call : Acked(c) => Acked(c)'
    <3>1. o \in DOMAIN store
      BY <2>2 DEF Acknowledged
    <3>2. store \in [DOMAIN store -> PendingCommand] /\ DOMAIN store \subseteq Call
      BY DEF TypeOK
    <3>3. store'[o].status = "acked" /\ \A c \in DOMAIN store : c # o => store'[c] = store[c]
      BY <2>2, <3>1, <3>2, AckCommand
    <3>4. QED
      BY <1>1, <3>3 DEF Acked
  <2>3. QED
    BY <2>1, <2>2 DEF HandleCommandAck
<1>3. QED
  BY <1>1, <1>2 DEF HandleCommandAck, Monotone, Started, simVars

\* Reading a frame: what is left on the link is as it was, and the acknowledgement, if
\* somebody acted on it, carries the token that was read.
LEMMA ReadInv ==
  ASSUME IInv, TypeOK', NEW w \in Elements(down), HasBody(w),
         NEW t \in {w.token} \cup TornToken, HandleFrame(w, t),
         Elements(down') \subseteq Elements(down),
         UNCHANGED <<hubVars, announced>>
  PROVE  IInv'
<1>1. w \in Body /\ w.call \in Call /\ Sent(w)
  BY FrameIn, BodyIsBody DEF IInv, FrameInv
<1>2. t \in Token
  BY <1>1, CommandsAssumption DEF Body
<1>3. /\ acted' = IF t = w.token
                  THEN [acted EXCEPT ![w.call] = @ \cup Addressed(w.type)] ELSE acted
      /\ \/ Tokens(up') = Tokens(up)
         \/ Tokens(up') = Tokens(up) \cup {t} /\ Addressed(w.type) # {}
      /\ Addressed(w.type) # {} /\ ~ mute' => t \in Tokens(up')
      /\ mute => mute'
  BY <1>1, <1>2, HandleFrameType DEF IInv
<1>4. acted \in [Call -> SUBSET Device]
  BY DEF IInv, TypeOK
<1>5. /\ \A c \in Call : acted[c] \subseteq acted'[c]
      /\ \A c \in Call : acted'[c] # {} => acted[c] # {} \/ (c = w.call /\ t = w.token)
      /\ t = w.token /\ Addressed(w.type) # {} => acted'[w.call] # {}
  BY <1>1, <1>3, <1>4
<1>6. Monotone
  BY <1>3, <1>5 DEF Monotone, Started, Acked, hubVars
<1>7. CallInv'
  BY <1>1, <1>5 DEF IInv, CallInv, hubVars, Sent, Started
<1>8. FrameInv'
  BY <1>6, KeepFrames DEF IInv
<1>9. AckInv'
  <2>1. CASE Tokens(up') = Tokens(up)
    BY <1>6, <2>1, KeepAcks DEF IInv
  <2>2. CASE Tokens(up') = Tokens(up) \cup {t} /\ Addressed(w.type) # {}
    <3> SUFFICES ASSUME NEW x \in Tokens(up'), x \notin TornToken PROVE CarriedOut(x)'
      BY DEF AckInv
    <3>1. CASE x = t
      <4>1. x = w.token
        BY <3>1
      <4>2. Started(w.call)' /\ token'[w.call] = x
        BY <1>1, <4>1 DEF Sent, Started, hubVars
      <4>3. acted'[w.call] # {}
        BY <1>5, <2>2, <3>1, <4>1
      <4>4. QED
        BY <1>1, <4>2, <4>3 DEF CarriedOut
    <3>2. CASE x \in Tokens(up)
      <4>1. PICK c \in Call : Started(c) /\ token[c] = x /\ acted[c] # {}
        BY <3>2 DEF IInv, AckInv, CarriedOut
      <4>2. Started(c)' /\ token'[c] = x /\ acted'[c] # {}
        BY <1>6, <4>1 DEF Monotone
      <4>3. QED
        BY <4>2 DEF CarriedOut
    <3>3. QED
      BY <2>2, <3>1, <3>2
  <2>3. QED
    BY <1>3, <2>1, <2>2
<1>10. OwedInv'
  <2> SUFFICES ASSUME NEW c \in DOMAIN store, acted'[c] # {}, ~ mute', Unambiguous(c)'
               PROVE  Acked(c)' \/ token[c] \in Tokens(up')
    BY DEF OwedInv, hubVars
  <2>1. c \in Call /\ Started(c) /\ ~ mute
    BY <1>3 DEF IInv, TypeOK, CallInv, Started
  <2>2. Unambiguous(c)
    BY <1>6, <2>1, StillUnambiguous
  <2>3. CASE acted[c] # {}
    <3>1. Acked(c) \/ token[c] \in Tokens(up)
      BY <2>1, <2>2, <2>3 DEF IInv, OwedInv
    <3>2. Tokens(up) \subseteq Tokens(up')
      BY <1>3
    <3>3. QED
      BY <1>6, <2>1, <3>1, <3>2 DEF Monotone
  <2>4. CASE acted[c] = {}
    <3>1. c = w.call /\ t = w.token
      BY <1>5, <2>1, <2>4
    <3>2. Addressed(w.type) # {}
      BY <1>3, <1>4, <2>4, <3>1
    <3>3. t \in Tokens(up') /\ t = token[c]
      BY <1>1, <1>3, <3>1, <3>2 DEF Sent
    <3>4. QED
      BY <3>3
  <2>5. QED
    BY <2>3, <2>4
<1>11. AckMeansActed'
  <2>1. \A c \in Call : Acked(c)' => Acked(c) /\ Started(c)
    BY DEF Acked, IInv, CallInv, Started, hubVars
  <2>2. QED
    BY <1>6, <2>1, KeepMeaning DEF IInv
<1>12. AnnouncedOnce'
  BY DEF IInv, AnnouncedOnce, Acked, hubVars
<1>13. QED
  BY <1>7, <1>8, <1>9, <1>10, <1>11, <1>12 DEF IInv

LEMMA NodeCommandInv ==
  ASSUME IInv, TypeOK', NEW c \in Call, NEW d \in Device, NodeCommand(c, d), Monotone
  PROVE  IInv'
<1>1. /\ DOMAIN store \subseteq Call
      /\ DOMAIN store' = DOMAIN store \cup {c}
      /\ store'[c] = NewCommand(d)
      /\ \A o \in DOMAIN store : o # c => store'[o] = store[o]
  <2>1. DOMAIN store \subseteq Call /\ store \in [DOMAIN store -> PendingCommand]
    BY DEF IInv, TypeOK
  <2>2. store' = Add(store, c, NewCommand(d))
    BY DEF NodeCommand
  <2>3. QED
    BY <2>1, <2>2, PutCommand
<1>2. c \notin DOMAIN store /\ acted[c] = {} /\ half[c] = {}
  BY DEF IInv, CallInv, NodeCommand
<1>3. store'[c].node = d /\ store'[c].status = "pending"
  BY <1>1 DEF NewCommand
<1>4. CallInv'
  <2>1. /\ UNCHANGED <<half, acted>>
        /\ pc' = [pc EXCEPT ![c] = "writing"]
        /\ todo' = [todo EXCEPT ![c] = {d}]
        /\ \A o \in Call : o # c => token'[o] = token[o]
    BY DEF NodeCommand, simVars, IInv, TypeOK
  <2>2. QED
    BY <1>1, <1>2, <1>3, <2>1 DEF IInv, CallInv, TypeOK
<1>5. FrameInv'
  BY KeepFrames DEF IInv, NodeCommand
<1>6. AckInv'
  BY KeepAcks DEF IInv, NodeCommand
<1>7. \A o \in Call : Acked(o)' <=> Acked(o)
  BY <1>1, <1>2, <1>3 DEF Acked
<1>8. AckMeansActed'
  <2>1. \A o \in Call : Acked(o)' => Acked(o) /\ Started(o)
    BY <1>7 DEF IInv, CallInv, Acked, Started
  <2>2. QED
    BY <2>1, KeepMeaning DEF IInv
<1>9. AnnouncedOnce'
  BY <1>7 DEF IInv, AnnouncedOnce, NodeCommand
<1>10. OwedInv'
  BY KeepOwed DEF IInv, NodeCommand, simVars
<1>11. QED
  BY <1>4, <1>5, <1>6, <1>8, <1>9, <1>10 DEF IInv

\* The steps of a handler that leave the records alone.
LEMMA QuietHandler ==
  ASSUME IInv, TypeOK', CallInv', FrameInv', Monotone,
         UNCHANGED <<store, announced, up, acted>>
  PROVE  IInv'
<1>1. AckInv'
  BY KeepAcks DEF IInv
<1>2. AckMeansActed'
  <2>1. \A o \in Call : Acked(o)' => Acked(o) /\ Started(o)
    BY DEF IInv, CallInv, Acked, Started
  <2>2. QED
    BY <2>1, KeepMeaning DEF IInv
<1>3. AnnouncedOnce'
  BY DEF IInv, AnnouncedOnce, Acked
<1>4. OwedInv'
  BY KeepOwed DEF IInv
<1>5. QED
  BY <1>1, <1>2, <1>3, <1>4 DEF IInv

LEMMA ZoneCommandInv ==
  ASSUME IInv, TypeOK', NEW c \in Call, NEW z \in Zones, ZoneCommand(c, z), Monotone
  PROVE  IInv'
<1>1. CallInv'
  BY DEF ZoneCommand, IInv, TypeOK, CallInv, simVars
<1>2. FrameInv'
  BY KeepFrames DEF IInv, ZoneCommand
<1>3. QED
  BY <1>1, <1>2, QuietHandler DEF ZoneCommand, simVars

LEMMA WriteHeaderInv ==
  ASSUME IInv, TypeOK', NEW c \in Call, WriteHeader(c), Monotone
  PROVE  IInv'
<1>1. CallInv'
  BY DEF WriteHeader, IInv, TypeOK, CallInv, simVars
<1>2. FrameInv'
  <2> DEFINE h == [call |-> c, whole |-> TRUE]
  <2> SUFFICES ASSUME NEW w \in Elements(down'), HasBody(w) PROVE Sent(w)'
    BY DEF FrameInv
  <2>1. h \in Header \cup Body /\ ~ HasBody(h)
    BY DEF Header, HasBody
  <2>2. Elements(down') = Elements(down) \cup {h}
    <3>1. down' = Append(down, h)
      BY DEF WriteHeader
    <3> HIDE DEF h
    <3>2. QED
      BY <2>1, <3>1, SentType DEF IInv
  <2>3. w \in Elements(down)
    BY <2>1, <2>2
  <2>4. Sent(w) /\ w.call \in Call
    BY <2>3, FrameIn DEF IInv, FrameInv
  <2>5. QED
    BY <2>4 DEF Sent, Monotone
<1>3. QED
  BY <1>1, <1>2, QuietHandler DEF WriteHeader, simVars

LEMMA WriteBodyInv ==
  ASSUME IInv, TypeOK', NEW c \in Call, WriteBody(c), Monotone
  PROVE  IInv'
<1>1. PICK d \in half[c] : down' = Append(down, BodyOf(c, d, TRUE)) /\ NextFrame(c, d)
  BY DEF WriteBody
<1>2. pc[c] = "writing" /\ d \in todo[c] /\ d \in Device
  BY <1>1 DEF IInv, CallInv, TypeOK
<1>3. /\ todo' = [todo EXCEPT ![c] = @ \ {d}]
      /\ \A o \in Call \ {c} : pc'[o] = pc[o] /\ half'[o] = half[o]
      /\ pc'[c] \in {"accepted", "writing"}
      /\ pc'[c] # "writing" => todo'[c] = {}
      /\ half'[c] = {}
  BY <1>1, <1>2 DEF NextFrame, WriteBody, IInv, TypeOK
<1>4. CallInv'
  BY <1>2, <1>3 DEF WriteBody, IInv, TypeOK, CallInv, simVars
<1>5. FrameInv'
  <2> SUFFICES ASSUME NEW w \in Elements(down'), HasBody(w) PROVE Sent(w)'
    BY DEF FrameInv
  <2>1. PICK b \in Body : b = BodyOf(c, d, TRUE) /\ b.call = c /\ b.token = token[c]
    BY <1>2, BodyOfType DEF IInv
  <2>2. Elements(down') = Elements(down) \cup {b}
    BY <1>1, <2>1, SentType DEF IInv
  <2>3. CASE w = b
    BY <1>3, <2>1, <2>3 DEF Sent, Started, WriteBody
  <2>4. CASE w \in Elements(down)
    <3>1. w.call \in Call /\ Sent(w)
      BY <2>4, FrameIn DEF IInv, FrameInv
    <3>2. QED
      BY <3>1 DEF Sent, Monotone
  <2>5. QED
    BY <2>2, <2>3, <2>4
<1>6. QED
  BY <1>4, <1>5, QuietHandler DEF WriteBody, simVars

LEMMA WriteFailsInv ==
  ASSUME IInv, TypeOK', NEW c \in Call, WriteFails(c), Monotone
  PROVE  IInv'
<1>1. PICK d \in todo[c] :
        /\ LeftBehind(c, d)
        /\ IF c \in DOMAIN store
             THEN /\ pc' = [pc EXCEPT ![c] = "failed"]
                  /\ todo' = [todo EXCEPT ![c] = {}]
             ELSE NextFrame(c, d)
  BY DEF WriteFails
<1>2. pc[c] = "writing" /\ d \in Device
  BY <1>1 DEF IInv, CallInv, TypeOK
<1>3. /\ \A o \in Call \ {c} : /\ pc'[o] = pc[o] /\ half'[o] = half[o]
                               /\ todo'[o] = todo[o]
      /\ half'[c] = {}
      /\ todo'[c] \subseteq todo[c]
      /\ pc'[c] # "writing" => todo'[c] = {}
      /\ pc'[c] # "idle"
  <2>1. CASE c \in DOMAIN store
    BY <1>1, <1>2, <2>1 DEF WriteFails, IInv, TypeOK
  <2>2. CASE c \notin DOMAIN store
    <3>1. NextFrame(c, d)
      BY <1>1, <2>2
    <3>2. QED
      BY <1>2, <2>2, <3>1 DEF NextFrame, WriteFails, IInv, TypeOK
  <2>3. QED
    BY <2>1, <2>2
<1>4. CallInv'
  BY <1>2, <1>3 DEF WriteFails, IInv, TypeOK, CallInv, simVars
<1>5. FrameInv'
  <2> SUFFICES ASSUME NEW w \in Elements(down'), HasBody(w) PROVE Sent(w)'
    BY DEF FrameInv
  <2>1. PICK b \in Body : b = BodyOf(c, d, FALSE) /\ b.call = c /\ b.token = token[c]
    BY <1>2, BodyOfType DEF IInv
  <2>2. Elements(down') \subseteq Elements(down) \cup {[call |-> c, whole |-> FALSE], b}
    BY <1>1, <1>2, <2>1, LeftType DEF IInv
  <2>3. ~ HasBody([call |-> c, whole |-> FALSE])
    BY DEF HasBody
  <2>4. CASE w = b
    BY <1>3, <2>1, <2>4 DEF Sent, Started, WriteFails
  <2>5. CASE w \in Elements(down)
    <3>1. w.call \in Call /\ Sent(w)
      BY <2>5, FrameIn DEF IInv, FrameInv
    <3>2. QED
      BY <3>1 DEF Sent, Monotone
  <2>6. QED
    BY <2>2, <2>3, <2>4, <2>5
<1>6. QED
  BY <1>4, <1>5, QuietHandler DEF WriteFails, simVars

LEMMA HandleCommandAckInv ==
  ASSUME IInv, TypeOK', HandleCommandAck
  PROVE  IInv'
<1>1. Monotone /\ DOMAIN store' = DOMAIN store
  BY AckMonotone DEF IInv
<1>2. /\ Tokens(up') \subseteq Tokens(up)
      /\ Tokens(up) \subseteq Tokens(up') \cup {Head(up).token}
      /\ Head(up).token \in Tokens(up)
  <2>1. up \in Seq(Ack) /\ up # <<>>
    BY DEF HandleCommandAck, IInv, TypeOK
  <2>2. PICK d : up' = IF Head(up).from = {d} THEN Tail(up)
                       ELSE [up EXCEPT ![1].from = @ \ {d}]
    BY DEF HandleCommandAck
  <2>3. QED
    BY <2>1, <2>2, HandledTokens
<1>3. AckInv'
  BY <1>1, <1>2, KeepAcks DEF IInv
<1>4. FrameInv'
  BY <1>1, KeepFrames DEF IInv, HandleCommandAck
<1>5. OwedInv'
  <2> SUFFICES ASSUME NEW c \in DOMAIN store, acted[c] # {}, ~ mute, Unambiguous(c)
               PROVE  Acked(c)' \/ token[c] \in Tokens(up')
    BY <1>1 DEF OwedInv, Unambiguous, Started, HandleCommandAck, simVars
  <2>1. c \in Call
    BY DEF IInv, TypeOK
  <2>2. Acked(c) \/ token[c] \in Tokens(up)
    BY DEF IInv, OwedInv
  <2>3. CASE Acked(c)
    BY <1>1, <2>1, <2>3 DEF Monotone
  <2>4. CASE token[c] \in Tokens(up) /\ token[c] # Head(up).token
    BY <1>2, <2>4
  <2>5. CASE ~ Acked(c) /\ token[c] = Head(up).token
    <3>1. store \in [DOMAIN store -> PendingCommand] /\ DOMAIN store \subseteq Call
      BY DEF IInv, TypeOK
    <3>2. store[c].status = "pending"
      BY <2>5, <3>1 DEF Acked, PendingCommand
    <3>3. c \in Acknowledged(Head(up).token)
      BY <2>5, <3>2 DEF Acknowledged
    <3>4. PICK o \in Acknowledged(Head(up).token) : store' = [store EXCEPT ![o].status = "acked"]
      BY <3>3 DEF HandleCommandAck
    <3>5. o \in DOMAIN store /\ o \in Call /\ token[o] = token[c] /\ Started(o)
      BY <2>5, <3>1, <3>4 DEF Acknowledged, IInv, CallInv, Started
    <3>6. o = c
      BY <3>5 DEF Unambiguous
    <3>7. store'[c].status = "acked"
      BY <3>1, <3>4, <3>5, <3>6, AckCommand
    <3>8. QED
      BY <1>1, <3>7 DEF Acked
  <2>6. QED
    BY <2>2, <2>3, <2>4, <2>5
<1>6. CASE UNCHANGED <<store, announced>>
  <2>1. CallInv'
    BY <1>6 DEF HandleCommandAck, IInv, CallInv, simVars
  <2>2. AckMeansActed'
    <3>1. \A o \in Call : Acked(o)' => Acked(o) /\ Started(o)
      BY <1>6 DEF IInv, CallInv, Acked, Started
    <3>2. QED
      BY <1>1, <3>1, KeepMeaning DEF IInv
  <2>3. AnnouncedOnce'
    BY <1>6 DEF IInv, AnnouncedOnce, Acked
  <2>4. QED
    BY <1>3, <1>4, <1>5, <2>1, <2>2, <2>3 DEF IInv
<1>7. ASSUME NEW c \in Acknowledged(Head(up).token),
             store' = [store EXCEPT ![c].status = "acked"],
             announced' = [announced EXCEPT ![c] = @ + 1]
      PROVE  IInv'
  <2>1. /\ c \in DOMAIN store /\ c \in Call
        /\ store[c].status = "pending" /\ token[c] = Head(up).token
    BY <1>7 DEF Acknowledged, IInv, TypeOK
  <2>2. /\ store'[c].status = "acked"
        /\ \A o \in DOMAIN store : store'[o].node = store[o].node
        /\ \A o \in DOMAIN store : o # c => store'[o] = store[o]
    <3>1. DOMAIN store \subseteq Call /\ store \in [DOMAIN store -> PendingCommand]
      BY DEF IInv, TypeOK
    <3>2. QED
      BY <1>7, <2>1, <3>1, AckCommand
  <2>3. CallInv'
    BY <1>1, <2>2 DEF HandleCommandAck, IInv, CallInv, simVars
  <2>4. /\ Acked(c)' /\ ~ Acked(c)
        /\ \A o \in Call \ {c} : Acked(o)' <=> Acked(o)
    BY <1>1, <2>1, <2>2 DEF Acked
  <2>5. AckMeansActed'
    <3> SUFFICES ASSUME NEW o \in Call, Acked(o)', Unambiguous(o)' PROVE acted'[o] # {}
      BY DEF AckMeansActed
    <3>1. Unambiguous(o) /\ acted' = acted
      BY DEF Unambiguous, Started, HandleCommandAck, simVars
    <3>2. CASE o = c
      <4>1. PICK p \in Call : Started(p) /\ token[p] = token[c] /\ acted[p] # {}
        BY <1>2, <2>1, <3>1, <3>2 DEF IInv, AckInv, CarriedOut, Unambiguous
      <4>2. p = c
        BY <3>1, <3>2, <4>1 DEF Unambiguous
      <4>3. QED
        BY <3>1, <3>2, <4>1, <4>2
    <3>3. CASE o # c
      BY <2>4, <3>1, <3>3 DEF IInv, AckMeansActed
    <3>4. QED
      BY <3>2, <3>3
  <2>6. AnnouncedOnce'
    <3>1. announced \in [Call -> Nat] /\ announced[c] = 0
      BY <2>1, <2>4 DEF IInv, TypeOK, AnnouncedOnce
    <3>2. announced'[c] = 1 /\ \A o \in Call \ {c} : announced'[o] = announced[o]
      BY <1>7, <2>1, <3>1
    <3>3. QED
      BY <2>4, <3>2 DEF IInv, AnnouncedOnce
  <2>7. QED
    BY <1>3, <1>4, <1>5, <2>3, <2>5, <2>6 DEF IInv
<1>8. QED
  BY <1>6, <1>7 DEF HandleCommandAck

LEMMA NextInv == IInv /\ [Next]_vars => IInv'
<1> SUFFICES ASSUME IInv, [Next]_vars PROVE IInv'
  OBVIOUS
<1>1. TypeOK /\ CallInv /\ TypeOK'
  BY NextType DEF IInv
<1>2. ASSUME NEW c \in Call, Handler(c)
      PROVE  IInv'
  <2>1. Monotone
    BY <1>1, <1>2, HandlerMonotone
  <2>2. QED
    BY <1>1, <1>2, <2>1, NodeCommandInv, ZoneCommandInv, WriteHeaderInv, WriteBodyInv,
       WriteFailsInv DEF Handler, Write
<1>3. CASE ReadFrame \/ ReadTorn
  <2>1. PICK i \in {2, 3} :
          /\ Len(down) >= i /\ IsBody(down[i]) /\ HandleFrame(down[i], down[i].token)
          /\ Drop(i)
    BY <1>3 DEF ReadFrame, ReadTorn, Torn
  <2>2. i \in 1..Len(down) /\ HasBody(down[i])
    BY <1>1, <2>1, LenProperties DEF TypeOK, IsBody
  <2>3. down[i] \in Elements(down) /\ Elements(down') \subseteq Elements(down)
    BY <1>1, <2>1, <2>2, BodyAt, DropType
  <2>4. UNCHANGED <<hubVars, announced>>
    BY <1>3 DEF ReadFrame, ReadTorn
  <2>5. down[i].token \in {down[i].token} \cup TornToken
    OBVIOUS
  <2>6. QED
    BY <1>1, <2>1, <2>2, <2>3, <2>4, <2>5, ReadInv
<1>4. ASSUME UNCHANGED <<hubVars, acted, up, announced>>, mute => mute',
             Elements(down') \subseteq Elements(down)
      PROVE  IInv'
  <2>1. Monotone
    BY <1>4 DEF Monotone, Started, Acked, hubVars
  <2>2. CallInv'
    BY <1>1, <1>4 DEF CallInv, hubVars
  <2>3. FrameInv'
    BY <1>4, <2>1, KeepFrames DEF IInv
  <2>4. QED
    BY <1>1, <1>4, <2>1, <2>2, <2>3, QuietHandler DEF hubVars
<1>5. CASE ReadBroken
  <2>1. PICK n \in 4..Len(down) : Drop(n)
    BY <1>5 DEF ReadBroken
  <2>2. n \in Nat
    BY <1>1, LenProperties DEF TypeOK
  <2>3. Elements(down') \subseteq Elements(down)
    BY <1>1, <2>1, <2>2, DropType
  <2>4. QED
    BY <1>4, <1>5, <2>3 DEF ReadBroken, GiveUp
<1>6. ASSUME Drop(1), GiveUp \/ UNCHANGED <<reader, mute>>,
             UNCHANGED <<hubVars, acted, up, announced>>
      PROVE  IInv'
  <2>1. Elements(down') \subseteq Elements(down)
    BY <1>1, <1>6, DropType
  <2>2. mute => mute'
    BY <1>6 DEF GiveUp
  <2>3. QED
    BY <1>4, <1>6, <2>1, <2>2
<1>7. CASE ReadJunk
  BY <1>6, <1>7 DEF ReadJunk, ReadOn
<1>8. CASE ReadAstray
  <2>1. CASE \E giveUp \in BOOLEAN : ReadOn(giveUp)
    BY <1>6, <2>1 DEF ReadOn
  <2>2. ASSUME down # <<>>, HasBody(down[1]),
               NEW t \in {down[1].token} \cup TornToken, HandleFrame(down[1], t),
               Drop(1), UNCHANGED <<hubVars, announced>>
        PROVE  IInv'
    <3>1. 1 \in 1..Len(down)
      BY <1>1, <2>2, EmptySeq, LenProperties DEF TypeOK
    <3>2. down[1] \in Elements(down) /\ Elements(down') \subseteq Elements(down)
      BY <1>1, <2>2, <3>1, BodyAt, DropType
    <3>3. QED
      BY <1>1, <2>2, <3>2, ReadInv
  <2>3. QED
    BY <1>8, <2>1, <2>2 DEF ReadAstray
<1>9. CASE ReadScrap \/ Mute
  BY <1>4, <1>9 DEF ReadScrap, Mute
<1>10. CASE HandleCommandAck
  BY <1>1, <1>10, HandleCommandAckInv
<1>11. ASSUME NEW d \in Device, NEW off \in BOOLEAN, SetOffline(d, off)
      PROVE  IInv'
  BY <1>4, <1>11 DEF SetOffline
<1>12. CASE UNCHANGED vars
  BY <1>4, <1>12 DEF vars, simVars
<1>13. QED
  BY <1>2, <1>3, <1>5, <1>7, <1>10, <1>11, <1>12, <1>8, <1>9 DEF Next, ReadLoop

LEMMA IInvInvariant == Spec => []IInv
BY InitInv, NextInv, PTL DEF Spec

(***************************************************************************)
(* The results.                                                            *)
(***************************************************************************)

\* A command whose token is its own shows as acked only after a device carried it
\* out, whichever handlers' frames ran into each other on the link.
THEOREM AckedIsCarriedOut == Spec => []AckMeansActed
<1>1. IInv => AckMeansActed
  BY DEF IInv
<1>2. QED
  BY <1>1, IInvInvariant, PTL

\* command_ack is published once for a command that is acked, and for no other.
THEOREM AckedIsAnnounced == Spec => []AnnouncedOnce
<1>1. IInv => AnnouncedOnce
  BY DEF IInv
<1>2. QED
  BY <1>1, IInvInvariant, PTL

\* An acknowledgement never overtakes the record of the command it is for.
THEOREM AckFindsRecord == Spec => []AckFindsCommand
<1>1. IInv => AckFindsCommand
  <2> SUFFICES ASSUME IInv, NEW i \in DOMAIN up, up[i].token \notin TornToken \cup {ZeroToken}
               PROVE  \E c \in DOMAIN store : token[c] = up[i].token
    BY DEF AckFindsCommand
  <2>1. up[i].token \in Tokens(up)
    <3>1. i \in 1..Len(up)
      BY LenProperties DEF IInv, TypeOK
    <3>2. QED
      BY <3>1 DEF Tokens
  <2>2. PICK c \in Call : token[c] = up[i].token
    BY <2>1 DEF IInv, AckInv, CarriedOut
  <2>3. c \in DOMAIN store
    BY <2>2 DEF IInv, CallInv
  <2>4. QED
    BY <2>2, <2>3
<1>2. QED
  BY <1>1, IInvInvariant, PTL

\* A command carried out, one answered with 500 too, is acked or about to be, as long
\* as its token is its own and the simulator could write.
THEOREM CarriedOutShows == Spec => []CarriedOutIsOwed
<1>1. IInv => CarriedOutIsOwed
  <2> SUFFICES ASSUME IInv, NEW c \in DOMAIN store, acted[c] # {}, ~ mute, Unambiguous(c),
                      ~ Acked(c)
               PROVE  \E i \in DOMAIN up : up[i].token = token[c]
    BY DEF CarriedOutIsOwed
  <2>1. token[c] \in Tokens(up)
    BY DEF IInv, OwedInv
  <2>2. DOMAIN up = 1..Len(up)
    BY LenProperties DEF IInv, TypeOK
  <2>3. QED
    BY <2>1, <2>2 DEF Tokens
<1>2. QED
  BY <1>1, IInvInvariant, PTL
=============================================================================
