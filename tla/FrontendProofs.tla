--------------------------- MODULE FrontendProofs ---------------------------
(***************************************************************************)
(* What the browser keeps whatever the order of the answers, for any       *)
(* number of requests under way, any (even) limit of messages and any      *)
(* failures: conversations stay made of questions and their replies, and   *)
(* the status is the server's when nothing overlapped.                     *)
(***************************************************************************)
EXTENDS Frontend, SequenceTheorems, TLAPS

States == {"free", "asked", "answered", "failed"}
FlightType == [kind : Kinds, state : States, loaded : BOOLEAN, remote : BOOLEAN,
               reply : {"none", "assistant", "empty"}]

\* The kinds of request that each flag stands for.
BusyKinds == {"load", "chat"}
PanelKinds == {"panel load", "panel unload", "after"}

\* Of the requests behind a flag there is one at a time.
OneEach ==
  \A f, g \in Flights :
    \/ f = g
    \/ /\ ~ (flight[f].kind \in BusyKinds /\ flight[g].kind \in BusyKinds)
       /\ ~ (flight[f].kind \in PanelKinds /\ flight[g].kind \in PanelKinds)

\* Questions, each followed by its own reply, within the limit.
Paired(s) ==
  /\ s \in Seq(Message)
  /\ Len(s) <= MaxMessages
  /\ Len(s) % 2 = 0
  /\ \A i \in DOMAIN s :
       i % 2 = 1 => /\ s[i].by = "user"
                    /\ s[i + 1].by # "user"
                    /\ s[i + 1].turn = s[i].turn

Chatting == \E f \in Flights : flight[f].kind = "chat"

\* Between chats the conversation is paired; during one it was, and now ends with the
\* question.  A chat is answered with a reply.
ChatInv ==
  /\ ~ Chatting => Paired(messages)
  /\ Chatting =>
       /\ Paired(previous)
       /\ \E n \in 1..turns : sent = Recent(Append(previous, [by |-> "user", turn |-> n]))
       /\ messages = sent
  /\ \A f \in Flights :
       flight[f].kind = "chat" /\ flight[f].state = "answered" => flight[f].reply \in {"assistant", "empty"}

\* A request that has run alone, and was answered, tells of the model as it is.
Truthful(f) ==
  flight[f].state = "answered" =>
    CASE flight[f].kind \in {"load", "panel load"} -> loaded
      [] flight[f].kind = "panel unload" -> ~ loaded
      [] OTHER -> flight[f].loaded = loaded

StatusInv ==
  /\ clean # None => StatusFlights = {clean} /\ Truthful(clean)
  /\ ~ doubt /\ StatusFlights # {} => clean # None
  /\ StatusIsRight

FrontendInv == TypeOK /\ OneEach /\ ChatInv /\ StatusInv

-----------------------------------------------------------------------------
(* Conversations.                                                          *)

\* What the limit leaves of a conversation that is at most one message over it.
LEMMA RecentMessages ==
  ASSUME NEW x \in Seq(Message), Len(x) <= MaxMessages + 1
  PROVE  /\ Recent(x) \in Seq(Message)
         /\ Len(Recent(x)) = IF Len(x) > MaxMessages THEN MaxMessages ELSE Len(x)
         /\ \A i \in 1..Len(Recent(x)) :
              Recent(x)[i] = IF Len(x) > MaxMessages THEN x[i + 1] ELSE x[i]
<1>1. MaxMessages \in Nat \ {0} /\ Len(x) \in Nat
  BY FrontendAssumption
<1>2. CASE Len(x) > MaxMessages
  <2>1. Recent(x) = SubSeq(x, 2, MaxMessages + 1)
    BY <1>1, <1>2 DEF Recent
  <2>2. \A i \in 2..MaxMessages + 1 : x[i] \in Message
    BY <1>1, <1>2
  <2>3. /\ SubSeq(x, 2, MaxMessages + 1) \in Seq(Message)
        /\ Len(SubSeq(x, 2, MaxMessages + 1)) = IF 2 <= MaxMessages + 1 THEN MaxMessages + 1 - 2 + 1 ELSE 0
        /\ \A i \in 1..MaxMessages + 1 - 2 + 1 : SubSeq(x, 2, MaxMessages + 1)[i] = x[2 + i - 1]
    BY <1>1, <2>2, SubSeqProperties
  <2> QED
    BY <1>1, <1>2, <2>1, <2>3
<1>3. CASE ~ (Len(x) > MaxMessages)
  BY <1>1, <1>3 DEF Recent
<1> QED
  BY <1>1, <1>2, <1>3, Zenon

\* A question makes a conversation that ends with it, within the limit.
LEMMA Question ==
  ASSUME NEW s, Paired(s), NEW n \in Nat \ {0}
  PROVE  LET q == [by |-> "user", turn |-> n]
             t == Recent(Append(s, q))
         IN  /\ t \in Seq(Message)
             /\ Len(t) \in 1..MaxMessages
             /\ t[Len(t)] = q
             /\ \A i \in 1..Len(t) - 1 : t[i] = IF Len(s) < MaxMessages THEN s[i] ELSE s[i + 1]
             /\ Len(t) = IF Len(s) < MaxMessages THEN Len(s) + 1 ELSE MaxMessages
<1> DEFINE q == [by |-> "user", turn |-> n]
           w == Append(s, q)
           t == Recent(w)
<1>1. MaxMessages \in Nat \ {0} /\ s \in Seq(Message) /\ Len(s) \in Nat /\ Len(s) <= MaxMessages
  BY FrontendAssumption DEF Paired
<1>2. q \in Message
  BY DEF Message
<1>3. w \in Seq(Message) /\ Len(w) = Len(s) + 1
      /\ w[Len(s) + 1] = q /\ \A i \in 1..Len(s) : w[i] = s[i]
  BY <1>1, <1>2
<1> HIDE DEF q, w
<1>4. /\ t \in Seq(Message)
      /\ Len(t) = IF Len(w) > MaxMessages THEN MaxMessages ELSE Len(w)
      /\ \A i \in 1..Len(t) : t[i] = IF Len(w) > MaxMessages THEN w[i + 1] ELSE w[i]
  BY <1>1, <1>3, RecentMessages
<1> HIDE DEF t
<1>5. Len(t) \in 1..MaxMessages /\ Len(t) = IF Len(s) < MaxMessages THEN Len(s) + 1 ELSE MaxMessages
  BY <1>1, <1>3, <1>4
<1>6. t[Len(t)] = q /\ \A i \in 1..Len(t) - 1 : t[i] = IF Len(s) < MaxMessages THEN s[i] ELSE s[i + 1]
  <2>1. CASE Len(s) < MaxMessages
    BY <1>1, <1>3, <1>4, <1>5, <2>1
  <2>2. CASE Len(s) = MaxMessages
    BY <1>1, <1>3, <1>4, <1>5, <2>2
  <2> QED
    BY <1>1, <2>1, <2>2
<1> QED
  BY <1>4, <1>5, <1>6 DEF t, w, q

\* Whether a reply in a conversation follows its own question: the first of a full
\* one has lost it.
Follows(t, i) == \/ i = 1 /\ Len(t) = MaxMessages
                 \/ i > 1 /\ t[i - 1] = [by |-> "user", turn |-> t[i].turn]

\* A question leaves at most the first reply without its own.
LEMMA QuestionCut ==
  ASSUME NEW s, Paired(s), NEW n \in Nat \ {0}, NEW t,
         t = Recent(Append(s, [by |-> "user", turn |-> n]))
  PROVE  \A i \in DOMAIN t : t[i].by # "user" => Follows(t, i)
<1>1. /\ MaxMessages \in Nat \ {0} /\ s \in Seq(Message) /\ Len(s) \in Nat /\ Len(s) <= MaxMessages
      /\ DOMAIN s = 1..Len(s) /\ Len(s) % 2 = 0
  BY FrontendAssumption DEF Paired
<1>2. /\ t \in Seq(Message) /\ Len(t) \in 1..MaxMessages
      /\ t[Len(t)] = [by |-> "user", turn |-> n]
      /\ \A i \in 1..Len(t) - 1 : t[i] = IF Len(s) < MaxMessages THEN s[i] ELSE s[i + 1]
      /\ Len(t) = IF Len(s) < MaxMessages THEN Len(s) + 1 ELSE MaxMessages
  BY Question
\* In the conversation before it every reply follows its question.
<1>3. ASSUME NEW j \in 1..Len(s), s[j].by # "user"
      PROVE  j > 1 /\ s[j - 1] = [by |-> "user", turn |-> s[j].turn]
  <2>1. j % 2 # 1
    BY <1>1, <1>3 DEF Paired
  <2>2. j > 1 /\ j - 1 \in 1..Len(s) /\ (j - 1) % 2 = 1 /\ (j - 1) + 1 = j
    BY <1>1, <2>1
  <2>3. s[j - 1].by = "user" /\ s[j].turn = s[j - 1].turn
    BY <1>1, <2>2 DEF Paired
  <2>4. s[j - 1] \in Message
    BY <1>1, <2>2
  <2> QED
    BY <2>2, <2>3, <2>4 DEF Message
<1> SUFFICES ASSUME NEW i \in 1..Len(t), t[i].by # "user"
             PROVE  Follows(t, i)
  BY <1>2
<1>4. i \in 1..Len(t) - 1
  BY <1>2
<1>5. CASE Len(s) < MaxMessages
  <2>1. i \in 1..Len(s) /\ t[i] = s[i]
    BY <1>1, <1>2, <1>4, <1>5
  <2>2. i > 1 /\ s[i - 1] = [by |-> "user", turn |-> s[i].turn]
    BY <1>3, <2>1
  <2>3. i - 1 \in 1..Len(t) - 1
    BY <1>2, <1>4, <2>2
  <2>4. t[i - 1] = s[i - 1]
    BY <1>2, <1>5, <2>3
  <2> QED
    BY <2>1, <2>2, <2>4 DEF Follows
<1>6. CASE Len(s) = MaxMessages
  <2>1. Len(t) = MaxMessages /\ i + 1 \in 1..Len(s) /\ t[i] = s[i + 1]
    BY <1>1, <1>2, <1>4, <1>6
  <2>2. (i + 1) - 1 = i /\ s[i] = [by |-> "user", turn |-> s[i + 1].turn]
    BY <1>3, <1>4, <2>1
  <2>3. CASE i # 1
    <3>1. i > 1 /\ i - 1 \in 1..Len(t) - 1 /\ (i - 1) + 1 = i
      BY <1>2, <1>4, <2>3
    <3>2. t[i - 1] = s[i]
      BY <1>2, <1>6, <3>1
    <3> QED
      BY <2>1, <2>2, <3>1, <3>2 DEF Follows
  <2> QED
    BY <2>1, <2>3 DEF Follows
<1>7. Len(s) < MaxMessages \/ Len(s) = MaxMessages
  <2>1. Len(s) \in Nat /\ MaxMessages \in Nat /\ Len(s) <= MaxMessages
    BY <1>1
  <2> QED
    BY ONLY <2>1
<1> QED
  BY <1>5, <1>6, <1>7

\* Its reply makes it a paired conversation again.
LEMMA Reply ==
  ASSUME NEW s, Paired(s), NEW n \in Nat \ {0}, NEW b \in {"assistant", "empty"}
  PROVE  LET t == Recent(Append(s, [by |-> "user", turn |-> n]))
         IN  Paired(Recent(Append(t, [by |-> b, turn |-> n])))
<1> DEFINE q == [by |-> "user", turn |-> n]
           a == [by |-> b, turn |-> n]
           t == Recent(Append(s, q))
           w == Append(t, a)
           u == Recent(w)
<1>1. MaxMessages \in Nat \ {0} /\ s \in Seq(Message) /\ Len(s) \in Nat /\ Len(s) <= MaxMessages
      /\ MaxMessages % 2 = 0 /\ Len(s) % 2 = 0
  BY FrontendAssumption DEF Paired
<1>2. /\ t \in Seq(Message)
      /\ Len(t) \in 1..MaxMessages
      /\ t[Len(t)] = q
      /\ \A i \in 1..Len(t) - 1 : t[i] = IF Len(s) < MaxMessages THEN s[i] ELSE s[i + 1]
      /\ Len(t) = IF Len(s) < MaxMessages THEN Len(s) + 1 ELSE MaxMessages
  BY Question
<1>3. a \in Message /\ a.by # "user" /\ a.turn = n /\ q.by = "user" /\ q.turn = n
  BY DEF Message
<1> HIDE DEF t, q, a
<1>4. w \in Seq(Message) /\ Len(w) = Len(t) + 1
      /\ w[Len(t) + 1] = a /\ \A i \in 1..Len(t) : w[i] = t[i]
  BY <1>2, <1>3
<1> HIDE DEF w
<1>5. /\ u \in Seq(Message)
      /\ Len(u) = IF Len(w) > MaxMessages THEN MaxMessages ELSE Len(w)
      /\ \A i \in 1..Len(u) : u[i] = IF Len(w) > MaxMessages THEN w[i + 1] ELSE w[i]
  BY <1>1, <1>2, <1>4, RecentMessages
<1> HIDE DEF u
<1>6. \A i \in 1..Len(s) : i % 2 = 1 => /\ i + 1 \in 1..Len(s)
                                        /\ s[i].by = "user"
                                        /\ s[i + 1].by # "user"
                                        /\ s[i + 1].turn = s[i].turn
  <2> SUFFICES ASSUME NEW i \in 1..Len(s), i % 2 = 1
               PROVE  i + 1 \in 1..Len(s) /\ s[i].by = "user"
                      /\ s[i + 1].by # "user" /\ s[i + 1].turn = s[i].turn
    OBVIOUS
  <2>1. i # Len(s)
    BY <1>1
  <2>2. i + 1 \in 1..Len(s)
    BY <1>1, <2>1
  <2>3. i \in DOMAIN s
    BY <1>1
  <2> QED
    BY <2>2, <2>3 DEF Paired
\* The conversation without what the limit has cut: one pair, or nothing.
<1> DEFINE cut == IF Len(s) < MaxMessages THEN 0 ELSE 2
           m == Len(s) - cut
<1>7. cut \in {0, 2} /\ m \in Nat /\ m % 2 = 0 /\ m + 2 <= MaxMessages
  <2>1. CASE Len(s) < MaxMessages
    <3>1. Len(s) + 1 # MaxMessages
      BY <1>1, <2>1
    <3> QED
      BY <1>1, <2>1, <3>1
  <2>2. CASE Len(s) = MaxMessages
    <3>1. MaxMessages # 1
      BY <1>1
    <3> QED
      BY <1>1, <2>2, <3>1
  <2>3. Len(s) < MaxMessages \/ Len(s) = MaxMessages
    <3>1. Len(s) \in Nat /\ MaxMessages \in Nat /\ Len(s) <= MaxMessages
      BY <1>1
    <3> QED
      BY ONLY <3>1
  <2> HIDE DEF cut, m
  <2> QED
    BY <2>1, <2>2, <2>3
<1>8. /\ Len(u) = m + 2
      /\ u[m + 1] = q
      /\ u[m + 2] = a
      /\ \A i \in 1..m : u[i] = s[i + cut]
  <2>1. CASE Len(s) < MaxMessages
    <3>1. Len(t) = Len(s) + 1 /\ Len(w) = Len(s) + 2 /\ ~ (Len(w) > MaxMessages)
      BY <1>1, <1>2, <1>4, <2>1
    <3>2. Len(u) = Len(s) + 2 /\ \A i \in 1..Len(s) + 2 : u[i] = w[i]
      BY <1>1, <1>5, <3>1
    <3>3. cut = 0 /\ m = Len(s)
      BY <1>1, <2>1
    <3> QED
      BY <1>1, <1>2, <1>4, <2>1, <3>1, <3>2, <3>3
  <2>2. CASE Len(s) = MaxMessages
    <3>1. Len(t) = MaxMessages /\ Len(w) = MaxMessages + 1
      BY <1>1, <1>2, <1>4, <2>2
    <3>2. Len(u) = MaxMessages /\ \A i \in 1..MaxMessages : u[i] = w[i + 1]
      BY <1>1, <1>5, <3>1
    <3>3. cut = 2 /\ m = MaxMessages - 2
      BY <1>1, <2>2
    <3>4. u[m + 2] = a /\ u[m + 1] = t[MaxMessages]
      BY <1>1, <1>4, <1>7, <3>1, <3>2, <3>3
    <3>5. ASSUME NEW i \in 1..m
          PROVE  u[i] = s[i + 2]
      <4>1. u[i] = t[i + 1] /\ i + 1 \in 1..Len(t) - 1
        BY <1>1, <1>4, <1>7, <3>1, <3>2, <3>3
      <4> QED
        BY <1>1, <1>2, <1>7, <2>2, <4>1
    <3> QED
      BY <1>2, <3>1, <3>2, <3>3, <3>4, <3>5
  <2> QED
    BY <1>1, <2>1, <2>2
<1> HIDE DEF cut, m
<1>9. m + cut = Len(s)
  BY <1>1 DEF m, cut
<1>10. ASSUME NEW i \in 1..m + 2, i % 2 = 1
       PROVE  u[i].by = "user" /\ u[i + 1].by # "user" /\ u[i + 1].turn = u[i].turn
  <2>1. CASE i \in 1..m
    <3>1. i # m
      BY <1>7, <1>10
    <3>2. i + 1 \in 1..m
      BY <1>7, <2>1, <3>1
    <3>3. i + cut \in 1..Len(s) /\ (i + cut) % 2 = 1 /\ (i + cut) + 1 = (i + 1) + cut
      BY <1>1, <1>7, <1>9, <1>10, <2>1
    <3> QED
      BY <1>6, <1>8, <2>1, <3>2, <3>3
  <2>2. CASE i = m + 1
    BY <1>3, <1>7, <1>8, <2>2
  <2>3. i # m + 2
    BY <1>7, <1>10
  <2> QED
    BY <1>7, <2>1, <2>2, <2>3
<1>11. Len(u) <= MaxMessages /\ Len(u) % 2 = 0 /\ DOMAIN u = 1..m + 2
  BY <1>5, <1>7, <1>8
<1>12. Paired(u)
  BY <1>5, <1>10, <1>11 DEF Paired
<1> QED
  BY <1>12 DEF u, w, t, q, a

-----------------------------------------------------------------------------
(* The requests and the flags they hold up.                                *)

\* TypeOK in two parts: the requests and what they set, and the conversation.
RequestTypes ==
  /\ loaded \in BOOLEAN
  /\ flight \in [Flights -> FlightType]
  /\ status \in {"checking", "loaded", "not_loaded", "error"}
  /\ catalog \in BOOLEAN
  /\ ready \in BOOLEAN
  /\ busy <=> \E f \in Flights : flight[f].kind \in BusyKinds
  /\ panelBusy <=> \E f \in Flights : flight[f].kind \in PanelKinds
  /\ clean \in StatusFlights \cup {None}
  /\ doubt \in BOOLEAN

ChatTypes ==
  /\ messages \in Seq(Message)
  /\ input \in 0..turns
  /\ turns \in Nat
  /\ sent \in Seq(Message)
  /\ previous \in Seq(Message)

LEMMA TypeParts == TypeOK <=> RequestTypes /\ ChatTypes
BY DEF TypeOK, RequestTypes, ChatTypes, FlightType, States, BusyKinds, PanelKinds

\* What a slot holds when it is free, or newly asked.
LEMMA Slots ==
  /\ Free \in FlightType /\ Free.kind = "none"
  /\ \A kind \in Kinds : Asked(kind) \in FlightType /\ Asked(kind).kind = kind /\ Asked(kind).state = "asked"
  /\ \A kind \in Kinds : [Asked(kind) EXCEPT !.state = "failed"] \in FlightType
                         /\ [Asked(kind) EXCEPT !.state = "failed"].kind = kind
                         /\ [Asked(kind) EXCEPT !.state = "failed"].state = "failed"
BY DEF Free, Asked, FlightType, States, Kinds, StatusKinds

\* An answer has the kind of its request; one to a chat is a reply; one that tells of
\* the model tells of it as it is then.
LEMMA AnswerOf ==
  ASSUME NEW f \in Flights, flight[f].kind \in Kinds, loaded' \in BOOLEAN, NEW answer \in Answers(f)
  PROVE  /\ answer \in FlightType
         /\ answer.kind = flight[f].kind
         /\ answer.state = "answered"
         /\ answer.kind = "chat" => answer.reply \in {"assistant", "empty"}
         /\ answer.kind \in {"health", "panel", "after"} => answer.loaded = loaded'
BY DEF Answers, FlightType, States, Kinds, StatusKinds

\* One request changes at a time; two when the access token is saved.
LEMMA RequestsInit == Init => RequestTypes /\ OneEach
<1> SUFFICES ASSUME Init
             PROVE  RequestTypes /\ OneEach
  OBVIOUS
<1>1. PICK f \in Flights, g \in Flights :
        /\ f # g
        /\ flight = [x \in Flights |-> IF x = f THEN Asked("health")
                                       ELSE IF x = g THEN Asked("models") ELSE Free]
        /\ clean = f
  BY DEF Init
<1>2. flight \in [Flights -> FlightType]
      /\ \A x \in Flights : flight[x].kind = IF x = f THEN "health" ELSE IF x = g THEN "models" ELSE "none"
  BY <1>1, Slots DEF Kinds, StatusKinds
<1>3. clean \in StatusFlights
  BY <1>1, <1>2 DEF StatusFlights, StatusKinds
<1> QED
  BY <1>2, <1>3 DEF Init, RequestTypes, OneEach, BusyKinds, PanelKinds

\* A request whose slot was free is asked.
LEMMA AskStep ==
  ASSUME RequestTypes, OneEach, NEW f \in Flights, flight[f] = Free, NEW kind \in Kinds,
         flight' = [flight EXCEPT ![f] = Asked(kind)],
         kind \in BusyKinds => ~ busy,
         kind \in PanelKinds => ~ panelBusy,
         busy' <=> busy \/ kind \in BusyKinds,
         panelBusy' <=> panelBusy \/ kind \in PanelKinds
  PROVE  /\ flight' \in [Flights -> FlightType]
         /\ busy' <=> \E x \in Flights : flight'[x].kind \in BusyKinds
         /\ panelBusy' <=> \E x \in Flights : flight'[x].kind \in PanelKinds
         /\ OneEach'
         /\ StatusFlights' = IF kind \in StatusKinds THEN StatusFlights \cup {f} ELSE StatusFlights
<1>1. flight \in [Flights -> FlightType] /\ flight[f].kind = "none"
  BY Slots DEF RequestTypes
<1>2. /\ flight' \in [Flights -> FlightType]
      /\ flight'[f].kind = kind
      /\ \A x \in Flights \ {f} : flight'[x] = flight[x]
  BY <1>1, Slots
<1>3. (busy' <=> \E x \in Flights : flight'[x].kind \in BusyKinds)
      /\ (panelBusy' <=> \E x \in Flights : flight'[x].kind \in PanelKinds)
  BY <1>1, <1>2 DEF RequestTypes, BusyKinds, PanelKinds
<1>4. OneEach'
  BY <1>1, <1>2 DEF RequestTypes, OneEach, BusyKinds, PanelKinds
<1>5. StatusFlights' = IF kind \in StatusKinds THEN StatusFlights \cup {f} ELSE StatusFlights
  BY <1>1, <1>2 DEF StatusFlights, StatusKinds
<1> QED
  BY <1>2, <1>3, <1>4, <1>5

\* A request goes on, as the same kind or as the status request that ends a load or
\* an unload of the panel.
LEMMA GoOnStep ==
  ASSUME RequestTypes, OneEach, NEW f \in Flights, NEW r \in FlightType,
         \/ r.kind = flight[f].kind
         \/ flight[f].kind \in {"panel load", "panel unload"} /\ r.kind = "after",
         flight' = [flight EXCEPT ![f] = r],
         UNCHANGED <<busy, panelBusy>>
  PROVE  /\ flight' \in [Flights -> FlightType]
         /\ busy' <=> \E x \in Flights : flight'[x].kind \in BusyKinds
         /\ panelBusy' <=> \E x \in Flights : flight'[x].kind \in PanelKinds
         /\ OneEach'
         /\ StatusFlights' = StatusFlights
<1>1. flight \in [Flights -> FlightType]
  BY DEF RequestTypes
<1>2. /\ flight' \in [Flights -> FlightType]
      /\ flight'[f] = r
      /\ \A x \in Flights \ {f} : flight'[x] = flight[x]
  BY <1>1
<1>3. \A x \in Flights : /\ flight'[x].kind \in BusyKinds <=> flight[x].kind \in BusyKinds
                         /\ flight'[x].kind \in PanelKinds <=> flight[x].kind \in PanelKinds
                         /\ flight'[x].kind \in StatusKinds <=> flight[x].kind \in StatusKinds
  BY <1>1, <1>2 DEF BusyKinds, PanelKinds, StatusKinds
<1>4. OneEach'
  BY <1>3 DEF OneEach
<1>5. StatusFlights' = StatusFlights
  BY <1>3 DEF StatusFlights
<1> QED
  BY <1>2, <1>3, <1>4, <1>5 DEF RequestTypes

\* A request is over, and lowers the flag it held up.
LEMMA DoneStep ==
  ASSUME RequestTypes, OneEach, NEW f \in Flights, Done(f),
         busy' <=> busy /\ flight[f].kind \notin BusyKinds,
         panelBusy' <=> panelBusy /\ flight[f].kind \notin PanelKinds
  PROVE  /\ flight' \in [Flights -> FlightType]
         /\ busy' <=> \E x \in Flights : flight'[x].kind \in BusyKinds
         /\ panelBusy' <=> \E x \in Flights : flight'[x].kind \in PanelKinds
         /\ OneEach'
         /\ StatusFlights' = StatusFlights \ {f}
         /\ \A x \in Flights : flight'[x] = IF x = f THEN Free ELSE flight[x]
<1>1. flight \in [Flights -> FlightType]
  BY DEF RequestTypes
<1>2. /\ flight' \in [Flights -> FlightType]
      /\ flight'[f].kind = "none"
      /\ \A x \in Flights : flight'[x] = IF x = f THEN Free ELSE flight[x]
  BY <1>1, Slots DEF Done
<1>3. (busy' <=> \E x \in Flights : flight'[x].kind \in BusyKinds)
      /\ (panelBusy' <=> \E x \in Flights : flight'[x].kind \in PanelKinds)
  BY <1>1, <1>2 DEF RequestTypes, OneEach, BusyKinds, PanelKinds
<1>4. OneEach'
  BY <1>1, <1>2 DEF RequestTypes, OneEach, BusyKinds, PanelKinds
<1>5. StatusFlights' = StatusFlights \ {f}
  BY <1>1, <1>2 DEF StatusFlights, StatusKinds
<1> QED
  BY <1>2, <1>3, <1>4, <1>5

\* Every step keeps the requests and the flags of their types, and one request a flag.
LEMMA RequestsNext ==
  ASSUME RequestTypes, OneEach, Next
  PROVE  RequestTypes' /\ OneEach'
<1> USE DEF shown, chat, history
<1>1. ASSUME NEW f \in Flights, NEW g \in Flights, SaveAccessToken(f, g)
      PROVE  RequestTypes' /\ OneEach'
  <2>1. /\ flight \in [Flights -> FlightType] /\ f # g
        /\ flight[f].kind = "none" /\ flight[g].kind = "none"
        /\ flight' = [flight EXCEPT ![f] = Asked("health"), ![g] = Asked("models")]
        /\ UNCHANGED <<loaded, shown, busy, panelBusy>>
    BY <1>1, Slots DEF SaveAccessToken, RequestTypes
  <2>2. /\ flight' \in [Flights -> FlightType]
        /\ flight'[f].kind = "health" /\ flight'[g].kind = "models"
        /\ \A x \in Flights \ {f, g} : flight'[x] = flight[x]
    BY <2>1, Slots DEF Kinds, StatusKinds
  <2>3. OneEach'
    BY <2>1, <2>2 DEF OneEach, BusyKinds, PanelKinds
  <2>4. (busy' <=> \E x \in Flights : flight'[x].kind \in BusyKinds)
        /\ (panelBusy' <=> \E x \in Flights : flight'[x].kind \in PanelKinds)
    BY <2>1, <2>2 DEF RequestTypes, BusyKinds, PanelKinds
  <2>5. f \in StatusFlights'
    BY <2>2 DEF StatusFlights, StatusKinds
  <2>6. clean' \in StatusFlights' \cup {None} /\ doubt' \in BOOLEAN
    BY <1>1, <2>5 DEF SaveAccessToken, Disturbed, RequestTypes
  <2> QED
    BY <2>1, <2>2, <2>3, <2>4, <2>6 DEF RequestTypes
<1>2. ASSUME NEW f \in Flights,
             RefreshCatalog(f) \/ LoadModel(f) \/ SendMessage(f) \/ PanelRefresh(f) \/ PanelLoadOrUnload(f)
      PROVE  RequestTypes' /\ OneEach'
  <2>1. PICK kind \in Kinds :
          /\ flight[f] = Free
          /\ flight' = [flight EXCEPT ![f] = Asked(kind)]
          /\ kind \in BusyKinds => ~ busy
          /\ kind \in PanelKinds => ~ panelBusy
          /\ busy' <=> busy \/ kind \in BusyKinds
          /\ panelBusy' <=> panelBusy \/ kind \in PanelKinds
          /\ IF kind \in StatusKinds THEN Disturbed(f) ELSE UNCHANGED history
          /\ UNCHANGED <<loaded, shown>>
    <3>1. CASE RefreshCatalog(f)
      <4>1. "models" \in Kinds \ (BusyKinds \cup PanelKinds \cup StatusKinds)
        BY DEF Kinds, BusyKinds, PanelKinds, StatusKinds
      <4> QED
        BY <3>1, <4>1 DEF RefreshCatalog
    <3>2. CASE LoadModel(f)
      <4>1. "load" \in (Kinds \cap BusyKinds \cap StatusKinds) \ PanelKinds
        BY DEF Kinds, BusyKinds, PanelKinds, StatusKinds
      <4> QED
        BY <3>2, <4>1 DEF LoadModel
    <3>3. CASE SendMessage(f)
      <4>1. "chat" \in (Kinds \cap BusyKinds) \ (PanelKinds \cup StatusKinds)
        BY DEF Kinds, BusyKinds, PanelKinds, StatusKinds
      <4> QED
        BY <3>3, <4>1 DEF SendMessage
    <3>4. CASE PanelRefresh(f)
      <4>1. "panel" \in (Kinds \cap StatusKinds) \ (PanelKinds \cup BusyKinds)
        BY DEF Kinds, BusyKinds, PanelKinds, StatusKinds
      <4> QED
        BY <3>4, <4>1 DEF PanelRefresh
    <3>5. CASE PanelLoadOrUnload(f)
      <4>1. {"panel load", "panel unload"} \subseteq (Kinds \cap StatusKinds \cap PanelKinds) \ BusyKinds
        BY DEF Kinds, BusyKinds, PanelKinds, StatusKinds
      <4> DEFINE kind == IF status = "loaded" THEN "panel unload" ELSE "panel load"
      <4>2. kind \in {"panel load", "panel unload"}
        OBVIOUS
      <4>3. /\ flight[f] = Free /\ ~ panelBusy /\ panelBusy' = TRUE
            /\ flight' = [flight EXCEPT ![f] = Asked(kind)]
            /\ Disturbed(f) /\ UNCHANGED <<loaded, shown, busy>>
        BY <3>5 DEF PanelLoadOrUnload
      <4> HIDE DEF kind
      <4> QED
        BY <4>1, <4>2, <4>3
    <3> QED
      BY <1>2, <3>1, <3>2, <3>3, <3>4, <3>5
  <2>2. /\ flight' \in [Flights -> FlightType]
        /\ busy' <=> \E x \in Flights : flight'[x].kind \in BusyKinds
        /\ panelBusy' <=> \E x \in Flights : flight'[x].kind \in PanelKinds
        /\ OneEach'
        /\ StatusFlights' = IF kind \in StatusKinds THEN StatusFlights \cup {f} ELSE StatusFlights
    BY <2>1, AskStep
  <2>3. clean' \in StatusFlights' \cup {None} /\ doubt' \in BOOLEAN
    BY <2>1, <2>2 DEF Disturbed, RequestTypes
  <2> QED
    BY <2>1, <2>2, <2>3 DEF RequestTypes
<1>3. ASSUME NEW f \in Flights, NEW r \in FlightType,
             \/ r.kind = flight[f].kind
             \/ flight[f].kind \in {"panel load", "panel unload"} /\ r.kind = "after",
             flight' = [flight EXCEPT ![f] = r],
             UNCHANGED <<shown, busy, panelBusy, history>>, loaded' \in BOOLEAN
      PROVE  RequestTypes' /\ OneEach'
  <2>1. /\ flight' \in [Flights -> FlightType]
        /\ busy' <=> \E x \in Flights : flight'[x].kind \in BusyKinds
        /\ panelBusy' <=> \E x \in Flights : flight'[x].kind \in PanelKinds
        /\ OneEach'
        /\ StatusFlights' = StatusFlights
    BY <1>3, GoOnStep
  <2> QED
    BY <1>3, <2>1 DEF RequestTypes
<1>4. ASSUME NEW f \in Flights, Serve(f)
      PROVE  RequestTypes' /\ OneEach'
  <2>1. loaded' \in BOOLEAN /\ UNCHANGED <<shown, busy, panelBusy, history>> /\ flight[f].kind \in Kinds
    BY <1>4 DEF Serve, RequestTypes, FlightType
  <2>2. PICK answer \in Answers(f) : flight' = [flight EXCEPT ![f] = answer]
    BY <1>4 DEF Serve
  <2>3. answer \in FlightType /\ answer.kind = flight[f].kind
    BY <2>1, AnswerOf
  <2> QED
    BY <1>3, <2>1, <2>2, <2>3
<1>5. ASSUME NEW f \in Flights, Fail(f)
      PROVE  RequestTypes' /\ OneEach'
  <2>1. flight[f].kind \in Kinds /\ loaded' \in BOOLEAN
        /\ flight' = [flight EXCEPT ![f] = [Asked(flight[f].kind) EXCEPT !.state = "failed"]]
        /\ UNCHANGED <<shown, busy, panelBusy, history>>
    BY <1>5 DEF Fail, RequestTypes, FlightType
  <2> DEFINE r == [Asked(flight[f].kind) EXCEPT !.state = "failed"]
  <2>2. r \in FlightType /\ r.kind = flight[f].kind
    BY <2>1, Slots
  <2> HIDE DEF r
  <2>3. flight' = [flight EXCEPT ![f] = r]
    BY <2>1 DEF r
  <2> QED
    BY <1>3, <2>1, <2>2, <2>3
<1>6. ASSUME NEW f \in Flights, ApplyPanelCall(f), flight' = [flight EXCEPT ![f] = Asked("after")],
             UNCHANGED <<panelBusy, history>>
      PROVE  RequestTypes' /\ OneEach'
  <2>1. Asked("after") \in FlightType /\ Asked("after").kind = "after"
    BY Slots DEF Kinds, StatusKinds
  <2>2. flight[f].kind \in {"panel load", "panel unload"} /\ UNCHANGED <<loaded, shown, busy>>
    BY <1>6 DEF ApplyPanelCall
  <2>3. loaded' \in BOOLEAN
    BY <2>2 DEF RequestTypes
  <2> QED
    BY <1>3, <1>6, <2>1, <2>2, <2>3
<1>7. ASSUME NEW f \in Flights, Done(f),
             busy' <=> busy /\ flight[f].kind \notin BusyKinds,
             panelBusy' <=> panelBusy /\ flight[f].kind \notin PanelKinds,
             \/ clean' = IF clean = f THEN None ELSE clean
             \/ clean' = clean /\ flight[f].kind \notin StatusKinds,
             loaded' = loaded, catalog' \in BOOLEAN, ready' \in BOOLEAN, doubt' \in BOOLEAN,
             status' \in {"checking", "loaded", "not_loaded", "error"}
      PROVE  RequestTypes' /\ OneEach'
  <2>1. /\ flight' \in [Flights -> FlightType]
        /\ busy' <=> \E x \in Flights : flight'[x].kind \in BusyKinds
        /\ panelBusy' <=> \E x \in Flights : flight'[x].kind \in PanelKinds
        /\ OneEach'
        /\ StatusFlights' = StatusFlights \ {f}
    BY <1>7, DoneStep
  <2>2. flight[f].kind \notin StatusKinds => f \notin StatusFlights
    BY DEF StatusFlights
  <2>3. clean' \in StatusFlights' \cup {None}
    BY <1>7, <2>1, <2>2 DEF RequestTypes
  <2> QED
    BY <1>7, <2>1, <2>3 DEF RequestTypes
<1>8. ASSUME NEW f \in Flights, ApplyHealth(f) \/ ApplyModels(f) \/ ApplyLoad(f) \/ ApplyChat(f) \/ ApplyPanel(f)
      PROVE  RequestTypes' /\ OneEach'
  <2>1. flight[f].remote \in BOOLEAN /\ StatusOf(flight[f]) \in {"loaded", "not_loaded"}
    BY DEF RequestTypes, FlightType, StatusOf
  <2>2. flight[f].kind \in BusyKinds => busy
    BY DEF RequestTypes
  <2>3. flight[f].kind \in PanelKinds => panelBusy
    BY DEF RequestTypes
  <2>4. CASE ApplyHealth(f)
    BY <1>7, <2>1, <2>4 DEF ApplyHealth, Settled, Unsettled, RequestTypes, BusyKinds, PanelKinds
  <2>5. CASE ApplyModels(f)
    BY <1>7, <2>1, <2>5 DEF ApplyModels, RequestTypes, BusyKinds, PanelKinds, StatusKinds
  <2>6. CASE ApplyLoad(f)
    BY <1>7, <2>1, <2>2, <2>6 DEF ApplyLoad, Settled, Unsettled, RequestTypes, BusyKinds, PanelKinds
  <2>7. CASE ApplyChat(f)
    BY <1>7, <2>1, <2>2, <2>7 DEF ApplyChat, RequestTypes, BusyKinds, PanelKinds, StatusKinds
  <2>8. CASE ApplyPanel(f)
    BY <1>7, <2>1, <2>3, <2>8 DEF ApplyPanel, Settled, Unsettled, RequestTypes, BusyKinds, PanelKinds
  <2> QED
    BY <1>8, <2>4, <2>5, <2>6, <2>7, <2>8
<1>9. ASSUME NEW f \in Flights, ApplyPanelCall(f)
      PROVE  RequestTypes' /\ OneEach'
  <2>1. CASE flight' = [flight EXCEPT ![f] = Asked("after")] /\ UNCHANGED <<panelBusy, history>>
    BY <1>6, <1>9, <2>1
  <2>2. CASE Done(f) /\ panelBusy' = FALSE /\ Unsettled(f)
    BY <1>7, <1>9, <2>2 DEF ApplyPanelCall, Unsettled, RequestTypes, BusyKinds, PanelKinds
  <2> QED
    BY <1>9, <2>1, <2>2 DEF ApplyPanelCall
<1>10. CASE Type \/ Clear
  BY <1>10 DEF Type, Clear, RequestTypes, OneEach, StatusFlights
<1>11. CASE Change
  BY <1>11 DEF Change, RequestTypes, OneEach, StatusFlights
<1> QED
  BY <1>1, <1>2, <1>4, <1>5, <1>8, <1>9, <1>10, <1>11 DEF Next, Apply

-----------------------------------------------------------------------------
(* The conversation.                                                       *)

\* What leaves the conversation and its request alone keeps what is known of them.
LEMMA ChatKept ==
  ASSUME ChatTypes, ChatInv, UNCHANGED chat,
         \A x \in Flights : flight'[x].kind = "chat" \/ flight[x].kind = "chat" => flight'[x] = flight[x]
  PROVE  ChatTypes' /\ ChatInv'
<1>1. UNCHANGED <<messages, input, turns, sent, previous>>
  BY DEF chat
<1>2. Chatting' <=> Chatting
  BY DEF Chatting
<1>3. ChatTypes'
  BY <1>1 DEF ChatTypes
<1>4. \A x \in Flights : flight'[x].kind = "chat" /\ flight'[x].state = "answered"
                           => flight'[x].reply \in {"assistant", "empty"}
  BY DEF ChatInv
<1> QED
  BY <1>1, <1>2, <1>3, <1>4 DEF ChatInv, Recent

\* While a chat is under way: the question it ends with.
LEMMA Asking ==
  ASSUME ChatTypes, ChatInv, Chatting
  PROVE  /\ messages = sent
         /\ Paired(previous)
         /\ \E n \in 1..turns :
              /\ sent = Recent(Append(previous, [by |-> "user", turn |-> n]))
              /\ sent \in Seq(Message)
              /\ Len(sent) \in 1..MaxMessages
              /\ Last(sent) = [by |-> "user", turn |-> n]
<1>1. PICK n \in 1..turns : sent = Recent(Append(previous, [by |-> "user", turn |-> n]))
  BY DEF ChatInv
<1>2. n \in Nat \ {0}
  BY DEF ChatTypes
<1>3. Paired(previous) /\ messages = sent
  BY DEF ChatInv
<1>4. sent \in Seq(Message) /\ Len(sent) \in 1..MaxMessages /\ sent[Len(sent)] = [by |-> "user", turn |-> n]
  BY <1>1, <1>2, <1>3, Question
<1> QED
  BY <1>1, <1>3, <1>4 DEF Last

LEMMA ChatInit == Init => ChatTypes /\ ChatInv
<1> SUFFICES ASSUME Init
             PROVE  ChatTypes /\ ChatInv
  OBVIOUS
<1>1. /\ messages = <<>> /\ sent = <<>> /\ previous = <<>> /\ input = 0 /\ turns = 0
      /\ \A x \in Flights : flight[x].kind # "chat"
  BY DEF Init, Free, Asked
<1>2. Paired(<<>>)
  BY FrontendAssumption DEF Paired
<1> QED
  BY <1>1, <1>2 DEF ChatTypes, ChatInv, Chatting

\* Every step keeps the conversation made of questions and their replies.
LEMMA ChatNext ==
  ASSUME RequestTypes, OneEach, ChatTypes, ChatInv, Next
  PROVE  ChatTypes' /\ ChatInv'
<1>0. flight \in [Flights -> FlightType]
  BY DEF RequestTypes
<1>1. ASSUME NEW f \in Flights, NEW g \in Flights, SaveAccessToken(f, g)
      PROVE  ChatTypes' /\ ChatInv'
  <2>1. /\ flight[f] = Free /\ flight[g] = Free /\ f # g /\ UNCHANGED chat
        /\ flight' = [flight EXCEPT ![f] = Asked("health"), ![g] = Asked("models")]
    BY <1>1 DEF SaveAccessToken
  <2>2. Free.kind = "none" /\ Asked("health").kind = "health" /\ Asked("models").kind = "models"
    BY DEF Free, Asked
  <2>3. \A x \in Flights : flight'[x].kind = "chat" \/ flight[x].kind = "chat" => flight'[x] = flight[x]
    BY <1>0, <2>1, <2>2
  <2> QED
    BY <2>1, <2>3, ChatKept
<1>2. ASSUME NEW f \in Flights,
             RefreshCatalog(f) \/ LoadModel(f) \/ PanelRefresh(f) \/ PanelLoadOrUnload(f)
      PROVE  ChatTypes' /\ ChatInv'
  <2>1. PICK kind \in {"models", "load", "panel", "panel load", "panel unload"} :
          flight[f] = Free /\ flight' = [flight EXCEPT ![f] = Asked(kind)] /\ UNCHANGED chat
    BY <1>2 DEF RefreshCatalog, LoadModel, PanelRefresh, PanelLoadOrUnload
  <2>2. Free.kind = "none" /\ Asked(kind).kind = kind
    BY DEF Free, Asked
  <2>3. \A x \in Flights : flight'[x].kind = "chat" \/ flight[x].kind = "chat" => flight'[x] = flight[x]
    BY <1>0, <2>1, <2>2
  <2> QED
    BY <2>1, <2>3, ChatKept
<1>3. ASSUME NEW f \in Flights, SendMessage(f)
      PROVE  ChatTypes' /\ ChatInv'
  <2> DEFINE q == [by |-> "user", turn |-> input]
  <2>1. /\ ~ Chatting /\ input \in 1..turns /\ input \in Nat \ {0} /\ turns \in Nat
        /\ messages' = Recent(Append(messages, q)) /\ sent' = Recent(Append(messages, q))
        /\ previous' = messages /\ input' = 0 /\ turns' = turns
        /\ flight' = [flight EXCEPT ![f] = Asked("chat")]
    BY <1>3 DEF SendMessage, Chatting, RequestTypes, BusyKinds, ChatTypes
  <2>2. Paired(messages)
    BY <2>1 DEF ChatInv
  <2>3. Recent(Append(messages, q)) \in Seq(Message)
    BY <2>1, <2>2, Question
  <2> HIDE DEF q
  <2>4. ChatTypes'
    BY <2>1, <2>2, <2>3 DEF ChatTypes, Paired
  <2>5. flight'[f].kind = "chat" /\ flight'[f].state = "asked" /\ \A x \in Flights \ {f} : flight'[x] = flight[x]
    BY <1>0, <2>1, Slots DEF Kinds
  <2>6. Chatting'
    BY <2>5 DEF Chatting
  <2>7. Paired(previous) '
    BY <2>1, <2>2 DEF Paired
  <2>8. (\E n \in 1..turns : sent = Recent(Append(previous, [by |-> "user", turn |-> n])))'
    BY <2>1 DEF q, Recent
  <2>9. \A x \in Flights : flight'[x].kind = "chat" /\ flight'[x].state = "answered"
                             => flight'[x].reply \in {"assistant", "empty"}
    BY <2>5 DEF ChatInv
  <2> QED
    BY <2>1, <2>4, <2>6, <2>7, <2>8, <2>9 DEF ChatInv
<1>4. ASSUME NEW f \in Flights, NEW r,
             flight' = [flight EXCEPT ![f] = r], r.kind = flight[f].kind, UNCHANGED chat,
             r.kind = "chat" /\ r.state = "answered" => r.reply \in {"assistant", "empty"}
      PROVE  ChatTypes' /\ ChatInv'
  <2>1. UNCHANGED <<messages, input, turns, sent, previous>>
    BY <1>4 DEF chat
  <2>2. flight'[f] = r /\ \A x \in Flights \ {f} : flight'[x] = flight[x]
    BY <1>0, <1>4
  <2>3. Chatting' <=> Chatting
    BY <1>4, <2>2 DEF Chatting
  <2>4. \A x \in Flights : flight'[x].kind = "chat" /\ flight'[x].state = "answered"
                             => flight'[x].reply \in {"assistant", "empty"}
    BY <1>4, <2>2 DEF ChatInv
  <2>5. ChatTypes'
    BY <2>1 DEF ChatTypes
  <2> QED
    BY <2>1, <2>3, <2>4, <2>5 DEF ChatInv, Recent
<1>5. ASSUME NEW f \in Flights, Serve(f)
      PROVE  ChatTypes' /\ ChatInv'
  <2>1. PICK answer \in Answers(f) : flight' = [flight EXCEPT ![f] = answer]
    BY <1>5 DEF Serve
  <2>2. flight[f].kind \in Kinds /\ loaded' \in BOOLEAN /\ UNCHANGED chat
    BY <1>5 DEF Serve, RequestTypes, FlightType
  <2>3. answer.kind = flight[f].kind /\ (answer.kind = "chat" => answer.reply \in {"assistant", "empty"})
    BY <2>2, AnswerOf
  <2> QED
    BY <1>4, <2>1, <2>2, <2>3
<1>6. ASSUME NEW f \in Flights, Fail(f)
      PROVE  ChatTypes' /\ ChatInv'
  <2> DEFINE r == [Asked(flight[f].kind) EXCEPT !.state = "failed"]
  <2>1. flight' = [flight EXCEPT ![f] = r] /\ UNCHANGED chat
    BY <1>6 DEF Fail
  <2>2. r.kind = flight[f].kind /\ r.state # "answered"
    BY DEF Asked, Free
  <2> HIDE DEF r
  <2> QED
    BY <1>4, <2>1, <2>2
<1>7. ASSUME NEW f \in Flights, ApplyHealth(f) \/ ApplyModels(f) \/ ApplyLoad(f) \/ ApplyPanel(f)
      PROVE  ChatTypes' /\ ChatInv'
  <2>1. flight[f].kind # "chat" /\ flight' = [flight EXCEPT ![f] = Free] /\ UNCHANGED chat
    BY <1>7 DEF ApplyHealth, ApplyModels, ApplyLoad, ApplyPanel, Done
  <2> QED
    BY <1>0, <2>1, Slots, ChatKept
<1>8. ASSUME NEW f \in Flights, ApplyPanelCall(f)
      PROVE  ChatTypes' /\ ChatInv'
  <2>1. /\ flight[f].kind # "chat" /\ UNCHANGED chat
        /\ \/ flight' = [flight EXCEPT ![f] = Free]
           \/ flight' = [flight EXCEPT ![f] = Asked("after")]
    BY <1>8 DEF ApplyPanelCall, Done
  <2>2. Asked("after").kind = "after" /\ Free.kind = "none"
    BY DEF Asked, Free
  <2> QED
    BY <1>0, <2>1, <2>2, ChatKept
<1>9. ASSUME NEW f \in Flights, ApplyChat(f)
      PROVE  ChatTypes' /\ ChatInv'
  <2>1. Chatting /\ flight[f].kind = "chat" /\ Done(f)
    BY <1>9 DEF ApplyChat, Chatting
  <2>2. \A x \in Flights : flight'[x].kind # "chat"
    BY <1>0, <2>1, Slots DEF Done, OneEach, BusyKinds
  <2>3. PICK n \in 1..turns :
          /\ sent = Recent(Append(previous, [by |-> "user", turn |-> n]))
          /\ Last(sent) = [by |-> "user", turn |-> n]
          /\ messages = sent /\ Paired(previous)
    BY <2>1, Asking
  <2>4. n \in Nat \ {0} /\ turns \in Nat /\ Last(sent).turn = n
    BY <2>3 DEF ChatTypes
  <2>5. /\ turns' = turns /\ sent' = <<>> /\ previous' = <<>>
        /\ \/ /\ flight[f].state = "answered" /\ input' = input
              /\ messages' = Recent(Append(messages, [by |-> flight[f].reply, turn |-> Last(sent).turn]))
           \/ messages' = previous /\ input' = n
    BY <1>9, <2>4 DEF ApplyChat
  <2>6. Paired(messages')
    <3>1. CASE messages' = previous
      BY <2>3, <3>1
    <3>2. CASE /\ flight[f].state = "answered"
               /\ messages' = Recent(Append(messages, [by |-> flight[f].reply, turn |-> Last(sent).turn]))
      <4>1. flight[f].reply \in {"assistant", "empty"}
        BY <2>1, <3>2 DEF ChatInv
      <4>2. messages' = Recent(Append(sent, [by |-> flight[f].reply, turn |-> n]))
        BY <2>3, <2>4, <3>2
      <4> QED
        BY <2>3, <2>4, <4>1, <4>2, Reply
    <3> QED
      BY <2>5, <3>1, <3>2
  <2>7. ChatTypes'
    BY <2>4, <2>5, <2>6 DEF ChatTypes, Paired
  <2>8. (Paired(messages))'
    BY <2>6 DEF Paired
  <2> QED
    BY <2>2, <2>7, <2>8 DEF ChatInv, Chatting
<1>10. CASE Type
  <2>1. /\ turns' = turns + 1 /\ input' = turns + 1
        /\ UNCHANGED <<flight, messages, sent, previous>> /\ turns \in Nat
    BY <1>10 DEF Type, ChatTypes
  <2>2. 1..turns \subseteq 1..turns'
    BY <2>1
  <2>3. ChatTypes'
    BY <2>1 DEF ChatTypes
  <2>4. Chatting' <=> Chatting
    BY <2>1 DEF Chatting
  <2> QED
    BY <2>1, <2>2, <2>3, <2>4 DEF ChatInv, Recent, Paired
<1>11. CASE Clear
  <2>1. /\ ~ Chatting /\ messages' = <<>>
        /\ UNCHANGED <<flight, input, turns, sent, previous>>
    BY <1>11 DEF Clear, Chatting, RequestTypes, BusyKinds
  <2>2. Paired(<<>>)
    BY FrontendAssumption DEF Paired
  <2>3. ChatTypes' /\ ~ Chatting'
    BY <2>1 DEF ChatTypes, Chatting
  <2>4. (Paired(messages))'
    BY <2>1, <2>2 DEF Paired
  <2> QED
    BY <2>1, <2>3, <2>4 DEF ChatInv
<1>12. CASE Change
  BY <1>12, ChatKept DEF Change
<1> QED
  BY <1>1, <1>2, <1>3, <1>5, <1>6, <1>7, <1>8, <1>9, <1>10, <1>11, <1>12 DEF Next, Apply

-----------------------------------------------------------------------------
(* The status.                                                             *)

LEMMA StatusInit == Init => StatusInv
<1> SUFFICES ASSUME Init
             PROVE  StatusInv
  OBVIOUS
<1>1. PICK f \in Flights, g \in Flights :
        /\ f # g
        /\ flight = [x \in Flights |-> IF x = f THEN Asked("health")
                                       ELSE IF x = g THEN Asked("models") ELSE Free]
        /\ clean = f
  BY DEF Init
<1>2. \A x \in Flights : flight[x].kind = IF x = f THEN "health" ELSE IF x = g THEN "models" ELSE "none"
  BY <1>1 DEF Free, Asked
<1>3. StatusFlights = {f} /\ flight[f].state = "asked"
  BY <1>1, <1>2 DEF StatusFlights, StatusKinds, Free, Asked
<1> QED
  BY <1>1, <1>3 DEF Init, StatusInv, Truthful, StatusIsRight

\* A new request that will set the status is alone, or leaves it in doubt.
LEMMA NewStatusFlight ==
  ASSUME RequestTypes, NEW f \in Flights, Disturbed(f),
         StatusFlights' = StatusFlights \cup {f}, flight'[f].state = "asked"
  PROVE  StatusInv'
<1>1. f # None
  BY FrontendAssumption
<1>2. CASE StatusFlights = {}
  BY <1>1, <1>2 DEF Disturbed, StatusInv, Truthful, StatusIsRight
<1>3. CASE StatusFlights # {}
  BY <1>3 DEF Disturbed, StatusInv, Truthful, StatusIsRight
<1> QED
  BY <1>2, <1>3

\* Steps that neither change the model and the status nor touch the request that ran
\* alone, or only that it is asked again or has failed.
LEMMA StatusKept ==
  ASSUME RequestTypes, StatusInv, UNCHANGED <<loaded, status, history>>,
         StatusFlights' = StatusFlights,
         \A x \in StatusFlights : flight'[x] = flight[x] \/ flight'[x].state # "answered"
  PROVE  StatusInv'
<1>1. clean' = clean /\ doubt' = doubt /\ loaded' = loaded /\ status' = status
  BY DEF history
<1>2. clean # None => clean \in StatusFlights
  BY DEF RequestTypes
<1>3. ASSUME clean # None
      PROVE  Truthful(clean)'
  <2>0. loaded' <=> loaded
    BY <1>1 DEF RequestTypes
  <2>1. Truthful(clean)
    BY <1>3 DEF StatusInv
  <2>2. flight'[clean'] = flight[clean] \/ flight'[clean'].state # "answered"
    BY <1>1, <1>2, <1>3
  <2>3. CASE flight'[clean'].state # "answered"
    BY <2>3 DEF Truthful
  <2>4. CASE flight'[clean'] = flight[clean]
    <3>1. CASE flight[clean].kind \in {"load", "panel load"}
      BY <1>1, <2>0, <2>1, <2>4, <3>1 DEF Truthful
    <3>2. CASE flight[clean].kind = "panel unload"
      BY <1>1, <2>0, <2>1, <2>4, <3>2 DEF Truthful
    <3>3. CASE flight[clean].kind \notin {"load", "panel load", "panel unload"}
      BY <1>1, <2>1, <2>4, <3>3 DEF Truthful
    <3> QED
      BY <3>1, <3>2, <3>3
  <2> QED
    BY <2>2, <2>3, <2>4
<1> QED
  BY <1>1, <1>3 DEF StatusInv, StatusIsRight

\* A request that sets the status is over.
LEMMA StatusSet ==
  ASSUME RequestTypes, StatusInv, NEW f \in StatusFlights,
         StatusFlights' = StatusFlights \ {f}, loaded' = loaded,
         \/ Unsettled(f)
         \/ Settled(f) /\ flight[f].state = "answered"
            /\ (Truthful(f) => status' = IF loaded THEN "loaded" ELSE "not_loaded")
  PROVE  StatusInv'
<1>1. f \in Flights /\ f # None
  BY FrontendAssumption DEF StatusFlights
<1>2. CASE clean = f
  <2>1. StatusFlights' = {} /\ clean' = None /\ Truthful(f)
    BY <1>1, <1>2 DEF StatusInv, Settled, Unsettled
  <2> QED
    BY <1>2, <2>1 DEF StatusInv, StatusIsRight, Settled, Unsettled
<1>3. CASE clean # f
  <2>1. clean = None
    BY <1>3 DEF StatusInv
  <2>2. doubt
    BY <2>1 DEF StatusInv, RequestTypes
  <2> QED
    BY <1>3, <2>1, <2>2 DEF StatusInv, StatusIsRight, Settled, Unsettled
<1> QED
  BY <1>2, <1>3

LEMMA StatusNext ==
  ASSUME RequestTypes, OneEach, StatusInv, Next
  PROVE  StatusInv'
<1> USE DEF shown, chat, history
<1>0. flight \in [Flights -> FlightType]
  BY DEF RequestTypes
<1>1. ASSUME NEW f \in Flights, NEW g \in Flights, SaveAccessToken(f, g)
      PROVE  StatusInv'
  <2>1. /\ f # g /\ flight[f].kind = "none" /\ flight[g].kind = "none"
        /\ flight' = [flight EXCEPT ![f] = Asked("health"), ![g] = Asked("models")]
        /\ Disturbed(f)
    BY <1>1, Slots DEF SaveAccessToken
  <2>2. /\ flight'[f].kind = "health" /\ flight'[f].state = "asked" /\ flight'[g].kind = "models"
        /\ \A x \in Flights \ {f, g} : flight'[x] = flight[x]
    BY <1>0, <2>1, Slots DEF Kinds, StatusKinds
  <2>3. StatusFlights' = StatusFlights \cup {f}
    BY <2>1, <2>2 DEF StatusFlights, StatusKinds
  <2> QED
    BY <2>1, <2>2, <2>3, NewStatusFlight
<1>2. ASSUME NEW f \in Flights, LoadModel(f) \/ PanelRefresh(f) \/ PanelLoadOrUnload(f)
      PROVE  StatusInv'
  <2>1. PICK kind \in {"load", "panel", "panel load", "panel unload"} :
          flight[f] = Free /\ flight' = [flight EXCEPT ![f] = Asked(kind)] /\ Disturbed(f)
    BY <1>2 DEF LoadModel, PanelRefresh, PanelLoadOrUnload
  <2>2. kind \in Kinds /\ kind \in StatusKinds
    BY DEF Kinds, StatusKinds
  <2>3. /\ flight'[f].kind = kind /\ flight'[f].state = "asked"
        /\ \A x \in Flights \ {f} : flight'[x] = flight[x]
    BY <1>0, <2>1, <2>2, Slots
  <2>4. StatusFlights' = StatusFlights \cup {f}
    BY <2>2, <2>3 DEF StatusFlights
  <2> QED
    BY <2>1, <2>3, <2>4, NewStatusFlight
<1>3. ASSUME NEW f \in Flights, RefreshCatalog(f) \/ SendMessage(f)
      PROVE  StatusInv'
  <2>1. PICK kind \in {"models", "chat"} :
          /\ flight[f] = Free /\ flight' = [flight EXCEPT ![f] = Asked(kind)]
          /\ UNCHANGED <<loaded, status, history>>
    BY <1>3 DEF RefreshCatalog, SendMessage
  <2>2. kind \in Kinds /\ kind \notin StatusKinds /\ flight[f].kind \notin StatusKinds
    BY <2>1, Slots DEF Kinds, StatusKinds
  <2>3. flight'[f].kind = kind /\ \A x \in Flights \ {f} : flight'[x] = flight[x]
    BY <1>0, <2>1, <2>2, Slots
  <2>4. StatusFlights' = StatusFlights /\ \A x \in StatusFlights : flight'[x] = flight[x]
    BY <2>2, <2>3 DEF StatusFlights
  <2> QED
    BY <2>1, <2>4, StatusKept
<1>4. ASSUME NEW f \in Flights, Serve(f)
      PROVE  StatusInv'
  <2>1. PICK answer \in Answers(f) : flight' = [flight EXCEPT ![f] = answer]
    BY <1>4 DEF Serve
  <2>2. /\ loaded' = CASE flight[f].kind \in {"load", "panel load"} -> TRUE
                       [] flight[f].kind = "panel unload" -> FALSE
                       [] OTHER -> loaded
        /\ UNCHANGED <<status, history>> /\ flight[f].kind \in Kinds
    BY <1>4 DEF Serve, RequestTypes, FlightType
  <2>3. loaded' \in BOOLEAN
    BY <2>2 DEF RequestTypes
  <2>4. /\ answer.kind = flight[f].kind
        /\ answer.kind \in {"health", "panel", "after"} => answer.loaded = loaded'
    BY <2>2, <2>3, AnswerOf
  <2>5. flight'[f] = answer /\ \A x \in Flights \ {f} : flight'[x] = flight[x]
    BY <1>0, <2>1
  <2>6. StatusFlights' = StatusFlights
    BY <2>4, <2>5 DEF StatusFlights
  <2>7. CASE f \notin StatusFlights
    <3>1. loaded' = loaded
      BY <2>2, <2>7 DEF StatusFlights, StatusKinds
    <3>2. \A x \in StatusFlights : flight'[x] = flight[x]
      BY <2>5, <2>7 DEF StatusFlights
    <3> QED
      BY <2>2, <2>6, <3>1, <3>2, StatusKept
  <2>8. CASE f \in StatusFlights /\ clean = f
    <3>1. Truthful(f)'
      <4>1. CASE flight[f].kind \in {"load", "panel load"}
        BY <2>2, <2>4, <2>5, <4>1 DEF Truthful
      <4>2. CASE flight[f].kind = "panel unload"
        BY <2>2, <2>4, <2>5, <4>2 DEF Truthful
      <4>3. CASE flight[f].kind \in {"health", "panel", "after"}
        BY <2>2, <2>4, <2>5, <4>3 DEF Truthful
      <4> QED
        BY <2>8, <4>1, <4>2, <4>3 DEF StatusFlights, StatusKinds
    <3>2. StatusFlights = {f} /\ clean' = f /\ doubt' = doubt
      BY <2>2, <2>8, FrontendAssumption DEF StatusInv
    <3> QED
      BY <2>6, <3>1, <3>2 DEF StatusInv, StatusIsRight
  <2>9. CASE f \in StatusFlights /\ clean # f
    <3>1. clean = None /\ doubt
      BY <2>9 DEF StatusInv, RequestTypes
    <3> QED
      BY <2>2, <3>1 DEF StatusInv, StatusIsRight
  <2> QED
    BY <2>7, <2>8, <2>9
<1>5. ASSUME NEW f \in Flights, Fail(f)
      PROVE  StatusInv'
  <2> DEFINE r == [Asked(flight[f].kind) EXCEPT !.state = "failed"]
  <2>1. flight' = [flight EXCEPT ![f] = r] /\ UNCHANGED <<loaded, status, history>>
    BY <1>5 DEF Fail
  <2>2. r.kind = flight[f].kind /\ r.state # "answered"
    BY DEF Asked, Free
  <2> HIDE DEF r
  <2>3. flight'[f] = r /\ \A x \in Flights \ {f} : flight'[x] = flight[x]
    BY <1>0, <2>1
  <2>4. StatusFlights' = StatusFlights
    BY <2>2, <2>3 DEF StatusFlights
  <2>5. \A x \in StatusFlights : flight'[x] = flight[x] \/ flight'[x].state # "answered"
    BY <2>2, <2>3 DEF StatusFlights
  <2> QED
    BY <2>1, <2>4, <2>5, StatusKept
<1>6. ASSUME NEW f \in Flights, Done(f)
      PROVE  /\ StatusFlights' = StatusFlights \ {f}
             /\ \A x \in Flights \ {f} : flight'[x] = flight[x]
  BY <1>0, <1>6, Slots DEF Done, StatusFlights, StatusKinds
<1>7. ASSUME NEW f \in Flights, ApplyModels(f) \/ ApplyChat(f)
      PROVE  StatusInv'
  <2>1. f \notin StatusFlights /\ Done(f) /\ UNCHANGED <<loaded, status, history>>
    BY <1>7 DEF ApplyModels, ApplyChat, StatusFlights, StatusKinds
  <2>2. StatusFlights' = StatusFlights /\ \A x \in StatusFlights : flight'[x] = flight[x]
    BY <1>6, <2>1 DEF StatusFlights
  <2> QED
    BY <2>1, <2>2, StatusKept
<1>8. ASSUME NEW f \in Flights, ApplyHealth(f) \/ ApplyLoad(f) \/ ApplyPanel(f)
      PROVE  StatusInv'
  <2>1. f \in StatusFlights /\ Done(f) /\ loaded' = loaded
    BY <1>8 DEF ApplyHealth, ApplyLoad, ApplyPanel, StatusFlights, StatusKinds
  <2>2. \/ Unsettled(f)
        \/ Settled(f) /\ flight[f].state = "answered"
           /\ (Truthful(f) => status' = IF loaded THEN "loaded" ELSE "not_loaded")
    <3>1. CASE ApplyHealth(f)
      BY <3>1 DEF ApplyHealth, Truthful, StatusOf
    <3>2. CASE ApplyLoad(f)
      BY <3>2 DEF ApplyLoad, Truthful
    <3>3. CASE ApplyPanel(f)
      BY <3>3 DEF ApplyPanel, Truthful, StatusOf
    <3> QED
      BY <1>8, <3>1, <3>2, <3>3
  <2> QED
    BY <1>6, <2>1, <2>2, StatusSet
<1>9. ASSUME NEW f \in Flights, ApplyPanelCall(f)
      PROVE  StatusInv'
  <2>1. f \in StatusFlights /\ flight[f].kind \in StatusKinds /\ loaded' = loaded /\ status' = status
    BY <1>9 DEF ApplyPanelCall, StatusFlights, StatusKinds
  <2>2. CASE flight' = [flight EXCEPT ![f] = Asked("after")] /\ UNCHANGED history
    <3>1. Asked("after").kind = "after" /\ Asked("after").state = "asked" /\ "after" \in StatusKinds
      BY DEF Asked, Free, StatusKinds
    <3>2. flight'[f] = Asked("after") /\ \A x \in Flights \ {f} : flight'[x] = flight[x]
      BY <1>0, <2>2
    <3>3. StatusFlights' = StatusFlights
      BY <2>1, <3>1, <3>2 DEF StatusFlights
    <3>4. \A x \in StatusFlights : flight'[x] = flight[x] \/ flight'[x].state # "answered"
      BY <3>1, <3>2 DEF StatusFlights
    <3> QED
      BY <2>1, <2>2, <3>3, <3>4, StatusKept
  <2>3. CASE Done(f) /\ Unsettled(f)
    BY <1>6, <2>1, <2>3, StatusSet
  <2> QED
    BY <1>9, <2>2, <2>3 DEF ApplyPanelCall
<1>10. CASE Type \/ Clear
  <2>1. UNCHANGED <<loaded, status, history, flight>>
    BY <1>10 DEF Type, Clear
  <2>2. StatusFlights' = StatusFlights
    BY <2>1 DEF StatusFlights
  <2> QED
    BY <2>1, <2>2, StatusKept
<1>11. CASE Change
  BY <1>11 DEF Change, StatusInv, StatusIsRight
<1> QED
  BY <1>1, <1>2, <1>3, <1>4, <1>5, <1>7, <1>8, <1>9, <1>10, <1>11 DEF Next, Apply

-----------------------------------------------------------------------------
(* The results.                                                            *)

\* The inductive invariant: it holds at first and every step keeps it.
THEOREM Invariance == Spec => []FrontendInv
<1>1. Init => FrontendInv
  BY RequestsInit, ChatInit, StatusInit, TypeParts DEF FrontendInv
<1>2. FrontendInv /\ [Next]_vars => FrontendInv'
  <2> SUFFICES ASSUME FrontendInv, [Next]_vars
               PROVE  FrontendInv'
    OBVIOUS
  <2>1. RequestTypes /\ ChatTypes
    BY TypeParts DEF FrontendInv
  <2>2. CASE Next
    <3>1. RequestTypes' /\ OneEach' /\ ChatTypes' /\ ChatInv' /\ StatusInv'
      BY <2>1, <2>2, RequestsNext, ChatNext, StatusNext DEF FrontendInv
    <3>2. TypeOK'
      BY <3>1 DEF TypeOK, RequestTypes, ChatTypes, FlightType, States, BusyKinds, PanelKinds
    <3> QED
      BY <3>1, <3>2 DEF FrontendInv
  <2>3. CASE UNCHANGED vars
    <3>1. UNCHANGED <<loaded, flight, status, catalog, ready, busy, panelBusy, messages, input,
                      turns, sent, previous, clean, doubt>>
      BY <2>3 DEF vars, shown, chat, history
    <3>2. StatusFlights' = StatusFlights
      BY <3>1 DEF StatusFlights
    <3>3. TypeOK'
      BY <3>1, <3>2 DEF FrontendInv, TypeOK
    <3>4. OneEach'
      BY <3>1 DEF FrontendInv, OneEach
    <3>5. ChatInv'
      BY <3>1 DEF FrontendInv, ChatInv, Chatting, Paired, Recent
    <3>6. StatusInv'
      BY <3>1, <3>2 DEF FrontendInv, StatusInv, StatusIsRight, Truthful
    <3> QED
      BY <3>3, <3>4, <3>5, <3>6 DEF FrontendInv
  <2> QED
    BY <2>2, <2>3
<1> QED
  BY <1>1, <1>2, PTL DEF Spec

\* The type of every variable; each flag is up exactly as long as its one request.
THEOREM TypeCorrectness == Spec => []TypeOK
<1>1. FrontendInv => TypeOK
  BY DEF FrontendInv
<1> QED
  BY <1>1, Invariance, PTL

\* Between chats every question is followed by its own reply, whatever failed before.
THEOREM QuestionsAreAnswered == Spec => []RepliesFollowQuestions
<1>1. FrontendInv => RepliesFollowQuestions
  <2> SUFFICES ASSUME FrontendInv, ~ busy
               PROVE  /\ Len(messages) % 2 = 0
                      /\ \A i \in DOMAIN messages : i % 2 = 1 => Pair(i)
    BY DEF RepliesFollowQuestions
  <2>1. ~ Chatting
    BY DEF FrontendInv, TypeOK, Chatting
  <2>2. Paired(messages)
    BY <2>1 DEF FrontendInv, ChatInv
  <2> QED
    BY <2>2 DEF Paired, Pair
<1> QED
  BY <1>1, Invariance, PTL

\* What is sent is what the screen shows, is within the number of messages that the
\* API takes, ends with the question and has no reply without its question but the
\* first of a full conversation.
THEOREM ConversationsSent == Spec => []SentConversation
<1>1. FrontendInv => SentConversation
  <2> SUFFICES ASSUME FrontendInv, Chatting
               PROVE  /\ messages = sent
                      /\ Len(sent) \in 1..MaxMessages
                      /\ Last(sent).by = "user"
                      /\ \A i \in DOMAIN sent : sent[i].by # "user" => Follows(sent, i)
    BY DEF SentConversation, Chatting, Follows
  <2>1. ChatTypes /\ ChatInv
    BY TypeParts DEF FrontendInv
  <2>2. messages = sent /\ Paired(previous)
    BY <2>1, Asking
  <2>3. PICK n \in 1..turns :
          /\ sent = Recent(Append(previous, [by |-> "user", turn |-> n]))
          /\ Len(sent) \in 1..MaxMessages
          /\ Last(sent) = [by |-> "user", turn |-> n]
    BY <2>1, Asking
  <2>4. n \in Nat \ {0}
    BY <2>1 DEF ChatTypes
  <2>5. \A i \in DOMAIN sent : sent[i].by # "user" => Follows(sent, i)
    BY <2>2, <2>3, <2>4, QuestionCut
  <2> QED
    BY <2>2, <2>3, <2>5
<1> QED
  BY <1>1, Invariance, PTL

\* The status on the screen is the server's unless requests overlapped or failed.
THEOREM StatusIsTrue == Spec => []StatusIsRight
<1>1. FrontendInv => StatusIsRight
  BY DEF FrontendInv, StatusInv
<1> QED
  BY <1>1, Invariance, PTL
=============================================================================
