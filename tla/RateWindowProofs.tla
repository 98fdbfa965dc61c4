-------------------------- MODULE RateWindowProofs --------------------------
(***************************************************************************)
(* What the fixed windows of RateWindow promise in real time, for any      *)
(* number of clients and any limit, window, store size and delay.          *)
(*                                                                         *)
(* None of the promises is inductive alone: a window knows a start and a   *)
(* count, and the promises are about the instants at which requests were   *)
(* admitted.  What every step preserves is that a count never exceeds the  *)
(* admissions since its start, that the order of the store is the order of *)
(* the last admissions, and that the windows of a client which was never   *)
(* evicted are paced: the first admissions of two of them are at least a   *)
(* window less the delay apart.                                            *)
(***************************************************************************)
EXTENDS RateWindow, WellFoundedInduction, FiniteSetTheorems, SequenceTheorems, TLAPS

\* A window less the delay.
Gap == Window - MaxDelay

AdmittedOf(c) ==
  {i \in DOMAIN requests : requests[i].client = c /\ requests[i].state = "admitted"}

Since(c, t) == {i \in AdmittedOf(c) : requests[i].at >= t}

\* A decision is not in the future, and a clock that waits is at most MaxDelay old.
Clocks ==
  \A i \in DOMAIN requests :
    LET r == requests[i] IN
    /\ r.at <= now
    /\ r.state = "stamped" => r.stamp <= now /\ now - r.stamp <= MaxDelay

\* The next turn is later than all that were given.
TurnsGiven == \A e \in windows : e.start <= now /\ e.turn < Turn

\* A window counts admissions since its start.
CountsAreReal == \A e \in windows : Cardinality(Since(e.client, e.start)) >= e.count

\* The order of the store is the order of the last admissions.
TurnsAreTimes ==
  \A d, e \in windows :
    e.turn < d.turn =>
      \A i \in AdmittedOf(e.client) : \E j \in AdmittedOf(d.client) : requests[j].at >= requests[i].at

\* The last window of c had its first admission at a and k in all: few requests
\* were admitted after a, and not many more in the gap before it.
LastWindow(c, a, k) ==
  /\ \A e \in windows : e.client = c => e.count = k /\ a <= e.start + MaxDelay
  /\ c \notin ClientsOf(windows) => a + Gap <= now
  /\ a <= now
  /\ \A t \in Int : t > a => Cardinality(Since(c, t)) <= k - 1
  /\ \A t \in Int : t > a - Gap => Cardinality(Since(c, t)) <= Limit - 1 + k

Paced == \A c \in Clients \ evicted : \E a \in Int, k \in 1..Limit : LastWindow(c, a, k)

RateInv ==
  /\ TypeOK
  /\ IsFiniteSet(windows)
  /\ Clocks
  /\ TurnsGiven
  /\ CountsAreReal
  /\ TurnsAreTimes
  /\ Paced
  /\ NoFalseRefusal
  /\ AdmissionsBounded

-----------------------------------------------------------------------------
(* Requests.                                                               *)

Request == [client : Clients, stamp : Nat, state : {"stamped", "admitted", "refused"}, at : Nat]

Typed ==
  /\ now \in Nat
  /\ windows \subseteq [client : Clients, start : Nat, count : 1..Limit, turn : Nat]
  /\ requests \in Seq(Request)
  /\ evicted \subseteq Clients

\* Every request is a record.
LEMMA RequestTyped ==
  ASSUME Typed
  PROVE  \A i \in DOMAIN requests : requests[i] \in Request
BY ElementOfSeq, LenProperties DEF Typed

\* The sets of requests are finite.
LEMMA IndexSets ==
  ASSUME NEW q \in Seq(Request)
  PROVE  /\ \A S \in SUBSET DOMAIN q : IsFiniteSet(S) /\ Cardinality(S) \in Nat
         /\ \A S \in SUBSET DOMAIN q : \A T \in SUBSET S : Cardinality(T) <= Cardinality(S)
         /\ \A S \in SUBSET DOMAIN q : \A i \in DOMAIN q \ S :
              Cardinality(S \cup {i}) = Cardinality(S) + 1
<1>1. DOMAIN q = 1..Len(q) /\ Len(q) \in Nat
  OBVIOUS
<1>2. IsFiniteSet(DOMAIN q)
  BY <1>1, FS_Interval
<1>3. ASSUME NEW S \in SUBSET DOMAIN q PROVE IsFiniteSet(S) /\ Cardinality(S) \in Nat
  BY <1>2, FS_Subset, FS_CardinalityType
<1>4. ASSUME NEW S \in SUBSET DOMAIN q, NEW T \in SUBSET S
      PROVE  Cardinality(T) <= Cardinality(S)
  BY <1>3, FS_Subset
<1>5. ASSUME NEW S \in SUBSET DOMAIN q, NEW i \in DOMAIN q \ S
      PROVE  Cardinality(S \cup {i}) = Cardinality(S) + 1
  BY <1>3, FS_AddElement
<1> QED
  BY <1>3, <1>4, <1>5

\* The sets that count admissions are such sets.
LEMMA FiniteRequests ==
  ASSUME Typed
  PROVE  /\ \A S \in SUBSET DOMAIN requests : Cardinality(S) \in Nat
         /\ \A S \in SUBSET DOMAIN requests : \A i \in DOMAIN requests \ S :
              Cardinality(S \cup {i}) = Cardinality(S) + 1
         /\ Turn \in Nat
         /\ \A c, t : Since(c, t) \subseteq DOMAIN requests
<1>1. /\ \A S \in SUBSET DOMAIN requests : IsFiniteSet(S) /\ Cardinality(S) \in Nat
      /\ \A S \in SUBSET DOMAIN requests : \A i \in DOMAIN requests \ S :
           Cardinality(S \cup {i}) = Cardinality(S) + 1
  BY IndexSets DEF Typed
<1>2. Turn \in Nat
  BY <1>1 DEF Turn
<1> QED
  BY <1>1, <1>2 DEF Since, AdmittedOf

\* What a decision leaves of the other requests.
LEMMA DecideKeeps ==
  ASSUME Typed, NEW i \in DOMAIN requests, NEW a \in {"admitted", "refused"}, Decide(i, a)
  PROVE  /\ now' = now
         /\ requests' \in Seq(Request)
         /\ DOMAIN requests' = DOMAIN requests
         /\ \A j \in DOMAIN requests : j # i => requests'[j] = requests[j]
         /\ requests'[i].client = requests[i].client
         /\ requests'[i].state = a
         /\ requests'[i].at = now
<1>1. requests[i] \in Request
  BY RequestTyped
<1>2. [requests[i] EXCEPT !.state = a, !.stamp = 0, !.at = now] \in Request
  BY <1>1 DEF Typed, Request
<1>3. requests' = [requests EXCEPT ![i] = [requests[i] EXCEPT !.state = a, !.stamp = 0, !.at = now]]
  BY DEF Decide
<1>4. requests' \in Seq(Request)
  BY <1>2, <1>3, ExceptSeq DEF Typed
<1>5. DOMAIN requests' = DOMAIN requests
  BY <1>3
<1>6. requests'[i] = [requests[i] EXCEPT !.state = a, !.stamp = 0, !.at = now]
  BY <1>3
<1> QED
  BY <1>1, <1>3, <1>4, <1>5, <1>6 DEF Decide, Request

\* An admission is one more since every instant up to now, for its client alone.
LEMMA AdmissionAdds ==
  ASSUME Typed, Clocks, NEW i \in DOMAIN requests, requests[i].state = "stamped",
         Decide(i, "admitted"), NEW c, c = requests[i].client
  PROVE  /\ \A d : d # c => AdmittedOf(d)' = AdmittedOf(d)
         /\ AdmittedOf(c)' = AdmittedOf(c) \cup {i}
         /\ \A t \in Int : \A d : d # c => Since(d, t)' = Since(d, t)
         /\ \A t \in Int : t <= now =>
              Cardinality(Since(c, t)') = Cardinality(Since(c, t)) + 1
         /\ \A t \in Int : t > now =>
              Since(c, t)' = {} /\ Since(c, t) = {}
         /\ Turn' = Turn + 1
<1>1. /\ now' = now
      /\ DOMAIN requests' = DOMAIN requests
      /\ \A j \in DOMAIN requests : j # i => requests'[j] = requests[j]
      /\ requests'[i].client = c /\ requests'[i].state = "admitted" /\ requests'[i].at = now
  BY DecideKeeps
<1>2. ASSUME NEW d, d # c PROVE AdmittedOf(d)' = AdmittedOf(d)
  BY <1>1, <1>2 DEF AdmittedOf
<1>3. AdmittedOf(c)' = AdmittedOf(c) \cup {i}
  BY <1>1 DEF AdmittedOf
<1>4. ASSUME NEW t \in Int, NEW d, d # c PROVE Since(d, t)' = Since(d, t)
  BY <1>1, <1>2, <1>4 DEF Since, AdmittedOf
<1>5. ASSUME NEW t \in Int, t <= now
      PROVE  Cardinality(Since(c, t)') = Cardinality(Since(c, t)) + 1
  <2>1. Since(c, t)' = Since(c, t) \cup {i}
    BY <1>1, <1>3, <1>5 DEF Since, AdmittedOf
  <2>2. i \notin Since(c, t)
    BY DEF Since, AdmittedOf
  <2> QED
    BY <2>1, <2>2, FiniteRequests
<1>6. ASSUME NEW t \in Int, t > now PROVE Since(c, t)' = {} /\ Since(c, t) = {}
  <2>1. \A j \in DOMAIN requests : requests[j].at \in Nat /\ requests[j].at <= now
    BY RequestTyped DEF Request, Clocks
  <2>2. \A j \in DOMAIN requests' : requests'[j].at \in Nat /\ requests'[j].at <= now
    BY <1>1, <2>1 DEF Typed
  <2> QED
    BY <2>1, <2>2, <1>6 DEF Since, AdmittedOf, Typed
<1>7. Turn' = Turn + 1
  <2> DEFINE S == {j \in DOMAIN requests : requests[j].state = "admitted"}
  <2>1. Turn' = Cardinality(S \cup {i})
    <3>1. {j \in DOMAIN requests' : requests'[j].state = "admitted"} = S \cup {i}
      BY <1>1
    <3> QED
      BY <3>1 DEF Turn
  <2>2. i \notin S
    OBVIOUS
  <2> QED
    BY <2>1, <2>2, FiniteRequests DEF Turn
<1> QED
  BY <1>2, <1>3, <1>4, <1>5, <1>6, <1>7

\* A step that admits nobody leaves the admissions as they are.
LEMMA NothingAdmitted ==
  ASSUME Typed,
         \/ UNCHANGED requests
         \/ \E c \in Clients : Stamp(c)
         \/ \E i \in DOMAIN requests : requests[i].state = "stamped" /\ Decide(i, "refused")
  PROVE  /\ \A c : AdmittedOf(c)' = AdmittedOf(c)
         /\ \A c, t : Since(c, t)' = Since(c, t)
         /\ \A i \in DOMAIN requests :
              i \in DOMAIN requests' /\ (requests[i].state # "stamped" => requests'[i] = requests[i])
         /\ Turn' = Turn
<1> DEFINE S == {j \in DOMAIN requests : requests[j].state = "admitted"}
<1>1. CASE UNCHANGED requests
  BY <1>1 DEF AdmittedOf, Since, Turn
<1>2. CASE \E c \in Clients : Stamp(c)
  <2>1. PICK c \in Clients :
          requests' = Append(requests, [client |-> c, stamp |-> now, state |-> "stamped", at |-> now])
    BY <1>2 DEF Stamp
  <2>2. /\ DOMAIN requests' = DOMAIN requests \cup {Len(requests) + 1}
        /\ \A j \in DOMAIN requests : requests'[j] = requests[j]
        /\ requests'[Len(requests) + 1].state = "stamped"
    BY <2>1 DEF Typed
  <2>3. {j \in DOMAIN requests' : requests'[j].state = "admitted"} = S
    BY <2>2
  <2>4. \A d : AdmittedOf(d)' = AdmittedOf(d)
    BY <2>2 DEF AdmittedOf
  <2>5. \A d, t : Since(d, t)' = Since(d, t)
    BY <2>2, <2>4 DEF Since, AdmittedOf
  <2> QED
    BY <2>2, <2>3, <2>4, <2>5 DEF Turn
<1>3. CASE \E i \in DOMAIN requests : requests[i].state = "stamped" /\ Decide(i, "refused")
  <2>1. PICK i \in DOMAIN requests : requests[i].state = "stamped" /\ Decide(i, "refused")
    BY <1>3
  <2>2. /\ DOMAIN requests' = DOMAIN requests
        /\ \A j \in DOMAIN requests : j # i => requests'[j] = requests[j]
        /\ requests'[i].state = "refused"
    BY <2>1, DecideKeeps
  <2>3. {j \in DOMAIN requests' : requests'[j].state = "admitted"} = S
    BY <2>1, <2>2
  <2>4. \A d : AdmittedOf(d)' = AdmittedOf(d)
    BY <2>1, <2>2 DEF AdmittedOf
  <2>5. \A d, t : Since(d, t)' = Since(d, t)
    BY <2>1, <2>2, <2>4 DEF Since, AdmittedOf
  <2> QED
    BY <2>1, <2>2, <2>3, <2>4, <2>5 DEF Turn
<1> QED
  BY <1>1, <1>2, <1>3

-----------------------------------------------------------------------------
(* Windows.                                                                *)

WindowRecord == [client : Clients, start : Nat, count : 1..Limit, turn : Nat]

\* What Admit puts in the place of the client's window.
CountedWindow(i) ==
  LET w == WindowOf(requests[i].client, requests[i].stamp)
  IN  [client |-> requests[i].client, start |-> w.start, count |-> w.count + 1, turn |-> Turn]

\* A client without a live window starts one at its own time; otherwise the live one counts.
LEMMA TheWindow ==
  ASSUME NEW c, NEW t
  PROVE  \/ /\ \A e \in Live(t) : e.client # c
            /\ WindowOf(c, t) = [client |-> c, start |-> t, count |-> 0, turn |-> 0]
         \/ WindowOf(c, t) \in Live(t) /\ WindowOf(c, t).client = c
<1> DEFINE mine == {e \in Live(t) : e.client = c}
<1>1. CASE mine = {}
  BY <1>1 DEF WindowOf
<1>2. CASE mine # {}
  <2>1. WindowOf(c, t) = CHOOSE e \in mine : TRUE
    BY <1>2 DEF WindowOf
  <2>2. (CHOOSE e \in mine : TRUE) \in mine
    BY <1>2
  <2> HIDE DEF mine
  <2>3. WindowOf(c, t) \in mine
    BY <2>1, <2>2
  <2> QED
    BY <2>3 DEF mine
<1> QED
  BY <1>1, <1>2

\* What the counted window is.
LEMMA CountedWindowIs ==
  ASSUME Typed, Clocks, TurnsGiven, NEW i \in DOMAIN requests, requests[i].state = "stamped",
         WindowOf(requests[i].client, requests[i].stamp).count < Limit
  PROVE  /\ CountedWindow(i) \in WindowRecord
         /\ CountedWindow(i).client = requests[i].client
         /\ CountedWindow(i).start <= now
         /\ CountedWindow(i).turn = Turn
         /\ \/ /\ \A e \in Live(requests[i].stamp) : e.client # requests[i].client
               /\ CountedWindow(i).start = requests[i].stamp
               /\ CountedWindow(i).count = 1
            \/ \E e \in windows : /\ e.client = requests[i].client
                                  /\ CountedWindow(i).start = e.start
                                  /\ CountedWindow(i).count = e.count + 1
<1> DEFINE c == requests[i].client
           t == requests[i].stamp
           w == WindowOf(c, t)
<1>1. requests[i] \in Request /\ Turn \in Nat /\ Limit \in Nat \ {0} /\ now \in Nat
  BY RequestTyped, FiniteRequests, RateWindowAssumption DEF Typed
<1>2. c \in Clients /\ t \in Nat /\ t <= now
  BY <1>1 DEF Request, Clocks
<1>3. CASE /\ \A e \in Live(t) : e.client # c
           /\ w = [client |-> c, start |-> t, count |-> 0, turn |-> 0]
  <2>1. CountedWindow(i) = [client |-> c, start |-> t, count |-> 1, turn |-> Turn]
    BY <1>3 DEF CountedWindow
  <2> QED
    BY <1>1, <1>2, <1>3, <2>1 DEF WindowRecord
<1>4. CASE w \in Live(t) /\ w.client = c
  <2>1. w \in windows /\ w \in WindowRecord /\ w.start <= now
    BY <1>4 DEF Live, Typed, TurnsGiven, WindowRecord
  <2>2. CountedWindow(i) = [client |-> c, start |-> w.start, count |-> w.count + 1, turn |-> Turn]
    BY <1>4, <2>1 DEF CountedWindow
  <2>3. w.count + 1 \in 1..Limit
    BY <1>1, <2>1 DEF WindowRecord
  <2> QED
    BY <1>1, <1>2, <1>4, <2>1, <2>2, <2>3 DEF WindowRecord
<1> QED
  BY <1>3, <1>4, TheWindow

\* The store keeps at most MaxClients: of one too many, the earliest turn goes.
LEMMA KeptFits ==
  ASSUME NEW s \in SUBSET WindowRecord, IsFiniteSet(s), Cardinality(s) <= MaxClients + 1
  PROVE  Kept(s) \subseteq s /\ IsFiniteSet(Kept(s)) /\ Cardinality(Kept(s)) <= MaxClients
<1>1. MaxClients \in Nat \ {0} /\ Cardinality(s) \in Nat
  BY RateWindowAssumption, FS_CardinalityType
<1>2. Kept(s) \subseteq s
  BY DEF Kept
<1>3. IsFiniteSet(Kept(s)) /\ Cardinality(Kept(s)) \in Nat /\ Cardinality(Kept(s)) <= Cardinality(s)
  BY <1>2, FS_Subset, FS_CardinalityType
<1>4. CASE Cardinality(s) > MaxClients
  <2> DEFINE turns == {e.turn : e \in s}
  <2>1. turns \in SUBSET Nat
    BY DEF WindowRecord
  <2>2. turns # {}
    <3>1. s # {}
      BY <1>1, <1>4, FS_EmptySet
    <3> QED
      BY <3>1
  <2>3. PICK n \in turns : \A m \in turns : n <= m
    <3> HIDE DEF turns
    <3>1. PICK n \in turns : \A m \in turns : <<m, n>> \notin OpToRel(<, Nat)
      BY <2>1, <2>2, NatLessThanWellFounded, WFMin
    <3>2. \A m \in turns : n \in Nat /\ m \in Nat /\ ~ (m < n)
      BY <2>1, <3>1, Zenon DEF OpToRel
    <3> QED
      BY <3>2
  <2>4. PICK e \in s : e.turn = n
    BY <2>3
  <2>5. e \notin Kept(s)
    BY <1>4, <2>1, <2>3, <2>4 DEF Kept, WindowRecord
  <2>6. Kept(s) \subseteq s \ {e}
    BY <1>2, <2>5
  <2>7. IsFiniteSet(s \ {e}) /\ Cardinality(s \ {e}) = Cardinality(s) - 1
    BY <2>4, FS_RemoveElement
  <2>8. Cardinality(Kept(s)) <= Cardinality(s) - 1
    BY <2>6, <2>7, FS_Subset
  <2> QED
    BY <1>1, <1>2, <1>3, <2>8
<1>5. CASE ~ Cardinality(s) > MaxClients
  BY <1>1, <1>2, <1>3, <1>5
<1> QED
  BY <1>4, <1>5

\* One window per client, each with a turn of its own.
Distinct == \A d, e \in windows : d = e \/ (d.client # e.client /\ d.turn # e.turn)

\* What an admission makes of the windows.
LEMMA AdmitWindows ==
  ASSUME RateInv, Typed, NEW i \in DOMAIN requests, Admit(i)
  PROVE  LET c == requests[i].client
             w == CountedWindow(i)
             s == Counted(c, requests[i].stamp)
         IN  /\ s \subseteq WindowRecord
             /\ \A e \in s : e = w \/ (e \in Live(requests[i].stamp) /\ e.client # c)
             /\ w \in s
             /\ windows' = Kept(s)
             /\ windows' \subseteq s
             /\ IsFiniteSet(windows')
             /\ Cardinality(windows') <= MaxClients
             /\ Distinct'
<1> DEFINE c == requests[i].client
           w == CountedWindow(i)
           s == Counted(c, requests[i].stamp)
           rest == {e \in Live(requests[i].stamp) : e.client # c}
<1>1. w \in WindowRecord /\ w.client = c /\ w.turn = Turn
  BY CountedWindowIs DEF RateInv, Admit
<1>2. s = rest \cup {w}
  BY DEF Counted, CountedWindow
<1>3. rest \subseteq windows
  BY DEF Live
<1>4. s \subseteq WindowRecord
  BY <1>1, <1>2, <1>3 DEF Typed, WindowRecord
<1>5. IsFiniteSet(rest) /\ Cardinality(rest) <= Cardinality(windows)
  BY <1>3, FS_Subset DEF RateInv
<1>6. IsFiniteSet(s) /\ Cardinality(s) <= Cardinality(rest) + 1
  <2> HIDE DEF s, rest, w
  <2>1. /\ IsFiniteSet(rest \cup {w})
        /\ Cardinality(rest \cup {w}) =
             IF w \in rest THEN Cardinality(rest) ELSE Cardinality(rest) + 1
    BY <1>5, FS_AddElement
  <2>2. Cardinality(rest) \in Nat
    BY <1>5, FS_CardinalityType
  <2> QED
    BY <1>2, <2>1, <2>2
<1>7. Cardinality(s) <= MaxClients + 1
  BY <1>5, <1>6, FS_CardinalityType, RateWindowAssumption DEF RateInv, TypeOK
<1>8. windows' = Kept(s)
  BY DEF Admit
<1>9. windows' \subseteq s /\ IsFiniteSet(windows') /\ Cardinality(windows') <= MaxClients
  <2> HIDE DEF s
  <2> QED
    BY <1>4, <1>6, <1>7, <1>8, KeptFits
<1>10. Distinct'
  <2>1. \A d, e \in rest : d = e \/ (d.client # e.client /\ d.turn # e.turn)
    BY <1>3 DEF RateInv, TypeOK
  <2>2. \A e \in rest : e.client # c /\ e.turn < Turn
    BY <1>3 DEF RateInv, TurnsGiven
  <2>3. \A e \in rest : e.turn \in Nat
    BY <1>3 DEF Typed
  <2>4. Turn \in Nat
    BY FiniteRequests
  <2>5. \A e \in rest : e.turn # Turn
    BY <2>2, <2>3, <2>4
  <2>6. \A d, e \in s : d = e \/ (d.client # e.client /\ d.turn # e.turn)
    <3> HIDE DEF s, rest, w, c
    <3> QED
      BY <1>1, <1>2, <2>1, <2>2, <2>5
  <2> HIDE DEF s
  <2> QED
    BY <1>9, <2>6 DEF Distinct
<1> QED
  BY <1>1, <1>2, <1>4, <1>8, <1>9, <1>10

-----------------------------------------------------------------------------
(* Steps that admit nobody.                                                *)

Quiet ==
  \/ Tick
  \/ \E c \in Clients : Stamp(c)
  \/ \E i \in DOMAIN requests : Refuse(i)

\* Such a step only drops windows, and only expired ones.
LEMMA QuietWindows ==
  ASSUME RateInv, Typed, Quiet
  PROVE  /\ windows' \subseteq windows
         /\ \A e \in windows \ windows' : e.start + Window <= now
         /\ evicted' = evicted
         /\ now' \in Nat /\ now <= now'
<1>1. CASE Tick
  BY <1>1 DEF Tick, Typed
<1>2. CASE \E c \in Clients : Stamp(c)
  BY <1>2 DEF Stamp, Typed
<1>3. CASE \E i \in DOMAIN requests : Refuse(i)
  <2>1. PICK i \in DOMAIN requests : Refuse(i)
    BY <1>3
  <2>2. requests[i] \in Request /\ requests[i].stamp <= now
    BY <2>1, RequestTyped DEF Refuse, RateInv, Clocks
  <2>3. windows' = Live(requests[i].stamp) /\ evicted' = evicted /\ now' = now
    BY <2>1 DEF Refuse, Decide
  <2>4. ASSUME NEW e \in windows \ windows' PROVE e.start + Window <= now
    <3>1. e.start \in Nat /\ requests[i].stamp \in Nat /\ Window \in Nat /\ now \in Nat
      BY <2>2, RateWindowAssumption DEF Request, Typed
    <3> QED
      BY <2>2, <2>3, <3>1 DEF Live
  <2> QED
    BY <2>3, <2>4 DEF Live, Typed
<1> QED
  BY <1>1, <1>2, <1>3 DEF Quiet

\* It admits nobody.
LEMMA QuietAdmits ==
  ASSUME Typed, Quiet
  PROVE  /\ \A c : AdmittedOf(c)' = AdmittedOf(c)
         /\ \A c, t : Since(c, t)' = Since(c, t)
         /\ \A i \in DOMAIN requests :
              i \in DOMAIN requests' /\ (requests[i].state # "stamped" => requests'[i] = requests[i])
         /\ Turn' = Turn
<1>1. \/ UNCHANGED requests
      \/ \E c \in Clients : Stamp(c)
      \/ \E i \in DOMAIN requests : requests[i].state = "stamped" /\ Decide(i, "refused")
  BY DEF Quiet, Tick, Refuse
<1> QED
  BY <1>1, NothingAdmitted

\* The types and the clocks.
LEMMA QuietTyped ==
  ASSUME RateInv, Typed, Quiet
  PROVE  Typed' /\ Clocks'
<1> USE DEF RateInv
<1>1. windows' \subseteq windows /\ evicted' = evicted /\ now' \in Nat
  BY QuietWindows
<1>2. CASE Tick
  <2>1. requests' = requests /\ now' = now + 1 /\ now \in Nat
    BY <1>2 DEF Tick, Typed
  <2>2. Typed'
    BY <1>1, <2>1 DEF Typed
  <2>3. ASSUME NEW i \in DOMAIN requests
        PROVE  /\ requests[i].at \in Nat /\ requests[i].stamp \in Nat
               /\ requests[i].at <= now + 1
               /\ requests[i].state = "stamped" =>
                    requests[i].stamp <= now + 1 /\ now + 1 - requests[i].stamp <= MaxDelay
    <3>1. requests[i] \in Request /\ MaxDelay \in Nat
      BY RequestTyped, RateWindowAssumption
    <3>2. requests[i].state = "stamped" => now - requests[i].stamp < MaxDelay
      BY <1>2 DEF Tick
    <3> QED
      BY <2>1, <3>1, <3>2 DEF Clocks, Request
  <2>4. Clocks'
    <3> SUFFICES ASSUME NEW i \in DOMAIN requests'
                 PROVE  LET r == requests'[i] IN
                        /\ r.at <= now'
                        /\ r.state = "stamped" => r.stamp <= now' /\ now' - r.stamp <= MaxDelay
      BY Zenon DEF Clocks
    <3> HIDE DEF RateInv
    <3> QED
      BY <2>1, <2>3, RateWindowAssumption
  <2> QED
    BY <2>2, <2>4
<1>3. CASE \E c \in Clients : Stamp(c)
  <2> DEFINE r(c) == [client |-> c, stamp |-> now, state |-> "stamped", at |-> now]
  <2>1. PICK c \in Clients : requests' = Append(requests, r(c)) /\ now' = now
    BY <1>3 DEF Stamp
  <2>2. r(c) \in Request
    BY DEF Typed, Request
  <2>3. requests' \in Seq(Request)
    BY <2>1, <2>2, AppendProperties DEF Typed
  <2>4. /\ DOMAIN requests' = DOMAIN requests \cup {Len(requests) + 1}
        /\ \A j \in DOMAIN requests : requests'[j] = requests[j]
        /\ requests'[Len(requests) + 1] = r(c)
    BY <2>1 DEF Typed
  <2>5. now - now <= MaxDelay
    BY RateWindowAssumption DEF Typed
  <2> QED
    BY <1>1, <2>1, <2>3, <2>4, <2>5 DEF Typed, Clocks
<1>4. CASE \E i \in DOMAIN requests : Refuse(i)
  <2>1. PICK i \in DOMAIN requests : Refuse(i)
    BY <1>4
  <2>2. /\ now' = now /\ requests' \in Seq(Request) /\ DOMAIN requests' = DOMAIN requests
        /\ \A j \in DOMAIN requests : j # i => requests'[j] = requests[j]
        /\ requests'[i].state = "refused" /\ requests'[i].at = now
    BY <2>1, DecideKeeps DEF Refuse
  <2>3. now <= now
    BY DEF Typed
  <2> QED
    BY <1>1, <2>2, <2>3 DEF Typed, Clocks
<1> QED
  BY <1>2, <1>3, <1>4 DEF Quiet

\* The windows that are left still count real admissions, in their order, and are paced.
LEMMA QuietKeeps ==
  ASSUME RateInv, Typed, Quiet
  PROVE  /\ TypeOK' /\ IsFiniteSet(windows)'
         /\ TurnsGiven' /\ CountsAreReal' /\ TurnsAreTimes'
         /\ Paced'
<1> USE DEF RateInv
<1>1. /\ windows' \subseteq windows
      /\ \A e \in windows \ windows' : e.start + Window <= now
      /\ evicted' = evicted
      /\ now' \in Nat /\ now <= now'
  BY QuietWindows
<1>2. /\ \A c : AdmittedOf(c)' = AdmittedOf(c)
      /\ \A c, t : Since(c, t)' = Since(c, t)
      /\ Turn' = Turn
  BY QuietAdmits
<1>3. \A i \in DOMAIN requests : requests[i].state # "stamped" => requests'[i] = requests[i]
  BY QuietAdmits
<1>4. TypeOK' /\ IsFiniteSet(windows)'
  <2>1. IsFiniteSet(windows') /\ Cardinality(windows') <= Cardinality(windows)
    BY <1>1, FS_Subset
  <2>2. Cardinality(windows') <= MaxClients
    BY <1>1, <2>1, FS_CardinalityType, RateWindowAssumption DEF TypeOK
  <2>3. Typed'
    BY QuietTyped
  <2> QED
    BY <1>1, <2>1, <2>2, <2>3 DEF TypeOK, Typed, Request
<1>5. TurnsGiven'
  <2>1. \A e \in windows : e.start \in Nat
    BY DEF Typed
  <2> QED
    BY <1>1, <1>2, <2>1 DEF TurnsGiven, Typed
<1>6. CountsAreReal'
  BY <1>1, <1>2 DEF CountsAreReal
<1>7. TurnsAreTimes'
  <2>1. \A c : \A i \in AdmittedOf(c) : requests'[i] = requests[i]
    BY <1>3 DEF AdmittedOf
  <2>2. ASSUME NEW d \in windows, NEW e \in windows, e.turn < d.turn, NEW i \in AdmittedOf(e.client)
        PROVE  \E j \in AdmittedOf(d.client) : requests'[j].at >= requests'[i].at
    BY <2>1, <2>2 DEF TurnsAreTimes
  <2> QED
    BY <1>1, <1>2, <2>2 DEF TurnsAreTimes
<1>8. Paced'
  <2> SUFFICES ASSUME NEW c \in Clients \ evicted
               PROVE  \E a \in Int, k \in 1..Limit : LastWindow(c, a, k)'
    BY <1>1 DEF Paced
  <2>1. PICK a \in Int, k \in 1..Limit : LastWindow(c, a, k)
    BY DEF Paced
  <2>2. \A e \in windows' : e.client = c => e.count = k /\ a <= e.start + MaxDelay
    BY <1>1, <2>1 DEF LastWindow
  <2>3. Window \in Nat /\ MaxDelay \in Nat /\ now \in Nat /\ Gap = Window - MaxDelay
    BY RateWindowAssumption DEF Typed, Gap
  <2>4. c \notin ClientsOf(windows') => a + Gap <= now'
    <3>1. CASE c \notin ClientsOf(windows)
      BY <1>1, <2>1, <2>3, <3>1 DEF LastWindow
    <3>2. CASE c \in ClientsOf(windows) /\ c \notin ClientsOf(windows')
      <4>1. PICK e \in windows : e.client = c
        BY <3>2 DEF ClientsOf
      <4>2. e \notin windows'
        BY <3>2, <4>1 DEF ClientsOf
      <4>3. e.start \in Nat /\ e.start + Window <= now /\ a <= e.start + MaxDelay
        BY <1>1, <2>1, <4>1, <4>2 DEF LastWindow, Typed
      <4> QED
        BY <1>1, <2>3, <4>3
    <3> QED
      BY <3>1, <3>2
  <2>5. LastWindow(c, a, k)'
    <3>1. a <= now'
      BY <1>1, <2>1, <2>3 DEF LastWindow
    <3> QED
      BY <1>2, <2>1, <2>2, <2>4, <3>1 DEF LastWindow, Gap
  <2> QED
    BY <2>5
<1> QED
  BY <1>4, <1>5, <1>6, <1>7, <1>8

-----------------------------------------------------------------------------
(* Refusals.                                                               *)

\* Every step leaves a decided request as it is.
LEMMA DecisionsStand ==
  ASSUME Typed, [Next]_vars
  PROVE  \A i \in DOMAIN requests :
           i \in DOMAIN requests' /\ (requests[i].state # "stamped" => requests'[i] = requests[i])
<1>1. CASE Quiet
  BY <1>1, QuietAdmits
<1>2. CASE \E i \in DOMAIN requests : Admit(i)
  <2>1. PICK i \in DOMAIN requests : requests[i].state = "stamped" /\ Decide(i, "admitted")
    BY <1>2 DEF Admit
  <2> QED
    BY <2>1, DecideKeeps
<1>3. CASE UNCHANGED vars
  BY <1>3 DEF vars
<1> QED
  BY <1>1, <1>2, <1>3 DEF Next, Quiet

\* What was admitted between two instants stays so.
LEMMA AdmittedGrows ==
  ASSUME Typed, Typed', [Next]_vars, NEW c, NEW from, NEW to
  PROVE  /\ Admitted(c, from, to) \subseteq Admitted(c, from, to)'
         /\ Cardinality(Admitted(c, from, to)) <= Cardinality(Admitted(c, from, to)')
         /\ Cardinality(Admitted(c, from, to)) \in Nat
         /\ Cardinality(Admitted(c, from, to)') \in Nat
<1>1. Admitted(c, from, to) \subseteq Admitted(c, from, to)'
  BY DecisionsStand DEF Admitted
<1>2. Admitted(c, from, to)' \in SUBSET DOMAIN requests' /\ Admitted(c, from, to) \in SUBSET DOMAIN requests
  BY DEF Admitted
<1> QED
  BY <1>1, <1>2, IndexSets DEF Typed

\* A client is refused when its live window is used up, and that window counts
\* admissions that are not older than a window and the delay.
LEMMA RefuseIsEarned ==
  ASSUME RateInv, Typed, NEW i \in DOMAIN requests, Refuse(i)
  PROVE  Cardinality(Admitted(requests[i].client, now - Window - MaxDelay + 1, now)) >= Limit
<1> DEFINE c == requests[i].client
           t == requests[i].stamp
           w == WindowOf(c, t)
<1> USE DEF RateInv
<1>1. /\ requests[i] \in Request /\ t <= now /\ now - t <= MaxDelay
      /\ Limit \in Nat \ {0} /\ Window \in Nat /\ MaxDelay \in Nat /\ now \in Nat
  BY RequestTyped, RateWindowAssumption DEF Refuse, Clocks, Typed
<1>2. w \in Live(t) /\ w.client = c
  <2>1. w.count >= Limit
    BY DEF Refuse
  <2>2. w # [client |-> c, start |-> t, count |-> 0, turn |-> 0]
    BY <1>1, <2>1
  <2> QED
    BY <2>2, TheWindow
<1>3. w \in windows /\ w.start \in Nat /\ t - w.start < Window /\ w.count >= Limit
  BY <1>2 DEF Live, Typed, Refuse
<1>4. Cardinality(Since(c, w.start)) >= w.count
  BY <1>2, <1>3 DEF CountsAreReal
<1>5. Since(c, w.start) \subseteq Admitted(c, now - Window - MaxDelay + 1, now)
  <2>1. now - Window - MaxDelay + 1 <= w.start
    BY <1>1, <1>3 DEF Request
  <2>2. \A j \in DOMAIN requests : requests[j].at \in Nat /\ requests[j].at <= now
    BY RequestTyped DEF Request, Clocks
  <2> QED
    BY <1>1, <1>3, <2>1, <2>2 DEF Since, AdmittedOf, Admitted
<1>6. Cardinality(Since(c, w.start)) <= Cardinality(Admitted(c, now - Window - MaxDelay + 1, now))
  BY <1>5, IndexSets DEF Admitted, Typed
<1>7. w.count \in Nat
  BY <1>3 DEF Typed
<1>8. /\ Cardinality(Since(c, w.start)) \in Nat
      /\ Cardinality(Admitted(c, now - Window - MaxDelay + 1, now)) \in Nat
  BY FiniteRequests DEF Admitted
<1> QED
  BY <1>1, <1>3, <1>4, <1>6, <1>7, <1>8

\* No step makes a false refusal, and none makes an old one false.
LEMMA RefusalsKept ==
  ASSUME RateInv, Typed, Typed', [Next]_vars
  PROVE  NoFalseRefusal'
<1>1. SUFFICES ASSUME NEW j \in DOMAIN requests', requests'[j].state = "refused"
               PROVE  Cardinality(Admitted(requests[j].client, requests[j].at - Window - MaxDelay + 1,
                                           requests[j].at))' >= Limit
  BY Zenon DEF NoFalseRefusal
<1> PICK c, a : c = requests'[j].client /\ a = requests'[j].at
  OBVIOUS
<1> DEFINE from == a - Window - MaxDelay + 1
<1>2. Limit \in Nat
  BY RateWindowAssumption
<1>3. CASE j \in DOMAIN requests /\ requests[j].state # "stamped"
  <2>1. requests'[j] = requests[j]
    BY <1>3, DecisionsStand
  <2>2. Cardinality(Admitted(c, from, a)) >= Limit
    BY <1>1, <1>3, <2>1 DEF RateInv, NoFalseRefusal
  <2>3. Cardinality(Admitted(c, from, a)') >= Limit
    BY <1>2, <2>2, AdmittedGrows
  <2> QED
    BY <2>3 DEF Admitted
<1>4. CASE ~ (j \in DOMAIN requests /\ requests[j].state # "stamped")
  <2>1. Refuse(j) /\ j \in DOMAIN requests
    <3>1. CASE Tick \/ UNCHANGED vars
      BY <1>1, <1>4, <3>1 DEF Tick, vars
    <3>2. CASE \E d \in Clients : Stamp(d)
      <4>1. PICK d \in Clients :
              requests' = Append(requests, [client |-> d, stamp |-> now, state |-> "stamped", at |-> now])
        BY <3>2 DEF Stamp
      <4> QED
        BY <1>1, <1>4, <4>1 DEF Typed
    <3>3. ASSUME NEW i \in DOMAIN requests, Admit(i) PROVE FALSE
      <4>1. /\ DOMAIN requests' = DOMAIN requests
            /\ \A k \in DOMAIN requests : k # i => requests'[k] = requests[k]
            /\ requests'[i].state = "admitted"
        BY <3>3, DecideKeeps DEF Admit
      <4> QED
        BY <1>1, <1>4, <4>1
    <3>4. ASSUME NEW i \in DOMAIN requests, Refuse(i) PROVE i = j
      <4>1. /\ DOMAIN requests' = DOMAIN requests
            /\ \A k \in DOMAIN requests : k # i => requests'[k] = requests[k]
        BY <3>4, DecideKeeps DEF Refuse
      <4> QED
        BY <1>1, <1>4, <4>1
    <3> QED
      BY <3>1, <3>2, <3>3, <3>4 DEF Next
  <2>2. c = requests[j].client /\ a = now
    BY <2>1, DecideKeeps DEF Refuse
  <2>3. Cardinality(Admitted(c, from, a)) >= Limit
    BY <2>1, <2>2, RefuseIsEarned
  <2>4. Cardinality(Admitted(c, from, a)') >= Limit
    BY <1>2, <2>3, AdmittedGrows
  <2> QED
    BY <2>4 DEF Admitted
<1> QED
  BY <1>3, <1>4

-----------------------------------------------------------------------------
(* Admissions.                                                             *)

\* The types and the clocks.
LEMMA AdmitTyped ==
  ASSUME RateInv, Typed, NEW i \in DOMAIN requests, Admit(i)
  PROVE  Typed' /\ Clocks' /\ TypeOK' /\ IsFiniteSet(windows)'
<1>1. /\ now' = now /\ requests' \in Seq(Request) /\ DOMAIN requests' = DOMAIN requests
      /\ \A j \in DOMAIN requests : j # i => requests'[j] = requests[j]
      /\ requests'[i].state = "admitted" /\ requests'[i].at = now
  BY DecideKeeps DEF Admit
<1> DEFINE s == Counted(requests[i].client, requests[i].stamp)
<1>2. /\ s \subseteq WindowRecord /\ windows' \subseteq s /\ IsFiniteSet(windows')
      /\ Cardinality(windows') <= MaxClients /\ Distinct'
  BY AdmitWindows
<1>3. evicted' \subseteq Clients
  <2>1. ClientsOf(s) \subseteq Clients
    BY <1>2 DEF ClientsOf, WindowRecord
  <2> QED
    BY <2>1 DEF Admit, Typed
<1>4. Typed'
  <2> HIDE DEF s
  <2> QED
    BY <1>1, <1>2, <1>3 DEF Typed, WindowRecord
<1>5. Clocks'
  <2>1. now \in Nat
    BY DEF Typed
  <2> QED
    BY <1>1, <2>1 DEF RateInv, Clocks
<1>6. TypeOK'
  BY <1>2, <1>4 DEF TypeOK, Typed, Distinct, Request
<1> QED
  BY <1>2, <1>4, <1>5, <1>6

\* Every window that is left is the counted one, or one of another client as it was.
LEMMA AdmitLeaves ==
  ASSUME RateInv, Typed, NEW i \in DOMAIN requests, Admit(i)
  PROVE  \A e \in windows' :
           \/ e = CountedWindow(i)
           \/ e \in windows /\ e.client # requests[i].client
<1> DEFINE s == Counted(requests[i].client, requests[i].stamp)
<1>1. /\ windows' \subseteq s
      /\ \A e \in s : \/ e = CountedWindow(i)
                      \/ e \in Live(requests[i].stamp) /\ e.client # requests[i].client
  BY AdmitWindows
<1> QED
  BY <1>1 DEF Live

\* A new count is of one admission more, and the new turn is the last.
LEMMA AdmitCounts ==
  ASSUME RateInv, Typed, NEW i \in DOMAIN requests, Admit(i)
  PROVE  TurnsGiven' /\ CountsAreReal' /\ TurnsAreTimes'
<1> PICK c, w : c = requests[i].client /\ w = CountedWindow(i)
  OBVIOUS
<1> USE DEF RateInv
<1>1. /\ requests[i] \in Request /\ requests[i].state = "stamped"
      /\ requests[i].stamp <= now /\ now \in Nat /\ Turn \in Nat
  BY RequestTyped, FiniteRequests DEF Admit, Clocks, Typed
<1>2. /\ w \in WindowRecord /\ w.client = c /\ w.start <= now /\ w.turn = Turn
      /\ \/ w.start = requests[i].stamp /\ w.count = 1
         \/ \E e \in windows : e.client = c /\ w.start = e.start /\ w.count = e.count + 1
  BY CountedWindowIs DEF Admit
<1>3. \A e \in windows' : e = w \/ (e \in windows /\ e.client # c)
  BY AdmitLeaves
<1>4. /\ now' = now
      /\ \A j \in DOMAIN requests : j # i => requests'[j] = requests[j]
      /\ requests'[i].at = now
  BY DecideKeeps DEF Admit
<1>5. /\ \A d : d # c => AdmittedOf(d)' = AdmittedOf(d)
      /\ AdmittedOf(c)' = AdmittedOf(c) \cup {i}
      /\ \A t \in Int : \A d : d # c => Since(d, t)' = Since(d, t)
      /\ \A t \in Int : t <= now => Cardinality(Since(c, t)') = Cardinality(Since(c, t)) + 1
      /\ Turn' = Turn + 1
  BY <1>1, AdmissionAdds DEF Admit
<1>6. windows \subseteq WindowRecord
  BY DEF Typed, WindowRecord
<1> HIDE DEF RateInv
<1>7. TurnsGiven'
  <2>1. \A e \in windows : e.start <= now /\ e.turn < Turn
    BY DEF RateInv, TurnsGiven
  <2>2. \A e \in windows' : e.start <= now /\ e.turn < Turn + 1
    BY <1>1, <1>2, <1>3, <1>6, <2>1 DEF WindowRecord
  <2> QED
    BY <1>4, <1>5, <2>2 DEF TurnsGiven
<1>8. CountsAreReal'
  <2>1. \A e \in windows : Cardinality(Since(e.client, e.start)) >= e.count
    BY DEF RateInv, CountsAreReal
  <2>2. Cardinality(Since(c, w.start)') >= w.count
    <3>1. /\ w.start \in Nat /\ w.count \in Nat
          /\ Cardinality(Since(c, w.start)') = Cardinality(Since(c, w.start)) + 1
      BY <1>2, <1>5 DEF WindowRecord
    <3>2. Cardinality(Since(c, w.start)) \in Nat
      BY FiniteRequests
    <3>3. CASE w.count = 1
      BY <3>1, <3>2, <3>3
    <3>4. ASSUME NEW e \in windows, e.client = c, w.start = e.start, w.count = e.count + 1
          PROVE  Cardinality(Since(c, w.start)') >= w.count
      <4>1. Cardinality(Since(c, w.start)) >= e.count /\ e.count \in Nat
        BY <1>6, <2>1, <3>4 DEF WindowRecord
      <4> QED
        BY <3>1, <3>2, <3>4, <4>1
    <3> QED
      BY <1>2, <3>3, <3>4
  <2>3. ASSUME NEW e \in windows, e.client # c
        PROVE  Cardinality(Since(e.client, e.start)') >= e.count
    <3>1. e.start \in Int
      BY <1>6 DEF WindowRecord
    <3>2. Since(e.client, e.start)' = Since(e.client, e.start)
      BY <1>5, <2>3, <3>1
    <3> QED
      BY <2>1, <3>2
  <2> SUFFICES ASSUME NEW e \in windows' PROVE Cardinality(Since(e.client, e.start)') >= e.count
    BY DEF CountsAreReal
  <2> QED
    BY <1>2, <1>3, <2>2, <2>3
<1>9. TurnsAreTimes'
  <2> SUFFICES ASSUME NEW d \in windows', NEW e \in windows', e.turn < d.turn,
                      NEW k \in AdmittedOf(e.client)'
               PROVE  \E j \in AdmittedOf(d.client)' : requests'[j].at >= requests'[k].at
    BY DEF TurnsAreTimes
  <2>1. \A f \in windows : f.turn \in Nat /\ f.turn < Turn
    BY <1>6 DEF RateInv, TurnsGiven, WindowRecord
  <2>2. e \in windows /\ e.client # c
    BY <1>1, <1>2, <1>3, <2>1
  <2>3. k \in AdmittedOf(e.client) /\ k \in DOMAIN requests /\ k # i /\ requests'[k] = requests[k]
    BY <1>1, <1>4, <1>5, <2>2 DEF AdmittedOf
  <2>4. requests[k].at \in Nat /\ requests[k].at <= now
    BY <2>3, RequestTyped DEF RateInv, Clocks, Request
  <2>5. CASE d = w
    <3>1. i \in AdmittedOf(d.client)'
      BY <1>2, <1>5, <2>5
    <3>2. requests'[i].at >= requests'[k].at
      BY <1>1, <1>4, <2>3, <2>4
    <3> QED
      BY <3>1, <3>2
  <2>6. CASE d \in windows /\ d.client # c
    <3>1. PICK j \in AdmittedOf(d.client) : requests[j].at >= requests[k].at
      BY <2>2, <2>3, <2>6 DEF RateInv, TurnsAreTimes
    <3>2. j \in AdmittedOf(d.client)' /\ requests'[j] = requests[j]
      BY <1>1, <1>4, <1>5, <2>6 DEF AdmittedOf
    <3> QED
      BY <2>3, <3>1, <3>2
  <2> QED
    BY <1>3, <2>5, <2>6
<1> QED
  BY <1>7, <1>8, <1>9

\* A client that was not evicted either counts in its window, or begins one at
\* least a gap after the last.
LEMMA AdmitPaces ==
  ASSUME RateInv, Typed, NEW i \in DOMAIN requests, Admit(i)
  PROVE  Paced'
<1> PICK c, w : c = requests[i].client /\ w = CountedWindow(i)
  OBVIOUS
<1> DEFINE s == Counted(requests[i].client, requests[i].stamp)
<1>1. /\ requests[i] \in Request /\ requests[i].state = "stamped"
      /\ requests[i].stamp <= now /\ now - requests[i].stamp <= MaxDelay /\ now \in Nat
      /\ Limit \in Nat \ {0} /\ Window \in Nat /\ MaxDelay \in Nat /\ Gap = Window - MaxDelay
  BY RequestTyped, RateWindowAssumption DEF RateInv, Admit, Clocks, Typed, Gap
<1>2. /\ w \in WindowRecord /\ w.client = c
      /\ \/ /\ \A e \in Live(requests[i].stamp) : e.client # c
            /\ w.start = requests[i].stamp /\ w.count = 1
         \/ \E e \in windows : e.client = c /\ w.start = e.start /\ w.count = e.count + 1
  BY CountedWindowIs DEF RateInv, Admit
<1>3. \A e \in windows' : e = w \/ (e \in windows /\ e.client # c)
  BY AdmitLeaves
<1>4. now' = now
  BY DEF Admit, Decide
<1>5. /\ \A d : d # c => AdmittedOf(d)' = AdmittedOf(d)
      /\ \A t \in Int : \A d : d # c => Since(d, t)' = Since(d, t)
      /\ \A t \in Int : t <= now => Cardinality(Since(c, t)') = Cardinality(Since(c, t)) + 1
      /\ \A t \in Int : t > now => Since(c, t)' = {}
  BY <1>1, AdmissionAdds DEF RateInv, Admit
<1>6. windows \subseteq WindowRecord
  BY DEF Typed, WindowRecord
<1>7. /\ w \in s /\ windows' = Kept(s)
      /\ \A e \in s : e = w \/ (e \in Live(requests[i].stamp) /\ e.client # c)
      /\ evicted' = evicted \cup (ClientsOf(s) \ ClientsOf(windows'))
  BY AdmitWindows DEF Admit
<1>8. \A e \in windows : e \notin Live(requests[i].stamp) => e.start + Window <= now
  BY <1>1, <1>6 DEF Live, Request, WindowRecord
<1>9. \A d, t : Cardinality(Since(d, t)) \in Nat
  BY FiniteRequests
<1> HIDE DEF s
<1> SUFFICES ASSUME NEW d \in Clients \ evicted'
             PROVE  \E a \in Int, k \in 1..Limit : LastWindow(d, a, k)'
  BY DEF Paced
<1>10. d \in Clients \ evicted
  BY <1>7
<1>11. PICK a \in Int, k \in 1..Limit : LastWindow(d, a, k)
  BY <1>10 DEF RateInv, Paced
<1>12. /\ \A e \in windows : e.client = d => e.count = k /\ a <= e.start + MaxDelay
       /\ d \notin ClientsOf(windows) => a + Gap <= now
       /\ a <= now
       /\ \A t \in Int : t > a => Cardinality(Since(d, t)) <= k - 1
       /\ \A t \in Int : t > a - Gap => Cardinality(Since(d, t)) <= Limit - 1 + k
  BY <1>11 DEF LastWindow
<1>13. ASSUME NEW e \in windows, e.client = d, e \notin Live(requests[i].stamp)
       PROVE  a + Gap <= now
  BY <1>1, <1>6, <1>8, <1>12, <1>13 DEF WindowRecord
<1>14. CASE d # c
  <2>1. d \notin ClientsOf(windows') => a + Gap <= now
    <3> SUFFICES ASSUME d \notin ClientsOf(windows'), d \in ClientsOf(windows) PROVE a + Gap <= now
      BY <1>12
    <3>1. d \notin ClientsOf(s)
      BY <1>7
    <3>2. PICK e \in windows : e.client = d
      BY DEF ClientsOf
    <3>3. e \notin s
      BY <3>1, <3>2 DEF ClientsOf
    <3>4. e \notin Live(requests[i].stamp)
      BY <1>14, <3>2, <3>3 DEF s, Counted
    <3> QED
      BY <1>13, <3>2, <3>4
  <2>2. LastWindow(d, a, k)'
    BY <1>2, <1>3, <1>4, <1>5, <1>12, <1>14, <2>1 DEF LastWindow, Gap
  <2> QED
    BY <2>2
<1>15. CASE d = c
  <2>1. w \in windows'
    <3>1. c \in ClientsOf(windows')
      BY <1>2, <1>7, <1>15 DEF ClientsOf
    <3> QED
      BY <1>2, <1>3, <3>1 DEF ClientsOf
  <2>2. \A e \in windows' : e.client = c => e = w
    BY <1>3
  <2>3. c \in ClientsOf(windows')
    BY <1>2, <2>1 DEF ClientsOf
  <2>4. ASSUME NEW t \in Int, t > now PROVE Cardinality(Since(c, t)') = 0
    BY <1>5, <2>4, FS_EmptySet
  <2>5. ASSUME NEW e \in windows, e.client = c, w.start = e.start, w.count = e.count + 1
        PROVE  LastWindow(c, a, k + 1)' /\ k + 1 \in 1..Limit
    <3>1. w.count = k + 1 /\ a <= w.start + MaxDelay /\ k + 1 \in 1..Limit
      BY <1>2, <1>12, <1>15, <2>5 DEF WindowRecord
    <3>2. ASSUME NEW t \in Int, t > a PROVE Cardinality(Since(c, t)') <= (k + 1) - 1
      <4>1. CASE t <= now
        BY <1>5, <1>9, <1>12, <1>15, <3>2, <4>1
      <4>2. CASE t > now
        BY <2>4, <4>2
      <4> QED
        BY <1>1, <4>1, <4>2
    <3>3. ASSUME NEW t \in Int, t > a - Gap PROVE Cardinality(Since(c, t)') <= Limit - 1 + (k + 1)
      <4>1. CASE t <= now
        BY <1>1, <1>5, <1>9, <1>12, <1>15, <3>3, <4>1
      <4>2. CASE t > now
        BY <1>1, <2>4, <4>2
      <4> QED
        BY <1>1, <4>1, <4>2
    <3> QED
      BY <1>4, <1>12, <2>2, <2>3, <3>1, <3>2, <3>3 DEF LastWindow, Gap
  <2>6. ASSUME \A e \in Live(requests[i].stamp) : e.client # c,
               w.start = requests[i].stamp, w.count = 1
        PROVE  \E n \in Int : LastWindow(c, n, 1)'
    <3>1. a + Gap <= now
      <4>1. CASE c \in ClientsOf(windows)
        <5>1. PICK e \in windows : e.client = c
          BY <4>1 DEF ClientsOf
        <5> QED
          BY <1>13, <1>15, <2>6, <5>1
      <4> QED
        BY <1>12, <1>15, <4>1
    <3>2. PICK n \in Nat : n = now
      BY <1>1
    <3>3. n <= w.start + MaxDelay
      BY <1>1, <2>6, <3>2 DEF Request
    <3>4. ASSUME NEW t \in Int, t > n PROVE Cardinality(Since(c, t)') <= 1 - 1
      BY <2>4, <3>2, <3>4
    <3>5. ASSUME NEW t \in Int, t > n - Gap PROVE Cardinality(Since(c, t)') <= Limit - 1 + 1
      <4>1. CASE t <= now
        <5>1. t > a
          BY <1>1, <3>1, <3>2, <3>5
        <5> QED
          BY <1>1, <1>5, <1>9, <1>12, <1>15, <4>1, <5>1
      <4>2. CASE t > now
        BY <1>1, <2>4, <4>2
      <4> QED
        BY <1>1, <4>1, <4>2
    <3>6. LastWindow(c, n, 1)'
      <4>1. n <= now' /\ \A e \in windows' : e.client = c => e.count = 1 /\ n <= e.start + MaxDelay
        BY <1>4, <2>2, <2>6, <3>2, <3>3
      <4> QED
        BY <2>3, <3>4, <3>5, <4>1 DEF LastWindow, Gap
    <3> QED
      BY <3>6
  <2>7. 1 \in 1..Limit
    BY <1>1
  <2> QED
    BY <1>2, <1>15, <2>5, <2>6, <2>7
<1> QED
  BY <1>14, <1>15

\* Early stretches end before the admission, and late ones have few admissions.
LEMMA BoundKept ==
  ASSUME RateInv, Typed, Typed', [Next]_vars, Paced'
  PROVE  AdmissionsBounded'
<1> SUFFICES ASSUME NEW d \in Clients \ evicted', NEW t \in 0..MaxTime
             PROVE  Cardinality(Admitted(d, t, t + Window - MaxDelay - 1)') < 2 * Limit
  BY DEF AdmissionsBounded
<1> DEFINE u == t + Window - MaxDelay - 1
<1>1. /\ Limit \in Nat \ {0} /\ Window \in Nat /\ MaxDelay \in Nat /\ now \in Nat /\ t \in Nat
      /\ Gap = Window - MaxDelay /\ u \in Int
  BY RateWindowAssumption DEF Typed, Gap
<1>2. d \in Clients \ evicted
  BY DEF Next, Tick, Stamp, Admit, Refuse, vars
<1>3. Cardinality(Admitted(d, t, u)) < 2 * Limit
  BY <1>2 DEF RateInv, AdmissionsBounded
<1>4. CASE Quiet \/ UNCHANGED vars
  <2>1. AdmittedOf(d)' = AdmittedOf(d) /\ \A j \in AdmittedOf(d) : requests'[j] = requests[j]
    BY <1>4, QuietAdmits DEF AdmittedOf, vars
  <2>2. Admitted(d, t, u)' = Admitted(d, t, u)
    <3>1. Admitted(d, t, u)' = {j \in AdmittedOf(d)' : requests'[j].at \in t..u}
      BY DEF Admitted, AdmittedOf
    <3>2. Admitted(d, t, u) = {j \in AdmittedOf(d) : requests[j].at \in t..u}
      BY DEF Admitted, AdmittedOf
    <3> QED
      BY <2>1, <3>1, <3>2
  <2> QED
    BY <1>3, <2>2
<1>5. ASSUME NEW i \in DOMAIN requests, Admit(i)
      PROVE  Cardinality(Admitted(d, t, u)') < 2 * Limit
  <2>1. /\ now' = now /\ DOMAIN requests' = DOMAIN requests
        /\ \A j \in DOMAIN requests : j # i => requests'[j] = requests[j]
        /\ requests'[i].at = now /\ requests[i].state = "stamped"
    BY <1>5, DecideKeeps DEF Admit
  <2>2. PICK a \in Int, k \in 1..Limit : LastWindow(d, a, k)'
    BY DEF Paced
  <2>3. a <= now /\ (t > a - Gap => Cardinality(Since(d, t)') <= Limit - 1 + k)
    BY <1>1, <2>1, <2>2 DEF LastWindow, Gap
  <2>4. CASE t > a - Gap
    <3>1. Admitted(d, t, u)' \subseteq Since(d, t)'
      <4>1. \A j \in DOMAIN requests' : requests'[j].at \in Nat
        <5>1. \A j \in DOMAIN requests' : requests'[j] \in Request
          BY ElementOfSeq, LenProperties DEF Typed
        <5> QED
          BY <5>1 DEF Request
      <4> QED
        BY <1>1, <4>1 DEF Admitted, Since, AdmittedOf
    <3>2. Since(d, t)' \in SUBSET DOMAIN requests'
      BY DEF Since, AdmittedOf
    <3>3. /\ Cardinality(Admitted(d, t, u)') <= Cardinality(Since(d, t)')
          /\ Cardinality(Admitted(d, t, u)') \in Nat /\ Cardinality(Since(d, t)') \in Nat
      BY <3>1, <3>2, IndexSets DEF Typed
    <3> QED
      BY <1>1, <2>3, <2>4, <3>3
  <2>5. CASE ~ t > a - Gap
    <3>1. u < now
      BY <1>1, <2>3, <2>5
    <3>2. i \notin Admitted(d, t, u)'
      BY <1>1, <2>1, <3>1 DEF Admitted
    <3>3. i \notin Admitted(d, t, u)
      BY <2>1 DEF Admitted
    <3>4. Admitted(d, t, u)' = Admitted(d, t, u)
      BY <2>1, <3>2, <3>3 DEF Admitted
    <3> QED
      BY <1>3, <3>4
  <2> QED
    BY <2>4, <2>5
<1> QED
  BY <1>4, <1>5 DEF Next, Quiet

\* A client that is evicted was admitted before everyone who stays.
LEMMA AdmitEvicts ==
  ASSUME RateInv, Typed, NEW i \in DOMAIN requests, Admit(i),
         NEW c \in evicted' \ evicted, NEW d \in ClientsOf(windows'), NEW k \in Admitted(c, 0, now)
  PROVE  Admitted(d, requests[k].at, now)' # {}
<1> PICK w : w = CountedWindow(i)
  OBVIOUS
<1> DEFINE s == Counted(requests[i].client, requests[i].stamp)
<1>1. /\ w \in WindowRecord /\ w.client = requests[i].client /\ w.turn = Turn
      /\ requests[i].state = "stamped" /\ now \in Nat /\ Turn \in Nat
  BY CountedWindowIs, FiniteRequests DEF RateInv, Admit, Typed
<1>2. /\ s \subseteq WindowRecord /\ windows' = Kept(s)
      /\ \A e \in s : e = w \/ (e \in windows /\ e.client # requests[i].client /\ e.turn < Turn)
  BY AdmitWindows DEF Live, RateInv, TurnsGiven
<1>3. evicted' = evicted \cup (ClientsOf(s) \ ClientsOf(Kept(s)))
  BY DEF Admit
<1>4. /\ now' = now /\ DOMAIN requests' = DOMAIN requests
      /\ \A j \in DOMAIN requests : j # i => requests'[j] = requests[j]
      /\ requests'[i].at = now /\ requests'[i].state = "admitted"
      /\ requests'[i].client = requests[i].client
  BY DecideKeeps DEF Admit
<1>5. /\ k \in DOMAIN requests /\ k \in AdmittedOf(c) /\ requests'[k] = requests[k]
      /\ requests[k].at \in 0..now
  BY <1>1, <1>4 DEF Admitted, AdmittedOf
<1> HIDE DEF s
<1>6. PICK e \in s : e.client = c /\ e \notin Kept(s)
  BY <1>3 DEF ClientsOf
<1>7. PICK f \in Kept(s) : f.client = d
  BY <1>2 DEF ClientsOf
<1>8. f \in s /\ e.turn < f.turn
  <2>1. Cardinality(s) > MaxClients /\ \A x \in s : ~ x.turn < e.turn
    BY <1>6 DEF Kept
  <2>2. f \in s /\ \E x \in s : x.turn < f.turn
    BY <1>7, <2>1 DEF Kept
  <2>3. \A x \in s : x.turn \in Nat
    BY <1>2 DEF WindowRecord
  <2> QED
    BY <2>1, <2>2, <2>3
<1>9. e \in windows
  BY <1>1, <1>2, <1>6, <1>8 DEF WindowRecord
<1>10. PICK j \in DOMAIN requests' : /\ requests'[j].client = d
                                     /\ requests'[j].state = "admitted"
                                     /\ requests'[j].at \in requests'[k].at..now'
  <2>1. CASE f = w
    BY <1>1, <1>4, <1>5, <1>7, <2>1
  <2>2. CASE f \in windows
    <3>1. PICK j \in AdmittedOf(d) : requests[j].at >= requests[k].at
      BY <1>5, <1>6, <1>7, <1>8, <1>9, <2>2 DEF RateInv, TurnsAreTimes
    <3>2. j \in DOMAIN requests /\ requests'[j] = requests[j]
      BY <1>1, <1>4, <3>1 DEF AdmittedOf
    <3>3. requests[j].at \in Nat /\ requests[j].at <= now
      BY <3>2, RequestTyped DEF RateInv, Clocks, Request
    <3> QED
      BY <1>4, <1>5, <3>1, <3>2, <3>3 DEF AdmittedOf
  <2> QED
    BY <1>2, <1>8, <2>1, <2>2
<1> QED
  BY <1>10 DEF Admitted

-----------------------------------------------------------------------------
(* The theorems.                                                           *)

\* Nothing has happened yet.
LEMMA InitRate == Init => RateInv
<1> SUFFICES ASSUME Init PROVE RateInv
  OBVIOUS
<1> USE DEF Init
<1>1. Limit \in Nat \ {0} /\ Window \in Nat \ {0} /\ MaxClients \in Nat \ {0} /\ MaxDelay \in Nat
  BY RateWindowAssumption
<1>2. IsFiniteSet(windows) /\ Cardinality(windows) = 0
  BY FS_EmptySet
<1>3. TypeOK
  BY <1>1, <1>2 DEF TypeOK
<1>4. \A S : S \subseteq DOMAIN requests => Cardinality(S) = 0
  BY FS_EmptySet
<1>5. Paced
  <2>1. ASSUME NEW c \in Clients PROVE LastWindow(c, -Window, 1)
    <3>1. -Window + Gap <= now /\ -Window <= now
      BY <1>1 DEF Gap
    <3>2. \A t : Cardinality(Since(c, t)) = 0
      BY <1>4 DEF Since, AdmittedOf
    <3> QED
      BY <1>1, <3>1, <3>2 DEF LastWindow
  <2>2. -Window \in Int /\ 1 \in 1..Limit
    BY <1>1
  <2> QED
    BY <2>1, <2>2 DEF Paced
<1>6. NoFalseRefusal /\ Clocks
  BY DEF NoFalseRefusal, Clocks
<1>7. AdmissionsBounded
  BY <1>1, <1>4 DEF AdmissionsBounded, Admitted
<1>8. TurnsGiven /\ CountsAreReal /\ TurnsAreTimes
  BY DEF TurnsGiven, CountsAreReal, TurnsAreTimes
<1> QED
  BY <1>2, <1>3, <1>5, <1>6, <1>7, <1>8 DEF RateInv

\* Every step keeps the invariant.
LEMMA NextRate == RateInv /\ [Next]_vars => RateInv'
<1> SUFFICES ASSUME RateInv, [Next]_vars PROVE RateInv'
  OBVIOUS
<1>1. Typed
  BY DEF RateInv, TypeOK, Typed, Request
<1>2. CASE Quiet
  <2>1. Typed' /\ Clocks'
    BY <1>1, <1>2, QuietTyped
  <2>2. /\ TypeOK' /\ IsFiniteSet(windows)' /\ TurnsGiven' /\ CountsAreReal' /\ TurnsAreTimes'
        /\ Paced'
    BY <1>1, <1>2, QuietKeeps
  <2>3. NoFalseRefusal' /\ AdmissionsBounded'
    BY <1>1, <2>1, <2>2, RefusalsKept, BoundKept
  <2> QED
    BY <2>1, <2>2, <2>3 DEF RateInv
<1>3. ASSUME NEW i \in DOMAIN requests, Admit(i) PROVE RateInv'
  <2>1. Typed' /\ Clocks' /\ TypeOK' /\ IsFiniteSet(windows)'
    BY <1>1, <1>3, AdmitTyped
  <2>2. TurnsGiven' /\ CountsAreReal' /\ TurnsAreTimes'
    BY <1>1, <1>3, AdmitCounts
  <2>3. Paced'
    BY <1>1, <1>3, AdmitPaces
  <2>4. NoFalseRefusal' /\ AdmissionsBounded'
    BY <1>1, <2>1, <2>3, RefusalsKept, BoundKept
  <2> QED
    BY <2>1, <2>2, <2>3, <2>4 DEF RateInv
<1>4. CASE UNCHANGED vars
  <2> USE <1>4 DEF vars
  <2>1. \A c, t : Since(c, t)' = Since(c, t) /\ AdmittedOf(c)' = AdmittedOf(c)
    BY DEF Since, AdmittedOf
  <2>2. TypeOK' /\ IsFiniteSet(windows)' /\ Clocks'
    BY DEF RateInv, TypeOK, Clocks
  <2>3. TurnsGiven' /\ CountsAreReal' /\ TurnsAreTimes'
    BY <2>1 DEF RateInv, TurnsGiven, Turn, CountsAreReal, TurnsAreTimes
  <2>4. Paced'
    BY <2>1 DEF RateInv, Paced, LastWindow, ClientsOf
  <2>5. Typed'
    BY <1>1 DEF Typed
  <2>6. NoFalseRefusal' /\ AdmissionsBounded'
    BY <1>1, <2>4, <2>5, RefusalsKept, BoundKept
  <2> QED
    BY <2>2, <2>3, <2>4, <2>6 DEF RateInv
<1> QED
  BY <1>2, <1>3, <1>4 DEF Next, Quiet

\* The invariant of every reachable state.
THEOREM RateInvariance == Spec => []RateInv
BY InitRate, NextRate, PTL DEF Spec

\* The store never holds more than MaxClients windows, one per client and each with
\* its own turn, and no window counts more than the limit.
THEOREM Types == Spec => []TypeOK
<1>1. RateInv => TypeOK
  BY DEF RateInv
<1> QED
  BY <1>1, RateInvariance, PTL

\* In no stretch of a window less the delay does a client that was never evicted
\* get twice its limit, whatever the order in which stale clocks are applied.
THEOREM Bounded == Spec => []AdmissionsBounded
<1>1. RateInv => AdmissionsBounded
  BY DEF RateInv
<1> QED
  BY <1>1, RateInvariance, PTL

\* Nobody is refused who has not used up the limit within a window and the delay.
THEOREM RefusalsAreEarned == Spec => []NoFalseRefusal
<1>1. RateInv => NoFalseRefusal
  BY DEF RateInv
<1> QED
  BY <1>1, RateInvariance, PTL

\* A full store evicts a client that was admitted before everyone who stays.
THEOREM Evictions == Spec => EvictsLeastRecent
<1> DEFINE Least == \A c \in evicted' \ evicted, d \in ClientsOf(windows') :
                      \A i \in Admitted(c, 0, now) : Admitted(d, requests[i].at, now)' # {}
<1>1. ASSUME RateInv, [Next]_vars PROVE [Least]_vars
  <2>1. Typed
    BY <1>1 DEF RateInv, TypeOK, Typed, Request
  <2>2. ASSUME NEW i \in DOMAIN requests, Admit(i) PROVE Least
    BY <1>1, <2>1, <2>2, AdmitEvicts
  <2>3. CASE evicted' = evicted
    BY <2>3
  <2>4. Quiet => evicted' = evicted
    BY DEF Quiet, Tick, Stamp, Refuse
  <2> QED
    BY <1>1, <2>2, <2>3, <2>4 DEF Next, Quiet
<1>2. EvictsLeastRecent <=> [][Least]_vars
  BY DEF EvictsLeastRecent
<1> QED
  BY <1>1, <1>2, RateInvariance, PTL DEF Spec
=============================================================================
