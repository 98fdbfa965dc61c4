---------------------------- MODULE CoworkProofs ----------------------------
(***************************************************************************)
(* What conversations and their timelines keep through every interleaving, *)
(* failure and restart, for any requests and principals: Cowork implements *)
(* Journal, what was answered is there for good, timelines are complete    *)
(* and in order, principals see only what is theirs, and files that are    *)
(* written one after the other are read as written.                        *)
(*                                                                         *)
(* None of it is inductive alone.  What every step preserves is where a    *)
(* request can be given what it is about: that it names a conversation     *)
(* whose creation had been answered when it began, that it acts only in a  *)
(* committed one of its own principal, and that it takes its time after    *)
(* every request that it can have heard of.                                *)
(***************************************************************************)
EXTENDS Cowork, WellFoundedInduction, TLAPS

\* After the effect on the workspace is complete.
Recording == {"appending", "stamped", "recording", "recorded"}

\* A request that has not begun has left no trace.
Fresh ==
  \A r \in Requests : phase[r] = "new" =>
    who[r] = None /\ conv[r] = r /\ earlier[r] = {} /\ r \notin rows \cup events \cup done

\* A request names itself or a conversation it can know, and answers end requests.
Begun ==
  \A r \in Requests :
    /\ phase[r] # "new" => who[r] \in Principals
    /\ phase[r] # "new" /\ op[r] = "create" => conv[r] = r
    /\ phase[r] # "new" /\ op[r] # "create" => conv[r] \in Known \cap earlier[r]
    /\ phase[r] # "ended" => answer[r] = "none"
    /\ \A q \in earlier[r] : answer[q] = "ok"

\* What a request is doing, in which conversation, and what it has done before.
PlacedAt(r) ==
  /\ phase[r] \in {"creating", "naming", "rooting"} => op[r] = "create"
  /\ phase[r] \in {"validating", "acting", "writing"} => op[r] # "create"
  /\ phase[r] = "writing" => op[r] = "write"
  /\ phase[r] \in Recording => op[r] # "timeline" /\ r \in done
  /\ phase[r] \in Recording /\ op[r] = "create" => r \in rows \cap dirs
  /\ phase[r] \in {"acting", "writing"} \cup Recording => Visible(r)
  /\ phase[r] = "rooting" => r \in rows
  /\ phase[r] = "recorded" => r \in events

Placed == \A r \in Requests : PlacedAt(r)

\* An event is of a request that did something in a conversation of its principal.
EventsHappened ==
  \A e \in events : phase[e] \in {"recorded", "ended"} /\ e \in done /\ Visible(e) /\ op[e] # "timeline"

\* The time of a request is taken before its event, after those of the requests
\* that were answered when it began.
TimedAt(r) ==
  /\ phase[r] \in {"stamped", "recording", "recorded"} \/ r \in events => stamp[r] > 0
  /\ phase[r] \notin {"stamped", "recording", "recorded", "ended"} => stamp[r] = 0
  /\ \A q \in earlier[r] :
       op[q] # "timeline" => stamp[q] > 0 /\ (stamp[r] > 0 => stamp[q] < stamp[r])

Timed == \A r \in Requests : TimedAt(r)

\* What was answered happened, to the owner of the conversation.
AnswersHappened ==
  \A r \in Requests : answer[r] = "ok" =>
    /\ Visible(r)
    /\ op[r] # "timeline" => r \in events
    /\ op[r] = "create" => r \in rows \cap dirs

\* q has begun, in the conversation of r and for its principal.
Fellow(q, r) == phase[q] # "new" /\ conv[q] = conv[r] /\ who[q] = who[r]

\* Texts stay in the file of their conversation.
OwnTexts ==
  /\ \A c \in Requests : \A q \in file[c] : phase[q] # "new" /\ conv[q] = c /\ who[q] = who[c]
  /\ \A r \in Requests : \A q \in seen[r] : Fellow(q, r)

\* What a timeline owes its client: the changes that were answered before it began.
Due(r) == {q \in earlier[r] : conv[q] = conv[r] /\ op[q] # "timeline"}

\* What a timeline has listed was recorded or being recorded, with its time; what it
\* owes and has not listed is ahead of its cursor.
ListedAt(r) ==
  /\ \A q \in listed[r] : /\ Fellow(q, r) /\ q \in done
                          /\ phase[q] \in {"recording", "recorded", "ended"}
                          /\ op[q] # "timeline"
                          /\ stamp[q] > 0
  /\ op[r] # "timeline" \/ phase[r] \in {"new", "validating"} => listed[r] = {}
  /\ phase[r] = "acting" =>
       \A q \in Due(r) \ listed[r] : \A p \in listed[r] : stamp[p] < stamp[q]
  /\ op[r] = "timeline" /\ answer[r] = "ok" => Due(r) \subseteq listed[r]

Listings == \A r \in Requests : ListedAt(r)

CoworkInv ==
  /\ TypeOK
  /\ Fresh
  /\ Begun
  /\ Placed
  /\ EventsHappened
  /\ Timed
  /\ AnswersHappened
  /\ OwnTexts
  /\ Listings

-----------------------------------------------------------------------------

\* What a request at work may change: itself, and the stores by adding to them.
Moved(r) ==
  /\ UNCHANGED request
  /\ phase[r] \notin {"new", "ended"} /\ phase'[r] # "new"
  /\ answer'[r] # answer[r] => phase'[r] = "ended"
  /\ \A s \in Requests \ {r} : /\ phase'[s] = phase[s] /\ answer'[s] = answer[s]
                               /\ stamp'[s] = stamp[s]
                               /\ seen'[s] = seen[s] /\ listed'[s] = listed[s]
  /\ rows \subseteq rows' /\ rows' \subseteq rows \cup {r}
  /\ events \subseteq events' /\ events' \subseteq events \cup {r}
  /\ done \subseteq done' /\ done' \subseteq done \cup {r}
  /\ dirs \subseteq dirs'

\* Every action of a request is such a move.
LEMMA Moves ==
  ASSUME TypeOK, Placed, NEW r \in Requests, Work(r)
  PROVE  Moved(r)
<1> PlacedAt(r)
  BY DEF Placed
<1> USE DEF Step, End, Resolve, database, workspace, request
<1>1. CASE InsertRow(r)
  BY <1>1 DEF InsertRow, TypeOK, PlacedAt, Moved, Recording
<1>2. CASE CommitRow(r)
  BY <1>2 DEF CommitRow, TypeOK, PlacedAt, Moved, Recording
<1>3. CASE Root(r)
  BY <1>3 DEF Root, TypeOK, PlacedAt, Moved, Recording
<1>4. CASE Validate(r)
  BY <1>4 DEF Validate, TypeOK, PlacedAt, Moved, Recording
<1>5. CASE Timeline(r)
  BY <1>5 DEF Timeline, TypeOK, PlacedAt, Moved, Recording
<1>6. CASE Mkdir(r)
  BY <1>6 DEF Mkdir, TypeOK, PlacedAt, Moved, Recording
<1>7. CASE Truncate(r)
  BY <1>7 DEF Truncate, TypeOK, PlacedAt, Moved, Recording
<1>8. CASE Write(r)
  BY <1>8 DEF Write, TypeOK, PlacedAt, Moved, Recording
<1>9. CASE Read(r)
  BY <1>9 DEF Read, TypeOK, PlacedAt, Moved, Recording
<1>10. CASE Refuse(r)
  BY <1>10 DEF Refuse, TypeOK, PlacedAt, Moved, Recording
<1>11. CASE WriteFails(r)
  BY <1>11 DEF WriteFails, TypeOK, PlacedAt, Moved, Recording
<1>12. CASE Stamp(r)
  BY <1>12 DEF Stamp, TypeOK, PlacedAt, Moved, Recording
<1>13. CASE InsertEvent(r)
  BY <1>13 DEF InsertEvent, TypeOK, PlacedAt, Moved, Recording
<1>14. CASE CommitEvent(r)
  BY <1>14 DEF CommitEvent, TypeOK, PlacedAt, Moved, Recording
<1>15. CASE Reply(r)
  BY <1>15 DEF Reply, TypeOK, PlacedAt, Moved, Recording
<1>16. CASE RollBack(r)
  <2>1. PICK from \in {"naming", "recording"} : End(r, from, "error")
    BY <1>16 DEF RollBack
  <2>2. QED
    BY <1>16, <2>1 DEF RollBack, TypeOK, Moved
<1>17. CASE TimelineRows(r)
  BY <1>17 DEF TimelineRows, TypeOK, PlacedAt, Moved, Recording
<1>18. QED
  BY <1>1, <1>2, <1>3, <1>4, <1>5, <1>6, <1>7, <1>8, <1>9, <1>10, <1>11, <1>12,
     <1>13, <1>14, <1>15, <1>16, <1>17 DEF Work

\* The variables keep their types, the lock apart.
Types ==
  /\ phase \in [Requests -> Phases]
  /\ op \in [Requests -> Operations]
  /\ who \in [Requests -> Principals \cup {None}]
  /\ conv \in [Requests -> Requests]
  /\ answer \in [Requests -> {"none", "ok", "not found", "error"}]
  /\ rows \subseteq Requests
  /\ events \subseteq Requests
  /\ pending \in Requests \cup {None}
  /\ stamp \in [Requests -> 0..clock]
  /\ clock \in Nat
  /\ dirs \subseteq Requests
  /\ written \subseteq Requests
  /\ file \in [Requests -> SUBSET Requests]
  /\ seen \in [Requests -> SUBSET Requests]
  /\ listed \in [Requests -> SUBSET Requests]
  /\ trouble \in 0..MaxTrouble
  /\ done \subseteq Requests
  /\ earlier \in [Requests -> SUBSET Requests]

\* Failures are bounded.
LEMMA TroubleType ==
  ASSUME TypeOK, Trouble
  PROVE  trouble' \in 0..MaxTrouble
<1>1. trouble \in 0..MaxTrouble /\ MaxTrouble \in Nat
  BY CoworkAssumption DEF TypeOK
<1>2. QED
  BY <1>1 DEF Trouble

\* The types alone.
LEMMA WorkTypes ==
  ASSUME TypeOK, NEW r \in Requests, Work(r)
  PROVE  Types'

<1> USE DEF Step, End, Resolve, database, workspace, request
<1>1. CASE InsertRow(r)
  BY <1>1 DEF InsertRow, TypeOK, Types, Phases
<1>2. CASE CommitRow(r)
  BY <1>2 DEF CommitRow, TypeOK, Types, Phases
<1>3. CASE Root(r)
  BY <1>3 DEF Root, TypeOK, Types, Phases
<1>4. CASE Validate(r)
  BY <1>4 DEF Validate, TypeOK, Types, Phases
<1>5. CASE Timeline(r)
  BY <1>5 DEF Timeline, TypeOK, Types, Phases
<1>6. CASE Mkdir(r)
  BY <1>6 DEF Mkdir, TypeOK, Types, Phases
<1>7. CASE Truncate(r)
  BY <1>7 DEF Truncate, TypeOK, Types, Phases
<1>8. CASE Write(r)
  <2>1. PICK text \in {{r}, {r} \cup file[conv[r]]} : file' = [file EXCEPT ![conv[r]] = text]
    BY <1>8 DEF Write
  <2>2. text \subseteq Requests
    BY <2>1 DEF TypeOK
  <2>3. file' \in [Requests -> SUBSET Requests]
    BY <2>1, <2>2 DEF TypeOK
  <2>4. QED
    BY <1>8, <2>3 DEF Write, TypeOK, Types, Phases
<1>9. CASE Read(r)
  BY <1>9 DEF Read, TypeOK, Types, Phases
<1>10. CASE Refuse(r)
  BY <1>10 DEF Refuse, TypeOK, Types, Phases
<1>11. CASE WriteFails(r)
  <2>1. trouble' \in 0..MaxTrouble
    BY <1>11, TroubleType DEF WriteFails
  <2>2. QED
    BY <1>11, <2>1 DEF WriteFails, TypeOK, Types, Phases
<1>12. CASE Stamp(r)
  <2>1. CASE Visible(r)
    <3>1. clock' = clock + 1 /\ stamp' = [stamp EXCEPT ![r] = clock + 1]
      BY <1>12, <2>1 DEF Stamp
    <3>2. clock \in Nat /\ stamp \in [Requests -> 0..clock]
      BY DEF TypeOK
    <3>3. clock' \in Nat /\ stamp' \in [Requests -> 0..clock']
      BY <3>1, <3>2
    <3>4. QED
      BY <1>12, <2>1, <3>3 DEF Stamp, TypeOK, Types, Phases
  <2>2. CASE ~ Visible(r)
    BY <1>12, <2>2 DEF Stamp, TypeOK, Types, Phases
  <2>3. QED
    BY <2>1, <2>2
<1>13. CASE InsertEvent(r)
  BY <1>13 DEF InsertEvent, TypeOK, Types, Phases
<1>14. CASE CommitEvent(r)
  BY <1>14 DEF CommitEvent, TypeOK, Types, Phases
<1>15. CASE Reply(r)
  BY <1>15 DEF Reply, TypeOK, Types, Phases
<1>16. CASE RollBack(r)
  <2>1. trouble' \in 0..MaxTrouble
    BY <1>16, TroubleType DEF RollBack
  <2>2. PICK from \in {"naming", "recording"} : End(r, from, "error")
    BY <1>16 DEF RollBack
  <2>3. QED
    BY <1>16, <2>1, <2>2 DEF RollBack, TypeOK, Types, Phases
<1>17. CASE TimelineRows(r)
  <2> DEFINE batch == {e \in Ahead(r) : \A f \in Ahead(r) : stamp[e] <= stamp[f]}
  <2>1. batch \subseteq Requests
    BY DEF Ahead, Listing, Recorded, TypeOK
  <2>2. listed' = [listed EXCEPT ![r] = @ \cup batch]
    BY <1>17 DEF TimelineRows
  <2>3. listed' \in [Requests -> SUBSET Requests]
    <3> HIDE DEF batch
    <3>1. QED
      BY <2>1, <2>2 DEF TypeOK
  <2>4. QED
    BY <1>17, <2>3 DEF TimelineRows, TypeOK, Types
<1>18. QED
  BY <1>1, <1>2, <1>3, <1>4, <1>5, <1>6, <1>7, <1>8, <1>9, <1>10, <1>11, <1>12,
     <1>13, <1>14, <1>15, <1>16, <1>17 DEF Work

\* The lock is held as long as a transaction is open.
LEMMA WorkLock ==
  ASSUME TypeOK, NEW r \in Requests, Work(r)
  PROVE  \A s \in Requests : phase'[s] \in {"naming", "recording"} <=> pending' = s
<1> None \notin Requests
  BY CoworkAssumption
<1> USE DEF Step, End, Resolve, database, workspace, request
<1>1. CASE InsertRow(r)
  BY <1>1 DEF InsertRow, TypeOK
<1>2. CASE CommitRow(r)
  BY <1>2 DEF CommitRow, TypeOK
<1>3. CASE Root(r)
  BY <1>3 DEF Root, TypeOK
<1>4. CASE Validate(r)
  BY <1>4 DEF Validate, TypeOK
<1>5. CASE Timeline(r)
  BY <1>5 DEF Timeline, TypeOK
<1>6. CASE Mkdir(r)
  BY <1>6 DEF Mkdir, TypeOK
<1>7. CASE Truncate(r)
  BY <1>7 DEF Truncate, TypeOK
<1>8. CASE Write(r)
  BY <1>8 DEF Write, TypeOK
<1>9. CASE Read(r)
  BY <1>9 DEF Read, TypeOK
<1>10. CASE Refuse(r)
  BY <1>10 DEF Refuse, TypeOK
<1>11. CASE WriteFails(r)
  BY <1>11 DEF WriteFails, TypeOK
<1>12. CASE Stamp(r)
  BY <1>12 DEF Stamp, TypeOK
<1>13. CASE InsertEvent(r)
  BY <1>13 DEF InsertEvent, TypeOK
<1>14. CASE CommitEvent(r)
  BY <1>14 DEF CommitEvent, TypeOK
<1>15. CASE Reply(r)
  BY <1>15 DEF Reply, TypeOK
<1>16. CASE RollBack(r)
  <2>1. PICK from \in {"naming", "recording"} : End(r, from, "error")
    BY <1>16 DEF RollBack
  <2>2. QED
    BY <1>16, <2>1 DEF RollBack, TypeOK
<1>17. CASE TimelineRows(r)
  BY <1>17 DEF TimelineRows, TypeOK
<1>18. QED
  BY <1>1, <1>2, <1>3, <1>4, <1>5, <1>6, <1>7, <1>8, <1>9, <1>10, <1>11, <1>12,
     <1>13, <1>14, <1>15, <1>16, <1>17 DEF Work

\* Which step of a request answers it, lets it act, leaves "recorded", takes a time,
\* fetches rows, touches a file.
LEMMA WhichStep ==
  ASSUME TypeOK, Begun, NEW r \in Requests, Work(r)
  PROVE  /\ answer'[r] = "ok" => Reply(r) \/ Timeline(r)
         /\ phase'[r] # "validating"
         /\ phase'[r] = "acting" => phase[r] = "validating" \/ TimelineRows(r)
         /\ phase[r] = "recorded" => Reply(r)
         /\ stamp' # stamp => Stamp(r)
         /\ listed' # listed => TimelineRows(r)
         /\ events' # events => CommitEvent(r)
         /\ file' # file => Truncate(r) \/ Write(r)
         /\ seen' # seen => Read(r)
<1> phase[r] # "ended" => answer[r] = "none"
  BY DEF Begun
<1> USE DEF Step, End, Resolve, database, workspace, request
<1>1. CASE InsertRow(r)
  BY <1>1 DEF InsertRow, TypeOK
<1>2. CASE CommitRow(r)
  BY <1>2 DEF CommitRow, TypeOK
<1>3. CASE Root(r)
  BY <1>3 DEF Root, TypeOK
<1>4. CASE Validate(r)
  BY <1>4 DEF Validate, TypeOK
<1>5. CASE Timeline(r)
  BY <1>5 DEF Timeline, TypeOK
<1>6. CASE Mkdir(r)
  BY <1>6 DEF Mkdir, TypeOK
<1>7. CASE Truncate(r)
  BY <1>7 DEF Truncate, TypeOK
<1>8. CASE Write(r)
  BY <1>8 DEF Write, TypeOK
<1>9. CASE Read(r)
  BY <1>9 DEF Read, TypeOK
<1>10. CASE Refuse(r)
  BY <1>10 DEF Refuse, TypeOK
<1>11. CASE WriteFails(r)
  BY <1>11 DEF WriteFails, TypeOK
<1>12. CASE Stamp(r)
  BY <1>12 DEF Stamp, TypeOK
<1>13. CASE InsertEvent(r)
  BY <1>13 DEF InsertEvent, TypeOK
<1>14. CASE CommitEvent(r)
  BY <1>14 DEF CommitEvent, TypeOK
<1>15. CASE Reply(r)
  BY <1>15 DEF Reply, TypeOK
<1>16. CASE RollBack(r)
  <2>1. PICK from \in {"naming", "recording"} : End(r, from, "error")
    BY <1>16 DEF RollBack
  <2>2. QED
    BY <1>16, <2>1 DEF RollBack, TypeOK
<1>17. CASE TimelineRows(r)
  BY <1>17 DEF TimelineRows, TypeOK
<1>18. QED
  BY <1>1, <1>2, <1>3, <1>4, <1>5, <1>6, <1>7, <1>8, <1>9, <1>10, <1>11, <1>12,
     <1>13, <1>14, <1>15, <1>16, <1>17 DEF Work

\* A request that has not begun stays without a trace.
LEMMA FreshKept ==
  ASSUME CoworkInv, NEW r \in Requests, Work(r)
  PROVE  Fresh'
BY Moves DEF CoworkInv, Fresh, Moved, request

\* What a request is about, and what had been answered when it began, stays.
LEMMA BegunKept ==
  ASSUME CoworkInv, NEW r \in Requests, Work(r)
  PROVE  Begun'
<1>1. Moved(r)
  BY Moves DEF CoworkInv
<1>2. \A q \in Requests : answer[q] = "ok" => answer'[q] = "ok"
  BY <1>1 DEF CoworkInv, Begun, Moved
<1>3. Known \subseteq Known'
  BY <1>1, <1>2 DEF Known, Moved, request
<1>4. \A s \in Requests : earlier[s] \subseteq Requests
  BY DEF CoworkInv, TypeOK
<1>5. QED
  BY <1>1, <1>2, <1>3, <1>4 DEF CoworkInv, Begun, Moved, request

\* A request comes to each of its phases by the steps that the phase relies on.
LEMMA PlacedKept ==
  ASSUME CoworkInv, NEW r \in Requests, Work(r)
  PROVE  Placed'
<1>1. Moved(r)
  BY Moves DEF CoworkInv
<1>2. ASSUME NEW s \in Requests, s # r
      PROVE  PlacedAt(s)'
  BY <1>1, <1>2 DEF CoworkInv, TypeOK, Placed, PlacedAt, Visible, Moved, Recording, request
<1>3. /\ TypeOK /\ PlacedAt(r)
      /\ op[r] = "create" => conv[r] = r
  BY <1>1 DEF CoworkInv, Placed, Begun, Moved
<1>4. PlacedAt(r)' 
  <2> USE DEF Step, End, Resolve, database, workspace, request
  <2>1. CASE InsertRow(r)
    BY <2>1, <1>3 DEF InsertRow, TypeOK, PlacedAt, Visible, Recording
  <2>2. CASE CommitRow(r)
    BY <2>2, <1>3 DEF CommitRow, TypeOK, PlacedAt, Visible, Recording
  <2>3. CASE Root(r)
    BY <2>3, <1>3 DEF Root, TypeOK, PlacedAt, Visible, Recording
  <2>4. CASE Validate(r)
    <3>1. CASE Visible(r)
      BY <2>4, <3>1, <1>3 DEF Validate, TypeOK, PlacedAt, Visible, Recording
    <3>2. CASE ~ Visible(r)
      <4>1. phase' = [phase EXCEPT ![r] = "ended"]
        BY <2>4, <3>2, <1>3 DEF Validate
      <4>2. UNCHANGED <<op, who, conv, rows, events, dirs, done>>
        BY <2>4, <1>3 DEF Validate
      <4>3. QED
        BY <4>1, <4>2, <1>3 DEF TypeOK, PlacedAt, Visible, Recording
    <3>3. QED
      BY <3>1, <3>2
  <2>5. CASE Timeline(r)
    BY <2>5, <1>3 DEF Timeline, TypeOK, PlacedAt, Visible, Recording
  <2>6. CASE Mkdir(r)
    BY <2>6, <1>3 DEF Mkdir, TypeOK, PlacedAt, Visible, Recording
  <2>7. CASE Truncate(r)
    BY <2>7, <1>3 DEF Truncate, TypeOK, PlacedAt, Visible, Recording
  <2>8. CASE Write(r)
    <3>1. phase' = [phase EXCEPT ![r] = "appending"] /\ phase[r] = "writing"
      BY <2>8, <1>3 DEF Write
    <3>2. done' = done \cup {r} /\ UNCHANGED <<op, who, conv, rows, events, dirs>>
      BY <2>8, <1>3 DEF Write
    <3>3. QED
      BY <3>1, <3>2, <1>3 DEF TypeOK, PlacedAt, Visible, Recording
  <2>9. CASE Read(r)
    BY <2>9, <1>3 DEF Read, TypeOK, PlacedAt, Visible, Recording
  <2>10. CASE Refuse(r)
    BY <2>10, <1>3 DEF Refuse, TypeOK, PlacedAt, Visible, Recording
  <2>11. CASE WriteFails(r)
    BY <2>11, <1>3 DEF WriteFails, TypeOK, PlacedAt, Visible, Recording
  <2>12. CASE Stamp(r)
    BY <2>12, <1>3 DEF Stamp, TypeOK, PlacedAt, Visible, Recording
  <2>13. CASE InsertEvent(r)
    BY <2>13, <1>3 DEF InsertEvent, TypeOK, PlacedAt, Visible, Recording
  <2>14. CASE CommitEvent(r)
    BY <2>14, <1>3 DEF CommitEvent, TypeOK, PlacedAt, Visible, Recording
  <2>15. CASE Reply(r)
    BY <2>15, <1>3 DEF Reply, TypeOK, PlacedAt, Visible, Recording
  <2>16. CASE RollBack(r)
    <3>1. PICK from \in {"naming", "recording"} : End(r, from, "error")
      BY <2>16, <1>3 DEF RollBack
    <3>2. QED
      BY <2>16, <3>1, <1>3 DEF RollBack, TypeOK, PlacedAt, Recording
  <2>17. CASE TimelineRows(r)
    BY <2>17, <1>3 DEF TimelineRows, TypeOK, PlacedAt, Visible
  <2>18. QED
    BY <2>1, <2>2, <2>3, <2>4, <2>5, <2>6, <2>7, <2>8, <2>9, <2>10, <2>11, <2>12,
       <2>13, <2>14, <2>15, <2>16, <2>17 DEF Work
<1>5. QED
  BY <1>2, <1>4 DEF Placed

\* An event is committed by a request that has acted, at the end of its transaction.
LEMMA EventsKept ==
  ASSUME CoworkInv, NEW r \in Requests, Work(r)
  PROVE  EventsHappened'
<1>1. Moved(r)
  BY Moves DEF CoworkInv
<1>2. ASSUME NEW e \in events, e # r
      PROVE  phase'[e] \in {"recorded", "ended"} /\ e \in done' /\ Visible(e)' /\ op'[e] # "timeline"
  BY <1>1, <1>2 DEF CoworkInv, TypeOK, EventsHappened, Moved, Visible, request
<1>3. CASE r \in events
  <2>1. phase[r] = "recorded"
    BY <1>1, <1>3 DEF CoworkInv, EventsHappened, Moved
  <2>2. Reply(r) /\ TypeOK
    BY <2>1, WhichStep DEF CoworkInv
  <2>3. phase'[r] = "ended" /\ events' = events
    BY <2>2 DEF TypeOK, Reply, End, Step, database
  <2>4. QED
    BY <1>1, <1>2, <1>3, <2>3 DEF CoworkInv, EventsHappened, Moved, Visible, request
<1>4. CASE r \in events' \ events
  <2>1. CommitEvent(r)
    BY <1>4, WhichStep DEF CoworkInv
  <2>2. phase[r] = "recording" /\ phase'[r] = "recorded"
    BY <2>1 DEF CommitEvent, Step, CoworkInv, TypeOK
  <2>3. PlacedAt(r)
    BY DEF CoworkInv, Placed
  <2>4. QED
    BY <1>1, <1>2, <2>2, <2>3 DEF EventsHappened, Moved, PlacedAt, Recording, Visible, request
<1>5. QED
  BY <1>1, <1>2, <1>3, <1>4 DEF EventsHappened, Moved

\* A request takes its time once, above every time that was taken before.
LEMMA TimedKept ==
  ASSUME CoworkInv, NEW r \in Requests, Work(r)
  PROVE  Timed'
<1>1. Moved(r)
  BY Moves DEF CoworkInv
<1>2. /\ \A s \in Requests : earlier[s] \subseteq Requests
      /\ \A s \in Requests : r \notin earlier[s]
  BY <1>1 DEF CoworkInv, TypeOK, Begun, Moved
<1>3. ASSUME NEW s \in Requests, s # r
      PROVE  TimedAt(s)'
  BY <1>1, <1>2, <1>3 DEF CoworkInv, Timed, TimedAt, Moved, request
<1>4. TimedAt(r)'
  <2>1. CASE Stamp(r)
    <3>1. clock \in Nat /\ \A q \in Requests : stamp[q] \in 0..clock
      BY DEF CoworkInv, TypeOK
    <3>2. CASE Visible(r)
      <4>1. phase'[r] = "stamped" /\ stamp'[r] = clock + 1 /\ r \notin events
        BY <2>1, <3>2 DEF Stamp, Step, CoworkInv, TypeOK, EventsHappened
      <4>2. QED
        BY <1>1, <1>2, <3>1, <4>1 DEF CoworkInv, Timed, TimedAt, Moved, request
    <3>3. CASE ~ Visible(r)
      <4>1. phase'[r] = "ended" /\ phase[r] = "appending" /\ stamp' = stamp /\ events' = events
        BY <2>1, <3>3 DEF Stamp, Step, End, CoworkInv, TypeOK
      <4>2. QED
        BY <1>1, <1>2, <4>1 DEF CoworkInv, Timed, TimedAt, Moved, request
    <3>4. QED
      BY <3>2, <3>3
  <2>2. CASE ~ Stamp(r)
    <3> stamp' = stamp
      BY <2>2, WhichStep DEF CoworkInv
    <3>1. /\ phase'[r] \in {"stamped", "recording", "recorded"} =>
               phase[r] \in {"stamped", "recording", "recorded"}
          /\ phase'[r] \notin {"stamped", "recording", "recorded", "ended"} =>
               phase[r] \notin {"stamped", "recording", "recorded"}
          /\ r \in events' => r \in events \/ phase[r] = "recording"
      <4> USE DEF Step, End, Resolve, database, workspace, request
      <4>1. CASE InsertRow(r)
        BY <4>1 DEF InsertRow, CoworkInv, TypeOK
      <4>2. CASE CommitRow(r)
        BY <4>2 DEF CommitRow, CoworkInv, TypeOK
      <4>3. CASE Root(r)
        BY <4>3 DEF Root, CoworkInv, TypeOK
      <4>4. CASE Validate(r)
        BY <4>4 DEF Validate, CoworkInv, TypeOK
      <4>5. CASE Timeline(r)
        BY <4>5 DEF Timeline, CoworkInv, TypeOK
      <4>6. CASE Mkdir(r)
        BY <4>6 DEF Mkdir, CoworkInv, TypeOK
      <4>7. CASE Truncate(r)
        BY <4>7 DEF Truncate, CoworkInv, TypeOK
      <4>8. CASE Write(r)
        BY <4>8 DEF Write, CoworkInv, TypeOK
      <4>9. CASE Read(r)
        BY <4>9 DEF Read, CoworkInv, TypeOK
      <4>10. CASE Refuse(r)
        BY <4>10 DEF Refuse, CoworkInv, TypeOK
      <4>11. CASE WriteFails(r)
        BY <4>11 DEF WriteFails, CoworkInv, TypeOK
      <4>12. CASE Stamp(r)
        BY <4>12, <2>2
      <4>13. CASE InsertEvent(r)
        BY <4>13 DEF InsertEvent, CoworkInv, TypeOK
      <4>14. CASE CommitEvent(r)
        BY <4>14 DEF CommitEvent, CoworkInv, TypeOK
      <4>15. CASE Reply(r)
        BY <4>15 DEF Reply, CoworkInv, TypeOK
      <4>16. CASE RollBack(r)
        <5>1. PICK from \in {"naming", "recording"} : End(r, from, "error")
          BY <4>16 DEF RollBack
        <5>2. QED
          BY <4>16, <5>1 DEF RollBack, CoworkInv, TypeOK
      <4>17. CASE TimelineRows(r)
        BY <4>17 DEF TimelineRows, CoworkInv, TypeOK
      <4>18. QED
        BY <4>1, <4>2, <4>3, <4>4, <4>5, <4>6, <4>7, <4>8, <4>9, <4>10, <4>11, <4>12,
           <4>13, <4>14, <4>15, <4>16, <4>17 DEF Work
    <3>2. QED
      BY <1>1, <1>2, <2>2, <3>1 DEF CoworkInv, Timed, TimedAt, Moved, request
  <2>3. QED
    BY <2>1, <2>2
<1>5. QED
  BY <1>3, <1>4 DEF Timed


\* An answer is given by Reply, behind the event, and by Timeline.
LEMMA AnswersKept ==
  ASSUME CoworkInv, NEW r \in Requests, Work(r)
  PROVE  AnswersHappened'
<1>1. Moved(r) /\ TypeOK /\ PlacedAt(r)
  BY Moves DEF CoworkInv, Placed
<1>2. ASSUME NEW s \in Requests, answer[s] = "ok"
      PROVE  /\ Visible(s)'
             /\ op'[s] # "timeline" => s \in events'
             /\ op'[s] = "create" => s \in rows' \cap dirs'
  BY <1>1, <1>2 DEF CoworkInv, AnswersHappened, Visible, Moved, request
<1>3. ASSUME answer'[r] = "ok", answer[r] # "ok"
      PROVE  /\ Visible(r)'
             /\ op'[r] # "timeline" => r \in events'
             /\ op'[r] = "create" => r \in rows' \cap dirs'
  <2>1. Reply(r) \/ Timeline(r)
    BY <1>3, WhichStep DEF CoworkInv
  <2>2. CASE Reply(r)
    <3>1. phase[r] = "recorded"
      BY <2>2 DEF Reply, End, Step
    <3>2. QED
      BY <1>1, <3>1 DEF PlacedAt, Recording, Visible, Moved, request
  <2>3. CASE Timeline(r)
    <3>1. phase[r] = "acting" /\ op[r] = "timeline"
      BY <2>3 DEF Timeline, End, Step
    <3>2. QED
      BY <1>1, <3>1 DEF PlacedAt, Visible, Moved, request
  <2>4. QED
    BY <2>1, <2>2, <2>3
<1>4. \A s \in Requests : answer'[s] = "ok" => answer[s] = "ok" \/ s = r
  BY <1>1 DEF Moved
<1>5. QED
  BY <1>2, <1>3, <1>4 DEF AnswersHappened

\* A text comes into a file from a write to it, and is read from there.
LEMMA TextsKept ==
  ASSUME CoworkInv, NEW r \in Requests, Work(r)
  PROVE  OwnTexts'
<1>1. Moved(r) /\ TypeOK /\ PlacedAt(r) /\ OwnTexts
  BY Moves DEF CoworkInv, Placed
<1>2. ASSUME NEW c \in Requests, NEW q \in file'[c]
      PROVE  phase'[q] # "new" /\ conv'[q] = c /\ who'[q] = who'[c]
  <2>1. CASE q \in file[c]
    <3>1. q \in Requests /\ phase[q] # "new" /\ conv[q] = c /\ who[q] = who[c]
      BY <1>1, <2>1 DEF OwnTexts, TypeOK
    <3>2. QED
      BY <1>1, <3>1 DEF Moved, request
  <2>2. CASE q \notin file[c]
    <3>1. Truncate(r) \/ Write(r)
      BY <1>2, <2>2, WhichStep DEF CoworkInv
    <3>2. ~ Truncate(r)
      BY <1>1, <1>2, <2>2 DEF Truncate, TypeOK
    <3>3. PICK text \in {{r}, {r} \cup file[conv[r]]} : file' = [file EXCEPT ![conv[r]] = text]
      BY <3>1, <3>2 DEF Write
    <3>4. q = r /\ c = conv[r]
      BY <1>1, <1>2, <2>2, <3>3 DEF TypeOK
    <3>5. phase[r] = "writing"
      BY <3>1, <3>2 DEF Write, Step
    <3>6. QED
      BY <1>1, <3>4, <3>5 DEF Moved, request, PlacedAt, Visible
  <2>3. QED
    BY <2>1, <2>2
<1>3. ASSUME NEW s \in Requests, NEW q \in seen'[s]
      PROVE  Fellow(q, s)'
  <2>1. CASE q \in seen[s]
    <3>1. q \in Requests /\ Fellow(q, s)
      BY <1>1, <2>1 DEF OwnTexts, TypeOK
    <3>2. QED
      BY <1>1, <3>1 DEF Fellow, Moved, request
  <2>2. CASE q \notin seen[s]
    <3>1. Read(r)
      BY <1>3, <2>2, WhichStep DEF CoworkInv
    <3>2. s = r /\ q \in file[conv[r]] /\ phase[r] = "acting"
      BY <1>1, <1>3, <2>2, <3>1 DEF Read, Step, TypeOK
    <3>3. q \in Requests /\ conv[r] \in Requests
      BY <1>1, <3>2 DEF TypeOK
    <3>4. phase[q] # "new" /\ conv[q] = conv[r] /\ who[q] = who[conv[r]]
      BY <1>1, <3>2, <3>3 DEF OwnTexts
    <3>5. who[conv[r]] = who[r]
      BY <1>1, <3>2 DEF PlacedAt, Visible
    <3>6. QED
      BY <1>1, <3>2, <3>3, <3>4, <3>5 DEF Fellow, Moved, request
  <2>3. QED
    BY <2>1, <2>2
<1>4. QED
  BY <1>2, <1>3 DEF OwnTexts

\* What a cursor can meet has been done, in the conversation of its reader.
LEMMA ListingHappened ==
  ASSUME CoworkInv, NEW r \in Requests, NEW q \in Listing(r)
  PROVE  /\ q \in Requests /\ Fellow(q, r) /\ q \in done
         /\ phase[q] \in {"recording", "recorded", "ended"}
         /\ op[q] # "timeline"
         /\ stamp[q] > 0
<1>1. TypeOK /\ EventsHappened /\ Timed /\ Placed
  BY DEF CoworkInv
<1>2. q \in Recorded /\ conv[q] = conv[r] /\ who[q] = who[r]
  BY DEF Listing
<1>3. CASE q \in events
  <2>1. phase[q] \in {"recorded", "ended"} /\ op[q] # "timeline" /\ q \in Requests /\ q \in done
    BY <1>1, <1>3 DEF EventsHappened, TypeOK
  <2>2. stamp[q] > 0
    BY <1>1, <1>3, <2>1 DEF Timed, TimedAt
  <2>3. QED
    BY <1>2, <2>1, <2>2 DEF Fellow
<1>4. CASE q \notin events
  <2>1. q \in Requests /\ phase[q] = "recording"
    BY <1>1, <1>2, <1>4 DEF Recorded, TypeOK
  <2>2. op[q] # "timeline" /\ q \in done
    BY <1>1, <2>1 DEF Placed, PlacedAt, Recording
  <2>3. stamp[q] > 0
    BY <1>1, <2>1 DEF Timed, TimedAt
  <2>4. QED
    BY <1>2, <2>1, <2>2, <2>3 DEF Fellow
<1>5. QED
  BY <1>3, <1>4

\* What a timeline owes is in the table.
LEMMA DueIsThere ==
  ASSUME CoworkInv, NEW r \in Requests, phase[r] = "acting"
  PROVE  Due(r) \subseteq Listing(r)
<1>1. TypeOK /\ Begun /\ AnswersHappened /\ Visible(r)
  BY DEF CoworkInv, Placed, PlacedAt
<1>2. ASSUME NEW q \in Due(r)
      PROVE  q \in Listing(r)
  <2>1. q \in Requests /\ answer[q] = "ok" /\ conv[q] = conv[r] /\ op[q] # "timeline"
    BY <1>1 DEF Begun, TypeOK, Due
  <2>2. q \in events /\ Visible(q)
    BY <1>1, <2>1 DEF AnswersHappened
  <2>3. who[q] = who[r]
    BY <1>1, <2>1, <2>2 DEF Visible
  <2>4. QED
    BY <2>1, <2>2, <2>3 DEF Listing, Recorded
<1>3. QED
  BY <1>2

\* At the end of the cursor nothing that is owed is left.
LEMMA DueIsListed ==
  ASSUME CoworkInv, NEW r \in Requests, Timeline(r)
  PROVE  Due(r) \subseteq listed[r]
<1>1. phase[r] = "acting" /\ Ahead(r) = {}
  BY DEF Timeline, End, Step
<1>2. ListedAt(r)
  BY DEF CoworkInv, Listings
<1>3. \A q \in Due(r) \ listed[r] : q \in Ahead(r)
  BY <1>1, <1>2, DueIsThere DEF ListedAt, Ahead
<1>4. QED
  BY <1>1, <1>3

\* A cursor goes on to the next time: what is owed is listed or stays ahead of it.
LEMMA ListingsKept ==
  ASSUME CoworkInv, NEW r \in Requests, Work(r)
  PROVE  Listings'
<1>1. Moved(r) /\ TypeOK /\ PlacedAt(r) /\ Listings /\ Begun
  BY Moves DEF CoworkInv, Placed
<1>2. \A q \in Requests : phase[q] \in {"recording", "recorded", "ended"} =>
        /\ phase'[q] \in {"recording", "recorded", "ended"}
        /\ stamp'[q] = stamp[q]
  <2>1. ASSUME phase[r] \in {"recording", "recorded"}
        PROVE  phase'[r] \in {"recording", "recorded", "ended"} /\ ~ Stamp(r)
    <3>1. ~ Stamp(r)
      BY <2>1 DEF Stamp, Step, End
    <3>2. CommitEvent(r) \/ Reply(r) \/ RollBack(r)
      BY <1>1, <2>1 DEF Work, PlacedAt, Recording, InsertRow, CommitRow, Root, Validate,
        TimelineRows, Timeline, Mkdir, Truncate, Write, Read, Refuse, WriteFails, Stamp,
        InsertEvent, Step, End
    <3>3. PICK to \in {"recorded", "ended"} : phase' = [phase EXCEPT ![r] = to]
      BY <3>2 DEF CommitEvent, Reply, RollBack, Step, End
    <3>4. QED
      BY <1>1, <3>1, <3>3 DEF TypeOK
  <2>2. phase[r] # "ended"
    BY <1>1 DEF Moved
  <2>3. QED
    BY <1>1, <2>1, <2>2, WhichStep DEF Moved, CoworkInv
<1>3. ASSUME NEW s \in Requests,
             \A q \in listed'[s] : /\ q \in Requests /\ Fellow(q, s) /\ q \in done
                                   /\ phase[q] \in {"recording", "recorded", "ended"}
                                   /\ op[q] # "timeline"
                                   /\ stamp[q] > 0
      PROVE  \A q \in listed'[s] : /\ Fellow(q, s)' /\ q \in done'
                                   /\ phase'[q] \in {"recording", "recorded", "ended"}
                                   /\ op'[q] # "timeline"
                                   /\ stamp'[q] > 0
  BY <1>1, <1>2, <1>3 DEF Fellow, Moved, request
\* The times that cursors compare stay.
<1>4. ASSUME NEW s \in Requests
      PROVE  /\ Due(s)' = Due(s)
             /\ \A q \in Due(s) \cup listed[s] : stamp'[q] = stamp[q]
  <2>1. Due(s)' = Due(s)
    BY <1>1 DEF Due, Moved, request
  <2>2. \A q \in Due(s) : q \in Requests /\ phase[q] = "ended"
    BY <1>1 DEF Due, Begun, TypeOK
  <2>3. \A q \in listed[s] : q \in Requests /\ phase[q] \in {"recording", "recorded", "ended"}
    BY <1>1 DEF Listings, ListedAt, TypeOK
  <2>4. QED
    BY <1>2, <2>1, <2>2, <2>3
<1>5. ASSUME NEW s \in Requests, listed'[s] = listed[s],
             phase'[s] \in {"new", "validating"} => phase[s] \in {"new", "validating"},
             phase'[s] = "acting" => phase[s] \in {"validating", "acting"},
             op[s] = "timeline" /\ answer'[s] = "ok" => Due(s) \subseteq listed[s]
      PROVE  ListedAt(s)'
  <2>1. ListedAt(s) /\ listed[s] \subseteq Requests /\ op'[s] = op[s]
    BY <1>1 DEF Listings, TypeOK, Moved, request
  <2>2. \A q \in listed'[s] : /\ Fellow(q, s)' /\ q \in done'
                              /\ phase'[q] \in {"recording", "recorded", "ended"}
                              /\ op'[q] # "timeline"
                              /\ stamp'[q] > 0
    BY <1>3, <1>5, <2>1 DEF ListedAt
  <2>3. phase'[s] = "acting" =>
          \A q \in Due(s)' \ listed'[s] : \A p \in listed'[s] : stamp'[p] < stamp'[q]
    BY <1>4, <1>5, <2>1 DEF ListedAt
  <2>4. QED
    BY <1>4, <1>5, <2>1, <2>2, <2>3 DEF ListedAt
<1>6. ASSUME NEW s \in Requests, s # r
      PROVE  ListedAt(s)'
  <2>1. listed'[s] = listed[s] /\ answer'[s] = answer[s] /\ phase'[s] = phase[s]
    BY <1>1, <1>6 DEF Moved
  <2>2. ListedAt(s)
    BY <1>1 DEF Listings
  <2>3. QED
    BY <1>5, <2>1, <2>2 DEF ListedAt
<1>7. CASE ~ TimelineRows(r)
  <2>1. listed' = listed
    BY <1>7, WhichStep DEF CoworkInv
  <2>2. /\ phase'[r] \notin {"new", "validating"}
        /\ phase'[r] = "acting" => phase[r] = "validating"
    BY <1>1, <1>7, WhichStep DEF CoworkInv, Moved
  <2>3. op[r] = "timeline" /\ answer'[r] = "ok" => Timeline(r)
    <3>1. phase[r] = "recorded" => op[r] # "timeline"
      BY <1>1 DEF PlacedAt, Recording
    <3>2. Reply(r) => phase[r] = "recorded"
      BY DEF Reply, End, Step
    <3>3. QED
      BY <3>1, <3>2, WhichStep DEF CoworkInv
  <2>4. ListedAt(r)'
    BY <1>5, <2>1, <2>2, <2>3, DueIsListed
  <2>5. QED
    BY <1>6, <2>4 DEF Listings
<1>8. CASE TimelineRows(r)
  <2> DEFINE batch == {e \in Ahead(r) : \A f \in Ahead(r) : stamp[e] <= stamp[f]}
  <2>1. /\ phase[r] = "acting" /\ op[r] = "timeline" /\ listed'[r] = listed[r] \cup batch
        /\ phase' = phase /\ stamp' = stamp /\ answer' = answer
    BY <1>1, <1>8 DEF TimelineRows, TypeOK, database
  <2>2. ListedAt(r) /\ listed[r] \subseteq Requests
    BY <1>1 DEF Listings, TypeOK
  <2>3. batch \subseteq Ahead(r) /\ Ahead(r) \subseteq Listing(r)
    BY DEF Ahead
  <2>4. \A q \in listed'[r] : /\ q \in Requests /\ Fellow(q, r) /\ q \in done
                              /\ phase[q] \in {"recording", "recorded", "ended"}
                              /\ op[q] # "timeline"
                              /\ stamp[q] > 0
    <3> HIDE DEF batch
    <3>1. \A q \in batch : /\ q \in Requests /\ Fellow(q, r) /\ q \in done
                           /\ phase[q] \in {"recording", "recorded", "ended"}
                           /\ op[q] # "timeline"
                           /\ stamp[q] > 0
      BY <2>3, ListingHappened
    <3>2. QED
      BY <2>1, <2>2, <3>1 DEF ListedAt
  <2>5. ASSUME NEW q \in Due(r), q \notin listed'[r], NEW p \in listed'[r]
        PROVE  stamp[p] < stamp[q]
    <3>1. q \in Ahead(r)
      BY <2>1, <2>2, <2>5, DueIsThere DEF ListedAt, Ahead
    <3>2. \A e \in Ahead(r) : stamp[e] \in Nat
      <4>1. \A e \in Ahead(r) : e \in Requests /\ stamp[e] \in 0..clock /\ clock \in Nat
        BY <1>1, <2>3, ListingHappened DEF TypeOK
      <4>2. QED
        BY <4>1
    <3>3. CASE p \in listed[r]
      BY <2>1, <2>2, <2>5, <3>3 DEF ListedAt
    <3>4. CASE p \in batch
      <4>1. stamp[p] \in Nat /\ stamp[q] \in Nat /\ stamp[p] <= stamp[q]
        BY <3>1, <3>2, <3>4
      <4>2. stamp[p] # stamp[q]
        BY <2>1, <2>5, <3>1, <3>4
      <4>3. QED
        BY <4>1, <4>2
    <3>5. QED
      BY <2>1, <2>5, <3>3, <3>4
  <2>6. answer[r] # "ok"
    BY <1>1, <2>1 DEF Begun
  <2>7. ListedAt(r)'
    <3> HIDE DEF batch
    <3>1. \A q \in listed'[r] : /\ Fellow(q, r)' /\ q \in done'
                                /\ phase'[q] \in {"recording", "recorded", "ended"}
                                /\ op'[q] # "timeline"
                                /\ stamp'[q] > 0
      BY <1>3, <2>4
    <3>2. op'[r] = "timeline" /\ phase'[r] = "acting" /\ answer'[r] # "ok"
      BY <1>1, <2>1, <2>6 DEF Moved, request
    <3>3. \A q \in Due(r)' \ listed'[r] : \A p \in listed'[r] : stamp'[p] < stamp'[q]
      BY <1>4, <2>1, <2>5
    <3>4. QED
      BY <3>1, <3>2, <3>3 DEF ListedAt
  <2>8. QED
    BY <1>6, <2>7 DEF Listings
<1>9. QED
  BY <1>7, <1>8

\* Every step of a request at work preserves the invariant.
LEMMA WorkKept ==
  ASSUME CoworkInv, NEW r \in Requests, Work(r)
  PROVE  CoworkInv'
<1>1. TypeOK'
  BY WorkTypes, WorkLock DEF CoworkInv, Types, TypeOK
<1>2. QED
  BY <1>1, FreshKept, BegunKept, PlacedKept, EventsKept, TimedKept, AnswersKept, TextsKept,
     ListingsKept DEF CoworkInv

\* A request begins: what others are about is not its own, for nobody knows it yet.
LEMMA BeginKept ==
  ASSUME CoworkInv, NEW r \in Requests, NEW o \in Operations, NEW p \in Principals,
         NEW c \in Requests, Begin(r, o, p, c)
  PROVE  CoworkInv'
<1>1. /\ TypeOK /\ Fresh /\ Begun /\ Placed /\ EventsHappened /\ Timed /\ AnswersHappened
      /\ OwnTexts /\ Listings
  BY DEF CoworkInv
<1>2. PICK f \in {"creating", "validating"} : /\ f = IF o = "create" THEN "creating" ELSE "validating"
                                              /\ phase[r] = "new" /\ phase' = [phase EXCEPT ![r] = f]
  BY DEF Begin, Step
<1>3. /\ op' = [op EXCEPT ![r] = o] /\ who' = [who EXCEPT ![r] = p]
      /\ conv' = [conv EXCEPT ![r] = c]
      /\ earlier' = [earlier EXCEPT ![r] = {q \in Requests : answer[q] = "ok"}]
      /\ UNCHANGED <<answer, rows, events, pending, stamp, clock, dirs, written, file, seen,
                     listed, trouble, done>>
      /\ IF o = "create" THEN c = r ELSE c \in Known
  BY DEF Begin, database, workspace
<1>4. \A q \in Requests : q # r => /\ phase'[q] = phase[q] /\ op'[q] = op[q] /\ who'[q] = who[q]
                                   /\ conv'[q] = conv[q] /\ earlier'[q] = earlier[q]
  BY <1>1, <1>2, <1>3 DEF TypeOK
<1>5. /\ phase'[r] = f /\ op'[r] = o /\ who'[r] = p /\ conv'[r] = c
      /\ earlier'[r] = {q \in Requests : answer[q] = "ok"}
  BY <1>1, <1>2, <1>3 DEF TypeOK
<1>6. /\ answer[r] = "none" /\ r \notin rows \cup events \cup done /\ stamp[r] = 0 /\ earlier[r] = {}
  BY <1>1, <1>2 DEF Fresh, Begun, Timed, TimedAt
\* Who is visible to whom among the others stays.
<1>7. ASSUME NEW q \in Requests, q # r, Visible(q)
      PROVE  Visible(q)' /\ conv[q] # r
  <2>1. conv[q] \in Requests /\ conv[q] # r
    BY <1>1, <1>6, <1>7 DEF Visible, TypeOK
  <2>2. QED
    BY <1>3, <1>4, <1>7, <2>1 DEF Visible
<1>8. TypeOK'
  <2>1. phase' \in [Requests -> Phases] /\ op' \in [Requests -> Operations]
    BY <1>1, <1>2, <1>3 DEF TypeOK, Phases
  <2>2. who' \in [Requests -> Principals \cup {None}] /\ conv' \in [Requests -> Requests]
    BY <1>1, <1>3 DEF TypeOK
  <2>3. earlier' \in [Requests -> SUBSET Requests]
    <3>1. {q \in Requests : answer[q] = "ok"} \in SUBSET Requests
      OBVIOUS
    <3>2. QED
      BY <1>1, <1>3, <3>1 DEF TypeOK
  <2>4. \A q \in Requests : phase'[q] \in {"naming", "recording"} <=> pending' = q
    BY <1>1, <1>2, <1>3 DEF TypeOK
  <2>5. QED
    BY <1>1, <1>3, <2>1, <2>2, <2>3, <2>4 DEF TypeOK
<1>9. Fresh'
  BY <1>1, <1>2, <1>3, <1>4, <1>5 DEF Fresh
<1>10. Known \subseteq Known'
  BY <1>3, <1>4, <1>6 DEF Known
<1>11. Begun'
  <2>1. ASSUME NEW q \in Requests, q # r
        PROVE  /\ phase'[q] # "new" => who'[q] \in Principals
               /\ phase'[q] # "new" /\ op'[q] = "create" => conv'[q] = q
               /\ phase'[q] # "new" /\ op'[q] # "create" => conv'[q] \in Known' \cap earlier'[q]
               /\ phase'[q] # "ended" => answer'[q] = "none"
               /\ \A d \in earlier'[q] : answer'[d] = "ok"
    BY <1>1, <1>3, <1>4, <1>10, <2>1 DEF Begun
  <2>2. /\ who'[r] \in Principals
        /\ op'[r] = "create" => conv'[r] = r
        /\ op'[r] # "create" => conv'[r] \in Known' \cap earlier'[r]
        /\ answer'[r] = "none"
        /\ \A d \in earlier'[r] : answer'[d] = "ok"
    BY <1>3, <1>5, <1>6, <1>10 DEF Known
  <2>3. QED
    BY <2>1, <2>2 DEF Begun
<1>12. Placed'
  <2>1. ASSUME NEW q \in Requests, q # r
        PROVE  PlacedAt(q)'
    BY <1>1, <1>3, <1>4, <1>7, <2>1 DEF Placed, PlacedAt
  <2>2. PlacedAt(r)'
    BY <1>2, <1>3, <1>5 DEF PlacedAt, Recording
  <2>3. QED
    BY <2>1, <2>2 DEF Placed
<1>13. EventsHappened'
  BY <1>1, <1>3, <1>4, <1>6, <1>7 DEF EventsHappened, TypeOK
<1>14. Timed'
  <2>1. ASSUME NEW q \in Requests, q # r
        PROVE  TimedAt(q)'
    <3>1. TimedAt(q) /\ earlier[q] \subseteq Requests /\ \A d \in earlier[q] : d # r
      BY <1>1, <1>6 DEF Timed, Begun, TypeOK
    <3>2. QED
      BY <1>3, <1>4, <2>1, <3>1 DEF TimedAt
  <2>2. TimedAt(r)'
    <3>1. ASSUME NEW d \in earlier'[r], op'[d] # "timeline"
          PROVE  stamp'[d] > 0
      <4>1. d \in Requests /\ answer[d] = "ok" /\ d # r
        BY <1>5, <1>6, <3>1
      <4>2. d \in events
        BY <1>1, <1>4, <3>1, <4>1 DEF AnswersHappened
      <4>3. QED
        BY <1>1, <1>3, <4>1, <4>2 DEF Timed, TimedAt
    <3>2. QED
      BY <1>2, <1>3, <1>5, <1>6, <3>1 DEF TimedAt
  <2>3. QED
    BY <2>1, <2>2 DEF Timed
<1>15. AnswersHappened'
  BY <1>1, <1>3, <1>4, <1>6, <1>7 DEF AnswersHappened
<1>16. ASSUME NEW q \in Requests, NEW s \in Requests, Fellow(q, s), s # r
       PROVE  Fellow(q, s)'
  BY <1>2, <1>4, <1>16 DEF Fellow
<1>17. OwnTexts'
  <2>1. ASSUME NEW d \in Requests, NEW q \in file'[d]
        PROVE  phase'[q] # "new" /\ conv'[q] = d /\ who'[q] = who'[d]
    <3>1. q \in Requests /\ phase[q] # "new" /\ conv[q] = d /\ who[q] = who[d]
      BY <1>1, <1>3, <2>1 DEF OwnTexts, TypeOK
    <3>2. d # r
      <4>1. q # r
        BY <1>2, <3>1
      <4>2. op[q] = "create" => d = q
        BY <1>1, <3>1 DEF Begun
      <4>3. op[q] # "create" => answer[d] = "ok"
        BY <1>1, <3>1 DEF Begun
      <4>4. QED
        BY <1>6, <4>1, <4>2, <4>3
    <3>3. QED
      BY <1>2, <1>4, <3>1, <3>2
  <2>2. ASSUME NEW s \in Requests, NEW q \in seen'[s]
        PROVE  Fellow(q, s)'
    <3>1. q \in Requests /\ Fellow(q, s)
      BY <1>1, <1>3, <2>2 DEF OwnTexts, TypeOK
    <3>2. CASE s # r
      BY <1>16, <3>1, <3>2
    <3>3. CASE s = r
      BY <1>1, <1>2, <1>6, <3>1, <3>3 DEF Fellow, Fresh, Begun, CoworkInv, CoworkAssumption
    <3>4. QED
      BY <3>2, <3>3
  <2>3. QED
    BY <2>1, <2>2 DEF OwnTexts
<1>18. Listings'
  <2>1. ASSUME NEW s \in Requests, NEW q \in listed'[s]
        PROVE  /\ Fellow(q, s)' /\ q \in done'
               /\ phase'[q] \in {"recording", "recorded", "ended"}
               /\ op'[q] # "timeline"
               /\ stamp'[q] > 0
    <3>1. /\ q \in Requests /\ Fellow(q, s) /\ q \in done
          /\ phase[q] \in {"recording", "recorded", "ended"}
          /\ op[q] # "timeline"
          /\ stamp[q] > 0
      BY <1>1, <1>3, <2>1 DEF Listings, ListedAt, TypeOK
    <3>2. q # r
      BY <1>2, <3>1
    <3>3. s # r
      BY <1>1, <1>2, <3>1, CoworkAssumption DEF Fellow, Fresh, Begun
    <3>4. QED
      BY <1>3, <1>4, <1>16, <3>1, <3>2, <3>3
  <2>2. listed'[r] = {} /\ phase'[r] # "acting" /\ answer'[r] # "ok"
    BY <1>1, <1>2, <1>3, <1>5, <1>6 DEF Listings, ListedAt
  <2>3. ASSUME NEW s \in Requests, s # r
        PROVE  /\ ListedAt(s) /\ Due(s)' = Due(s)
               /\ op'[s] = op[s] /\ phase'[s] = phase[s] /\ answer'[s] = answer[s]
               /\ listed'[s] = listed[s]
    <3>1. \A q \in earlier[s] : q \in Requests /\ q # r
      BY <1>1, <1>6 DEF Begun, TypeOK
    <3>2. QED
      BY <1>1, <1>3, <1>4, <2>3, <3>1 DEF Listings, Due
  <2>4. ASSUME NEW s \in Requests
        PROVE  /\ op'[s] # "timeline" \/ phase'[s] \in {"new", "validating"} => listed'[s] = {}
               /\ phase'[s] = "acting" =>
                    \A q \in Due(s)' \ listed'[s] : \A d \in listed'[s] : stamp'[d] < stamp'[q]
               /\ op'[s] = "timeline" /\ answer'[s] = "ok" => Due(s)' \subseteq listed'[s]
    <3>1. CASE s = r
      BY <2>2, <3>1
    <3>2. CASE s # r
      <4>1. /\ ListedAt(s) /\ Due(s)' = Due(s)
            /\ op'[s] = op[s] /\ phase'[s] = phase[s] /\ answer'[s] = answer[s]
            /\ listed'[s] = listed[s] /\ stamp' = stamp
        BY <1>3, <2>3, <3>2
      <4>2. QED
        BY <4>1 DEF ListedAt
    <3>3. QED
      BY <3>1, <3>2
  <2>5. QED
    BY <2>1, <2>4 DEF Listings, ListedAt
<1>19. QED
  BY <1>8, <1>9, <1>11, <1>12, <1>13, <1>14, <1>15, <1>17, <1>18 DEF CoworkInv

\* A restart ends every request and takes nothing back.
LEMMA RestartKept ==
  ASSUME CoworkInv, Restart
  PROVE  CoworkInv'
<1>1. /\ TypeOK /\ Fresh /\ Begun /\ Placed /\ EventsHappened /\ Timed /\ AnswersHappened
      /\ OwnTexts /\ Listings
  BY DEF CoworkInv
<1>2. /\ \A r \in Requests : phase'[r] = IF phase[r] = "new" THEN "new" ELSE "ended"
      /\ pending' = None
      /\ UNCHANGED <<op, who, conv, earlier, answer, rows, events, stamp, clock, dirs, written,
                     file, seen, listed, done>>
  BY DEF Restart, request, workspace
<1>3. TypeOK'
  <2>1. trouble' \in 0..MaxTrouble
    BY <1>1, TroubleType DEF Restart
  <2>2. phase' \in [Requests -> Phases]
    BY DEF Restart, Phases
  <2>3. \A r \in Requests : phase'[r] \in {"naming", "recording"} <=> pending' = r
    BY <1>2, CoworkAssumption
  <2>4. QED
    BY <1>1, <1>2, <2>1, <2>2, <2>3 DEF TypeOK
<1>4. Fresh' /\ Begun'
  BY <1>1, <1>2 DEF Fresh, Begun, Known
<1>5. Placed'
  BY <1>2 DEF Placed, PlacedAt, Recording
<1>6. EventsHappened'
  BY <1>1, <1>2 DEF EventsHappened, Visible, TypeOK
<1>7. Timed'
  BY <1>1, <1>2 DEF Timed, TimedAt, Begun
<1>8. AnswersHappened'
  BY <1>1, <1>2 DEF AnswersHappened, Visible
<1>9. OwnTexts'
  <2>1. \A c \in Requests : file[c] \subseteq Requests /\ seen[c] \subseteq Requests
    BY <1>1 DEF TypeOK
  <2>2. \A q \in Requests : phase[q] # "new" => phase'[q] # "new"
    BY <1>2
  <2>3. QED
    BY <1>1, <1>2, <2>1, <2>2 DEF OwnTexts, Fellow
<1>10. Listings'
  <2>1. \A r \in Requests : listed[r] \subseteq Requests
    BY <1>1 DEF TypeOK
  <2>2. ASSUME NEW r \in Requests
        PROVE  ListedAt(r)'
    <3>1. ListedAt(r) /\ Due(r)' = Due(r)
      BY <1>1, <1>2 DEF Listings, Due
    <3>2. phase'[r] # "acting" /\ (phase'[r] \in {"new", "validating"} => phase[r] = "new")
      BY <1>2
    <3>3. \A q \in listed[r] : Fellow(q, r)' /\ phase'[q] = "ended"
      BY <1>2, <2>1, <3>1 DEF ListedAt, Fellow
    <3>4. QED
      BY <1>2, <3>1, <3>2, <3>3 DEF ListedAt
  <2>3. QED
    BY <2>2 DEF Listings
<1>11. QED
  BY <1>3, <1>4, <1>5, <1>6, <1>7, <1>8, <1>9, <1>10 DEF CoworkInv

\* The invariant of every request, conversation and file.
THEOREM CoworkInvariance == Spec => []CoworkInv
<1>1. Init => CoworkInv
  <2> SUFFICES ASSUME Init PROVE CoworkInv
    OBVIOUS
  <2>1. TypeOK
    BY CoworkAssumption DEF Init, TypeOK, Phases, Operations
  <2>2. Fresh /\ Begun /\ Placed /\ EventsHappened /\ Timed /\ AnswersHappened
    BY DEF Init, Fresh, Begun, Placed, PlacedAt, Recording, EventsHappened, Timed, TimedAt,
      AnswersHappened
  <2>3. OwnTexts /\ Listings
    BY DEF Init, OwnTexts, Listings, ListedAt, Due
  <2>4. QED
    BY <2>1, <2>2, <2>3 DEF CoworkInv
<1>2. CoworkInv /\ [Next]_vars => CoworkInv'
  <2> SUFFICES ASSUME CoworkInv, [Next]_vars PROVE CoworkInv'
    OBVIOUS
  <2>1. CASE Restart
    BY <2>1, RestartKept
  <2>2. CASE \E r \in Requests : Work(r)
    BY <2>2, WorkKept
  <2>3. CASE \E r \in Requests, o \in Operations, p \in Principals, c \in Requests : Begin(r, o, p, c)
    BY <2>3, BeginKept
  <2>4. CASE UNCHANGED vars
    <3>1. UNCHANGED <<phase, op, who, conv, earlier, answer, rows, events, pending, stamp, clock,
                      dirs, written, file, seen, listed, trouble, done>>
      BY <2>4 DEF vars, request, database, workspace
    <3>2. TypeOK' = TypeOK
      BY <3>1 DEF TypeOK
    <3>3. Fresh' = Fresh /\ Begun' = Begun /\ AnswersHappened' = AnswersHappened
          /\ EventsHappened' = EventsHappened
      BY <3>1 DEF Fresh, Begun, Known, AnswersHappened, EventsHappened, Visible
    <3>4. Placed' = Placed /\ Timed' = Timed
      BY <3>1 DEF Placed, PlacedAt, Visible, Timed, TimedAt
    <3>5. OwnTexts' = OwnTexts /\ Listings' = Listings
      BY <3>1 DEF OwnTexts, Fellow, Listings, ListedAt, Due
    <3>6. QED
      BY <3>2, <3>3, <3>4, <3>5 DEF CoworkInv
  <2>5. QED
    BY <2>1, <2>2, <2>3, <2>4 DEF Next
<1>3. QED
  BY <1>1, <1>2, PTL DEF Spec

-----------------------------------------------------------------------------

\* The variables keep their types, and the lock of the connection is held exactly as
\* long as a transaction is open, whatever fails (conversations/service.py).
THEOREM CoworkTypes == Spec => []TypeOK
<1>1. CoworkInv => TypeOK
  BY DEF CoworkInv
<1>2. QED
  BY <1>1, CoworkInvariance, PTL

\* What a client was told is there for good: no failure and no restart takes it back.
THEOREM Durability == Spec => []AnswersAreDurable
<1>1. CoworkInv => AnswersAreDurable
  BY DEF CoworkInv, AnswersHappened, AnswersAreDurable, Answered
<1>2. QED
  BY <1>1, CoworkInvariance, PTL

\* Timelines list what was answered before them, the creation first, and in an order
\* that agrees with what clients can know.
THEOREM TimelinesComplete == Spec => []TimelineIsComplete
<1>1. CoworkInv => TimelineIsComplete
  <2> SUFFICES ASSUME CoworkInv, NEW t \in Answered("timeline")
               PROVE  /\ {r \in earlier[t] : conv[r] = conv[t] /\ op[r] # "timeline"} \subseteq listed[t]
                      /\ conv[t] \in listed[t]
                      /\ \A e \in listed[t] \ {conv[t]} : stamp[conv[t]] < stamp[e]
                      /\ \A d, e \in listed[t] : d \in earlier[e] => stamp[d] < stamp[e]
    BY DEF TimelineIsComplete
  <2>1. /\ t \in Requests /\ op[t] = "timeline" /\ answer[t] = "ok" /\ ListedAt(t) /\ TypeOK /\ Begun
        /\ Timed
    BY DEF Answered, CoworkInv, Listings
  <2>2. \A e \in listed[t] : /\ e \in Requests /\ conv[e] = conv[t] /\ phase[e] # "new"
                             /\ op[e] # "timeline" /\ stamp[e] > 0
    BY <2>1 DEF ListedAt, Fellow, TypeOK
  <2>3. \A e \in listed[t] : \A q \in earlier[e] : op[q] # "timeline" => stamp[q] < stamp[e]
    BY <2>1, <2>2 DEF Timed, TimedAt
  <2>4. ASSUME NEW e \in listed[t], e # conv[t]
        PROVE  stamp[conv[t]] < stamp[e]
    <3>1. op[e] # "create" /\ conv[t] \in earlier[e]
      BY <2>1, <2>2, <2>4 DEF Begun
    <3>2. op[conv[t]] = "create"
      BY <2>1, <2>2, <3>1 DEF Begun, Known
    <3>3. QED
      BY <2>3, <3>1, <3>2
  <2>5. conv[t] \in Due(t)
    <3>1. phase[t] # "new"
      BY <2>1 DEF Begun
    <3>2. conv[t] \in Requests /\ conv[t] \in earlier[t] /\ op[conv[t]] = "create"
          /\ answer[conv[t]] = "ok"
      BY <2>1, <3>1 DEF Begun, Known
    <3>3. phase[conv[t]] # "new" /\ conv[conv[t]] = conv[t]
      BY <2>1, <3>2 DEF Begun
    <3>4. QED
      BY <3>2, <3>3 DEF Due
  <2>6. Due(t) \subseteq listed[t]
    BY <2>1 DEF ListedAt
  <2>7. QED
    BY <2>3, <2>4, <2>5, <2>6, <2>2 DEF Due
<1>2. QED
  BY <1>1, CoworkInvariance, PTL

\* Nobody is answered about another principal's conversation or shown any of it.
THEOREM Isolation == Spec => []PrincipalsAreIsolated
<1>1. CoworkInv => PrincipalsAreIsolated
  BY DEF CoworkInv, AnswersHappened, Visible, OwnTexts, Listings, ListedAt, Fellow,
    PrincipalsAreIsolated
<1>2. QED
  BY <1>1, CoworkInvariance, PTL

-----------------------------------------------------------------------------


\* The requests whose client knows that they have succeeded.
Told == {r \in Requests : answer[r] = "ok"}

\* What the clients of timelines have been shown.
ShownTo == [r \in Requests |-> Shown(r)]

\* What a request that acts in a conversation relies on: it is there, and its own.
LEMMA ActsInOwn ==
  ASSUME CoworkInv, NEW r \in Requests,
         phase[r] \in {"rooting", "acting", "writing"}
  PROVE  /\ who[r] \in Principals
         /\ phase[r] = "rooting" => conv[r] = r
         /\ phase[r] # "rooting" => J!Owned(r)
<1>1. PlacedAt(r) /\ Begun /\ AnswersHappened
  BY DEF CoworkInv, Placed
<1>2. CASE phase[r] = "rooting"
  BY <1>1, <1>2 DEF PlacedAt, Begun
<1>3. CASE phase[r] # "rooting"
  <2>1. Visible(r) /\ op[r] # "create"
    BY <1>1, <1>3 DEF PlacedAt
  <2>2. conv[r] \in Requests /\ answer[conv[r]] = "ok" /\ op[conv[r]] = "create"
    BY <1>1, <1>3, <2>1 DEF Begun, Known
  <2>3. conv[r] \in events
    BY <1>1, <2>2 DEF AnswersHappened
  <2>4. QED
    BY <1>1, <1>3, <2>1, <2>3 DEF J!Owned, Visible, Begun
<1>4. QED
  BY <1>2, <1>3

\* A step of a request at work is a step of the journal, or does not touch it.
LEMMA WorkIsJournal ==
  ASSUME CoworkInv, NEW r \in Requests, Work(r)
  PROVE  J!Next \/ UNCHANGED J!vars
<1>1. Moved(r) /\ TypeOK /\ PlacedAt(r)
  BY Moves DEF CoworkInv, Placed
<1>2. UNCHANGED <<who, conv, earlier>>
  BY <1>1 DEF Moved, request
<1>3. answer[r] = "none"
  BY <1>1 DEF CoworkInv, Begun, Moved
<1>4. ~ Reply(r) /\ ~ Timeline(r) => Told' = Told
  <2> SUFFICES ASSUME ~ Reply(r), ~ Timeline(r)
               PROVE  \A q \in Requests : answer'[q] = "ok" <=> answer[q] = "ok"
    BY DEF Told
  <2>1. answer'[r] # "ok"
    BY WhichStep DEF CoworkInv
  <2>2. QED
    BY <1>1, <1>3, <2>1 DEF Moved
<1>5. Reply(r) \/ Timeline(r) => Told' = Told \cup {r}
  <2> SUFFICES ASSUME answer' = [answer EXCEPT ![r] = "ok"]
               PROVE  Told' = Told \cup {r}
    BY DEF Reply, Timeline, End
  <2>1. \A q \in Requests : answer'[q] = IF q = r THEN "ok" ELSE answer[q]
    BY <1>1 DEF TypeOK
  <2>2. QED
    BY <2>1 DEF Told
<1>a. ~ Timeline(r) => ShownTo' = ShownTo
  <2> SUFFICES ASSUME ~ Timeline(r)
               PROVE  \A q \in Requests : Shown(q)' = Shown(q)
    BY DEF ShownTo
  <2>1. ASSUME NEW q \in Requests, q # r
        PROVE  Shown(q)' = Shown(q)
    BY <1>1, <2>1 DEF Shown, Moved
  <2>2. Shown(r)' = {}
    <3>1. CASE Reply(r)
      <4>1. op[r] # "timeline" /\ listed' = listed
        BY <1>1, <3>1 DEF Reply, End, Step, PlacedAt, Recording
      <4>2. listed[r] = {}
        BY <4>1 DEF CoworkInv, Listings, ListedAt
      <4>3. QED
        BY <4>1, <4>2 DEF Shown
    <3>2. CASE ~ Reply(r)
      BY <3>2, WhichStep DEF Shown, CoworkInv
    <3>3. QED
      BY <3>1, <3>2
  <2>3. Shown(r) = {}
    BY <1>3 DEF Shown
  <2>4. QED
    BY <2>1, <2>2, <2>3
<1>6. ASSUME Root(r) \/ Mkdir(r) \/ Write(r) \/ Read(r)
      PROVE  J!Do(r)
  <2>1. /\ phase[r] \in {"rooting", "acting", "writing"}
        /\ done' = done \cup {r} /\ UNCHANGED events /\ ~ Reply(r) /\ ~ Timeline(r)
    BY <1>6 DEF Root, Mkdir, Write, Read, Step, database, Reply, Timeline, End
  <2>2. QED
    BY <1>2, <1>4, <1>a, <2>1, ActsInOwn DEF J!Do, Told, ShownTo
<1>7. ASSUME CommitEvent(r)
      PROVE  J!Record(r)
  <2>1. /\ phase[r] = "recording" /\ events' = events \cup {r} /\ UNCHANGED done
        /\ ~ Reply(r) /\ ~ Timeline(r)
    BY <1>7 DEF CommitEvent, Step, Reply, Timeline, End
  <2>2. QED
    BY <1>1, <1>2, <1>4, <1>a, <2>1 DEF J!Record, Told, ShownTo, PlacedAt, Recording
<1>8. ASSUME Reply(r)
      PROVE  J!Answer(r)
  <2>1. phase[r] = "recorded" /\ UNCHANGED <<events, done>> /\ ~ Timeline(r)
    BY <1>8 DEF Reply, Timeline, End, Step, database
  <2>2. QED
    BY <1>1, <1>2, <1>5, <1>8, <1>a, <2>1 DEF J!Answer, Told, ShownTo, PlacedAt
<1>9. ASSUME Timeline(r), NEW s \in SUBSET Requests, s = listed[r]
      PROVE  J!Show(r, s)
  <2>1. /\ phase[r] = "acting" /\ UNCHANGED <<events, done, listed>>
        /\ answer' = [answer EXCEPT ![r] = "ok"]
    BY <1>9 DEF Timeline, End, Step, database
  <2>2. J!Owned(r) /\ EventsHappened /\ ListedAt(r)
    BY <2>1, ActsInOwn DEF CoworkInv, Listings
  <2>3. s \subseteq J!In(conv[r], done)
    BY <1>9, <2>2 DEF ListedAt, Fellow, J!In
  <2>4. J!In(conv[r], earlier[r] \cap events) \subseteq s
    <3>1. J!In(conv[r], earlier[r] \cap events) \subseteq Due(r)
      BY <2>2 DEF EventsHappened, Due, J!In
    <3>2. QED
      BY <1>9, <3>1, DueIsListed
  <2>5. ShownTo' = [ShownTo EXCEPT ![r] = s]
    <3>1. \A q \in Requests : Shown(q)' = IF q = r THEN s ELSE Shown(q)
      BY <1>1, <1>9, <2>1 DEF Shown, TypeOK
    <3>2. QED
      BY <3>1 DEF ShownTo
  <2>6. QED
    BY <1>2, <1>5, <1>9, <2>1, <2>2, <2>3, <2>4, <2>5 DEF J!Show, Told, ShownTo
<1>10. ASSUME ~ Root(r), ~ Mkdir(r), ~ Write(r), ~ Read(r), ~ CommitEvent(r), ~ Reply(r),
              ~ Timeline(r)
       PROVE  UNCHANGED J!vars
  <2>1. UNCHANGED <<events, done>>
    BY <1>10 DEF Work, InsertRow, CommitRow, Validate, TimelineRows, Truncate, Refuse,
      WriteFails, Stamp, InsertEvent, RollBack, database
  <2>2. QED
    BY <1>2, <1>4, <1>10, <1>a, <2>1 DEF J!vars, Told, ShownTo
<1>11. J!Do(r) \/ J!Record(r) \/ J!Answer(r) => J!Next
  BY DEF J!Next
<1>12. Timeline(r) => J!Next
  <2>1. listed[r] \in SUBSET Requests
    BY <1>1 DEF TypeOK
  <2>2. QED
    BY <1>9, <2>1 DEF J!Next
<1>13. QED
  BY <1>6, <1>7, <1>8, <1>10, <1>11, <1>12

\* The endpoints, the connection and the files implement the journal.
THEOREM Refinement == Spec => TimelineIsAJournal
<1>1. Init => J!Init
  BY DEF Init, J!Init, Shown
<1>2. ASSUME CoworkInv, [Next]_vars
      PROVE  [J!Next]_J!vars
  <2>1. CASE Restart
    <3>1. UNCHANGED J!vars
      BY <2>1 DEF Restart, request, J!vars, Shown
    <3>2. QED
      BY <3>1
  <2>2. CASE \E r \in Requests : Work(r)
    BY <1>2, <2>2, WorkIsJournal
  <2>3. ASSUME NEW r \in Requests, NEW o \in Operations, NEW p \in Principals,
               NEW c \in Requests, Begin(r, o, p, c)
        PROVE  J!Ask(r, p, c)
    <3>1. phase[r] = "new" /\ c \in Told \cup {r}
      BY <2>3 DEF Begin, Step, Known, Told
    <3>2. who[r] = None
      BY <1>2, <3>1 DEF CoworkInv, Fresh
    <3>3. /\ who' = [who EXCEPT ![r] = p] /\ conv' = [conv EXCEPT ![r] = c]
          /\ earlier' = [earlier EXCEPT ![r] = Told]
          /\ UNCHANGED <<done, events, listed, answer>>
      BY <2>3 DEF Begin, database, Told
    <3>4. QED
      BY <3>1, <3>2, <3>3 DEF J!Ask, Told, Shown
  <2>4. CASE UNCHANGED vars
    BY <2>4 DEF vars, request, database, J!vars, Shown
  <2>5. QED
    BY <1>2, <2>1, <2>2, <2>3, <2>4 DEF Next, J!Next
<1>3. QED
  BY <1>1, <1>2, CoworkInvariance, PTL DEF Spec, TimelineIsAJournal, J!Spec

-----------------------------------------------------------------------------
(* What a read returns although files have no lock: when the writes to a   *)
(* file were answered one after the other, and before the read began, it   *)
(* returns the last of them, for any requests, failures and restarts.      *)
(*                                                                         *)
(* A write that has the file to itself, because every other one either had *)
(* been answered when it began or has not touched the file, finds it empty *)
(* after its truncation and leaves its own text alone in it.               *)

\* w has its file to itself.
Alone(w) ==
  \A v \in Writes(w) : v # w => v \in earlier[w] \/ phase[v] \in {"validating", "acting"}

\* What a write that is alone has made of its file.
FileAt(w) ==
  /\ op[w] = "write" /\ phase[w] = "writing" /\ Alone(w) => file[conv[w]] = {}
  /\ op[w] = "write" /\ w \in done /\ Alone(w) => file[conv[w]] = {w}

FileInv ==
  /\ \A w \in Requests : FileAt(w)
  /\ \A r \in Requests : phase[r] \in {"validating", "acting", "writing"} => r \notin done
  /\ ReadsLastWrite

-----------------------------------------------------------------------------

\* Which steps touch a file, complete an effect, return a text, or leave a request
\* before its effect.
LEMMA FileSteps ==
  ASSUME TypeOK, Placed, NEW r \in Requests, Work(r)
  PROVE  /\ file' # file => Truncate(r) \/ Write(r)
         /\ phase'[r] = "writing" => Truncate(r)
         /\ done' # done => Root(r) \/ Mkdir(r) \/ Write(r) \/ Read(r)
         /\ seen' # seen => Read(r)
         /\ phase'[r] \in {"validating", "acting"} =>
              phase[r] \in {"validating", "acting"} /\ done' = done
<1> PlacedAt(r)
  BY DEF Placed
<1> USE DEF Step, End, Resolve, database, workspace, request
<1>1. CASE InsertRow(r)
  BY <1>1 DEF InsertRow, TypeOK
<1>2. CASE CommitRow(r)
  BY <1>2 DEF CommitRow, TypeOK
<1>3. CASE Root(r)
  BY <1>3 DEF Root, TypeOK
<1>4. CASE Validate(r)
  BY <1>4 DEF Validate, TypeOK
<1>5. CASE Timeline(r)
  BY <1>5 DEF Timeline, TypeOK
<1>6. CASE Mkdir(r)
  BY <1>6 DEF Mkdir, TypeOK
<1>7. CASE Truncate(r)
  BY <1>7 DEF Truncate, TypeOK
<1>8. CASE Write(r)
  BY <1>8 DEF Write, TypeOK
<1>9. CASE Read(r)
  BY <1>9 DEF Read, TypeOK
<1>10. CASE Refuse(r)
  BY <1>10 DEF Refuse, TypeOK
<1>11. CASE WriteFails(r)
  BY <1>11 DEF WriteFails, TypeOK
<1>12. CASE Stamp(r)
  BY <1>12 DEF Stamp, TypeOK
<1>13. CASE InsertEvent(r)
  BY <1>13 DEF InsertEvent, TypeOK
<1>14. CASE CommitEvent(r)
  BY <1>14 DEF CommitEvent, TypeOK
<1>15. CASE Reply(r)
  BY <1>15 DEF Reply, TypeOK
<1>16. CASE RollBack(r)
  <2>1. PICK from \in {"naming", "recording"} : End(r, from, "error")
    BY <1>16 DEF RollBack
  <2>2. QED
    BY <1>16, <2>1 DEF RollBack, TypeOK
<1>17. CASE TimelineRows(r)
  BY <1>17 DEF TimelineRows, TypeOK
<1>18. QED
  BY <1>1, <1>2, <1>3, <1>4, <1>5, <1>6, <1>7, <1>8, <1>9, <1>10, <1>11, <1>12,
     <1>13, <1>14, <1>15, <1>16, <1>17 DEF Work

\* A write that was answered is done.
LEMMA AnsweredIsDone ==
  ASSUME CoworkInv, NEW w \in Requests, op[w] = "write", answer[w] = "ok"
  PROVE  w \in done /\ stamp[w] \in Nat /\ stamp[w] > 0 /\ stamp[w] <= clock
<1>1. w \in events
  BY DEF CoworkInv, AnswersHappened
<1>2. w \in done /\ stamp[w] > 0
  BY <1>1 DEF CoworkInv, EventsHappened, Timed, TimedAt
<1>3. stamp[w] \in 0..clock /\ clock \in Nat
  BY DEF CoworkInv, TypeOK
<1> QED
  BY <1>2, <1>3

\* Of writes answered one after the other there is a last one.
LEMMA LastWrite ==
  ASSUME CoworkInv, NEW W \in SUBSET Requests, W # {},
         \A w \in W : op[w] = "write" /\ answer[w] = "ok",
         \A v, w \in W : v = w \/ v \in earlier[w] \/ w \in earlier[v]
  PROVE  \E w \in W : W \ {w} \subseteq earlier[w]
<1> DEFINE ages == {clock - stamp[w] : w \in W}
<1>1. \A w \in W : stamp[w] \in Nat /\ stamp[w] > 0 /\ stamp[w] <= clock
  BY AnsweredIsDone
<1>2. clock \in Nat
  BY DEF CoworkInv, TypeOK
<1>3. ages \in SUBSET Nat /\ ages # {}
  BY <1>1, <1>2
<1>4. PICK n \in ages : \A m \in ages : n <= m
  <2> HIDE DEF ages
  <2>1. PICK n \in ages : \A m \in ages : <<m, n>> \notin OpToRel(<, Nat)
    BY <1>3, NatLessThanWellFounded, WFMin
  <2>2. \A m \in ages : n \in Nat /\ m \in Nat /\ ~ (m < n)
    BY <1>3, <2>1, Zenon DEF OpToRel
  <2> QED
    BY <2>2
<1>5. PICK w \in W : n = clock - stamp[w]
  BY <1>4
<1>6. ASSUME NEW v \in W PROVE stamp[v] <= stamp[w]
  <2>1. clock - stamp[w] <= clock - stamp[v]
    BY <1>4, <1>5
  <2> QED
    BY <1>1, <1>2, <2>1
<1>7. ASSUME NEW v \in W, w \in earlier[v] PROVE FALSE
  <2>1. stamp[w] < stamp[v]
    BY <1>1, <1>7 DEF CoworkInv, Timed, TimedAt
  <2> QED
    BY <1>1, <1>6, <2>1
<1> QED
  BY <1>7

\* Requests that have begun stay about what they are about, under any step of one at work.
LEMMA WritesStay ==
  ASSUME CoworkInv, NEW r \in Requests, Work(r), NEW w \in Requests
  PROVE  /\ Writes(w)' = Writes(w)
         /\ Alone(w)' => Alone(w)
<1>1. TypeOK /\ Placed /\ Moved(r)
  BY Moves DEF CoworkInv
<1>2. Writes(w)' = Writes(w)
  BY <1>1 DEF Writes, Moved, request
<1>3. \A v \in Requests : phase'[v] \in {"validating", "acting"} => phase[v] \in {"validating", "acting"}
  BY <1>1, FileSteps DEF Moved
<1>4. earlier' = earlier
  BY <1>1 DEF Moved, request
<1>5. Alone(w)' => Alone(w)
  BY <1>2, <1>3, <1>4 DEF Alone, Writes
<1> QED
  BY <1>2, <1>5

\* A step of a request at work leaves to every write that is alone what it made.
LEMMA WorkKeepsFiles ==
  ASSUME CoworkInv, FileInv, NEW r \in Requests, Work(r), NEW w \in Requests
  PROVE  FileAt(w)'
<1>1. TypeOK /\ Placed /\ Moved(r) /\ Begun /\ PlacedAt(r)
  BY Moves DEF CoworkInv, Placed
<1>2. UNCHANGED <<op, conv, earlier>>
  BY <1>1 DEF Moved, request
<1>3. Alone(w)' => Alone(w)
  BY WritesStay
<1>4. FileAt(w) /\ (phase[r] \in {"validating", "acting", "writing"} => r \notin done)
  BY DEF FileInv
\* A step that touches the file of another write spoils it for that write.
<1>5. ASSUME Truncate(r) \/ Write(r), w # r, op[w] = "write", conv[w] = conv[r]
      PROVE  ~ Alone(w)'
  <2>1. phase[r] \in {"acting", "writing"} /\ op[r] = "write" /\ phase'[r] \in {"writing", "appending"}
    BY <1>1, <1>5 DEF Truncate, Write, Step, PlacedAt, TypeOK
  <2>2. r \in Writes(w)'
    BY <1>2, <1>5, <2>1 DEF Writes
  <2>3. r \notin earlier'[w]
    BY <1>1, <1>2, <2>1 DEF Begun
  <2> QED
    BY <1>5, <2>1, <2>2, <2>3 DEF Alone
<1>6. \A c \in Requests : c # conv[r] /\ (Truncate(r) \/ Write(r)) => file'[c] = file[c]
  BY <1>1 DEF Truncate, Write, TypeOK
<1>7. w # r => phase'[w] = phase[w] /\ (w \in done' <=> w \in done)
  BY <1>1 DEF Moved
<1>8. conv[w] \in Requests
  BY <1>1 DEF TypeOK
<1>a. CASE w # r /\ (Truncate(r) \/ Write(r))
  BY <1>2, <1>3, <1>4, <1>5, <1>6, <1>7, <1>8, <1>a DEF FileAt
<1>b. CASE w = r /\ Truncate(r)
  <2>1. phase[r] = "acting" /\ file'[conv[r]] = {} /\ done' = done
    BY <1>1, <1>8, <1>b DEF Truncate, Step, TypeOK
  <2> QED
    BY <1>2, <1>4, <1>b, <2>1 DEF FileAt
<1>c. CASE w = r /\ Write(r)
  <2>1. phase[r] = "writing" /\ phase'[r] = "appending"
    BY <1>1, <1>c DEF Write, Step, TypeOK
  <2>2. PICK text \in {{r}, {r} \cup file[conv[r]]} : file' = [file EXCEPT ![conv[r]] = text]
    BY <1>c DEF Write
  <2>3. file'[conv[r]] = text
    BY <1>1, <1>8, <1>c, <2>2 DEF TypeOK
  <2>4. Alone(w) /\ op[w] = "write" => text = {r}
    BY <1>4, <1>c, <2>1, <2>2 DEF FileAt
  <2> QED
    BY <1>2, <1>3, <1>c, <2>1, <2>3, <2>4 DEF FileAt
<1>d. CASE ~ Truncate(r) /\ ~ Write(r)
  <2>1. file' = file /\ (phase'[w] = "writing" => phase[w] = "writing")
    BY <1>1, <1>7, <1>d, FileSteps
  <2>2. op[w] = "write" /\ w \in done' => w \in done
    <3>1. CASE w = r
      BY <1>1, <1>d, <3>1, FileSteps DEF Root, Mkdir, Read, Step, PlacedAt
    <3> QED
      BY <1>7, <3>1
  <2> QED
    BY <1>2, <1>3, <1>4, <2>1, <2>2 DEF FileAt
<1> QED
  BY <1>a, <1>b, <1>c, <1>d

\* A read whose writers have all been answered finds the text of the last of them.
LEMMA ReadReturns ==
  ASSUME CoworkInv, FileInv, NEW r \in Requests, Writes(r) # {}, Writes(r) \subseteq earlier[r],
         \A v, w \in Writes(r) : v = w \/ v \in earlier[w] \/ w \in earlier[v]
  PROVE  \E w \in Writes(r) : file[conv[r]] = {w} /\ Writes(r) \ {w} \subseteq earlier[w]
<1>1. \A w \in Writes(r) : w \in Requests /\ op[w] = "write" /\ answer[w] = "ok" /\ conv[w] = conv[r]
  BY DEF Writes, CoworkInv, Begun
<1>2. PICK w \in Writes(r) : Writes(r) \ {w} \subseteq earlier[w]
  <2>1. Writes(r) \in SUBSET Requests
    BY <1>1
  <2> QED
    BY <1>1, <2>1, LastWrite
<1>3. Alone(w) /\ w \in done
  BY <1>1, <1>2, AnsweredIsDone DEF Alone, Writes
<1>4. file[conv[r]] = {w}
  BY <1>1, <1>3 DEF FileInv, FileAt
<1> QED
  BY <1>2, <1>4

\* Reads return what ReadReturns says, and what was read stays as it was.
LEMMA WorkKeepsReads ==
  ASSUME CoworkInv, FileInv, NEW s \in Requests, Work(s)
  PROVE  ReadsLastWrite'
<1>1. TypeOK /\ Placed /\ Moved(s) /\ PlacedAt(s)
  BY Moves DEF CoworkInv, Placed
<1>2. UNCHANGED <<op, conv, earlier>>
  BY <1>1 DEF Moved, request
<1> SUFFICES ASSUME NEW r \in Requests,
                    op'[r] = "read", r \in done', Writes(r)' # {}, Writes(r)' \subseteq earlier'[r],
                    \A v, w \in Writes(r)' : v = w \/ v \in earlier'[w] \/ w \in earlier'[v]
             PROVE  \E w \in Writes(r)' : seen'[r] = {w} /\ Writes(r)' \ {w} \subseteq earlier'[w]
  BY DEF ReadsLastWrite
<1>3. Writes(r)' = Writes(r)
  BY WritesStay
<1>4. CASE r = s /\ Read(s)
  <2>1. seen'[r] = file[conv[r]]
    BY <1>1, <1>4 DEF Read, TypeOK
  <2> QED
    BY <1>2, <1>3, <2>1, ReadReturns
<1>5. CASE ~ (r = s /\ Read(s))
  <2>1. seen'[r] = seen[r]
    BY <1>1, <1>5, FileSteps DEF Moved
  <2>2. r \in done
    <3>1. CASE r = s
      BY <1>1, <1>2, <1>5, <3>1, FileSteps DEF Root, Mkdir, Write, Step, PlacedAt
    <3> QED
      BY <1>1, <3>1 DEF Moved
  <2> QED
    BY <1>2, <1>3, <2>1, <2>2 DEF FileInv, ReadsLastWrite
<1> QED
  BY <1>4, <1>5

\* A request that begins is alone with nothing yet, and no read knows it.
LEMMA BeginKeepsFiles ==
  ASSUME CoworkInv, FileInv, NEW r \in Requests, NEW o \in Operations, NEW p \in Principals,
         NEW c \in Requests, Begin(r, o, p, c)
  PROVE  FileInv'
<1>1. TypeOK /\ Fresh /\ Begun
  BY DEF CoworkInv
<1>2. /\ phase[r] = "new" /\ phase'[r] \in {"creating", "validating"}
      /\ UNCHANGED <<answer, file, seen, done>>
  BY <1>1 DEF Begin, Step, workspace, TypeOK
<1>3. \A q \in Requests : q # r => /\ phase'[q] = phase[q] /\ op'[q] = op[q]
                                   /\ conv'[q] = conv[q] /\ earlier'[q] = earlier[q]
  BY <1>1 DEF Begin, Step, TypeOK
<1>4. r \notin done /\ answer[r] = "none"
  BY <1>1, <1>2 DEF Fresh, Begun
<1>5. \A q \in Requests : q # r => Writes(q)' \ {r} = Writes(q)
  BY <1>2, <1>3 DEF Writes
<1>6. ASSUME NEW w \in Requests PROVE FileAt(w)'
  <2>1. CASE w = r
    BY <1>2, <1>4, <2>1 DEF FileAt
  <2>2. CASE w # r
    <3>1. Alone(w)' => Alone(w)
      BY <1>3, <1>5, <2>2 DEF Alone, Writes
    <3> QED
      BY <1>2, <1>3, <2>2, <3>1 DEF FileInv, FileAt
  <2> QED
    BY <2>1, <2>2
<1>7. ReadsLastWrite'
  <2> SUFFICES ASSUME NEW q \in Requests,
                      op'[q] = "read", q \in done', Writes(q)' # {}, Writes(q)' \subseteq earlier'[q],
                      \A v, w \in Writes(q)' : v = w \/ v \in earlier'[w] \/ w \in earlier'[v]
               PROVE  \E w \in Writes(q)' : seen'[q] = {w} /\ Writes(q)' \ {w} \subseteq earlier'[w]
    BY DEF ReadsLastWrite
  <2>1. q # r
    BY <1>2, <1>4
  <2>2. r \notin Writes(q)'
    BY <1>1, <1>3, <1>4, <2>1 DEF Begun
  <2>3. Writes(q)' = Writes(q)
    BY <1>5, <2>1, <2>2
  <2>4. \A w \in Writes(q) : w \in Requests /\ earlier'[w] = earlier[w]
    BY <1>3, <2>2, <2>3 DEF Writes
  <2> QED
    BY <1>2, <1>3, <2>1, <2>3, <2>4 DEF FileInv, ReadsLastWrite
<1> QED
  BY <1>2, <1>3, <1>4, <1>6, <1>7 DEF FileInv

\* A restart leaves the files as they are.
LEMMA RestartKeepsFiles ==
  ASSUME CoworkInv, FileInv, Restart
  PROVE  FileInv'
<1>1. /\ \A r \in Requests : phase'[r] = IF phase[r] = "new" THEN "new" ELSE "ended"
      /\ UNCHANGED <<op, conv, earlier, file, seen, done>>
  BY DEF Restart, request, workspace
<1>2. \A r \in Requests : Writes(r)' = Writes(r)
  BY <1>1 DEF Writes
<1>3. \A w \in Requests : Alone(w)' => Alone(w)
  BY <1>1, <1>2 DEF Alone, Writes
<1>4. \A w \in Requests : FileAt(w)'
  BY <1>1, <1>3 DEF FileInv, FileAt
<1>5. ReadsLastWrite'
  BY <1>1, <1>2 DEF FileInv, ReadsLastWrite
<1> QED
  BY <1>1, <1>4, <1>5 DEF FileInv

-----------------------------------------------------------------------------

\* When the writes to a file were answered one after the other, and all of them before
\* a read began, the read returns the last of them (workspace/manager.py).
THEOREM LastWriteIsRead == Spec => []ReadsLastWrite
<1>1. Init => FileInv
  BY DEF Init, FileInv, FileAt, ReadsLastWrite
<1>2. CoworkInv /\ FileInv /\ [Next]_vars => FileInv'
  <2> SUFFICES ASSUME CoworkInv, FileInv, [Next]_vars PROVE FileInv'
    OBVIOUS
  <2>1. CASE Restart
    BY <2>1, RestartKeepsFiles
  <2>2. ASSUME NEW r \in Requests, Work(r) PROVE FileInv'
    <3>1. TypeOK /\ Placed /\ Moved(r)
      BY <2>2, Moves DEF CoworkInv
    <3>2. \A q \in Requests : phase'[q] \in {"validating", "acting", "writing"} => q \notin done'
      <4>1. phase'[r] \in {"validating", "acting", "writing"} => r \notin done'
        BY <2>2, <3>1, FileSteps DEF FileInv, Truncate, Step
      <4> QED
        BY <3>1, <4>1 DEF FileInv, Moved
    <3> QED
      BY <2>2, <3>2, WorkKeepsFiles, WorkKeepsReads DEF FileInv
  <2>3. CASE \E r \in Requests, o \in Operations, p \in Principals, c \in Requests : Begin(r, o, p, c)
    BY <2>3, BeginKeepsFiles
  <2>4. CASE UNCHANGED vars
    <3>1. UNCHANGED <<phase, op, conv, earlier, file, seen, done>>
      BY <2>4 DEF vars, request, database, workspace
    <3> QED
      BY <3>1 DEF FileInv, FileAt, Alone, Writes, ReadsLastWrite
  <2> QED
    BY <2>1, <2>2, <2>3, <2>4 DEF Next
<1>3. FileInv => ReadsLastWrite
  BY DEF FileInv
<1> QED
  BY <1>1, <1>2, <1>3, CoworkInvariance, PTL DEF Spec
=============================================================================
