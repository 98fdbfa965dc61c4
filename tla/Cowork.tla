------------------------------- MODULE Cowork -------------------------------
(***************************************************************************)
(* Conversations, their timelines and their workspaces: the endpoints of   *)
(* routers/cowork.py over ConversationService (conversations/service.py)   *)
(* and WorkspaceService (workspace/manager.py).                            *)
(*                                                                         *)
(* Every request runs on a worker thread of its own and is made of         *)
(* independent effects: commits to one shared SQLite connection, whose     *)
(* writers take a lock and whose readers do not, and writes to files,      *)
(* which nothing serialises.  Any effect may fail and the process may be   *)
(* killed between any two of them and started again on the same data.      *)
(*                                                                         *)
(* A conversation is named by the request that creates it, an event by the *)
(* request that records it.  Every conversation has one file: requests to  *)
(* different files meet only in the database.                              *)
(***************************************************************************)
EXTENDS Naturals, FiniteSets

CONSTANTS Requests,
          Principals,   \* the hash of an Authorization header, or local access without one
          None,
          MaxTrouble    \* bound on failures and restarts

ASSUME CoworkAssumption ==
  /\ IsFiniteSet(Requests)
  /\ None \notin Requests \cup Principals
  /\ MaxTrouble \in Nat

VARIABLES phase,    \* where each request is
          op,       \* the endpoint it calls
          who,      \* its principal
          conv,     \* the conversation it is about
          answer,   \* what its client has got
          rows,     \* the conversations committed
          events,   \* the timeline events committed
          pending,  \* the request whose transaction is open and which holds _lock
          stamp,    \* created_at of its event; 0 before it is taken
          clock,    \* the last created_at
          dirs,     \* the conversations that have a workspace directory
          written,  \* the conversations whose file exists
          file,     \* whose text each file holds
          seen,     \* whose text a read has returned
          listed,   \* the events a timeline request has fetched, in the order of stamp
          trouble,  \* failures and restarts so far
          done,     \* history: the requests whose effect on the workspace is complete
          earlier   \* history: the requests answered before each request began

database == <<rows, events, pending, stamp, clock>>
workspace == <<dirs, written, file>>
request == <<op, who, conv, earlier>>
vars == <<phase, request, answer, database, workspace, seen, listed, trouble, done>>

Operations == {"create", "timeline", "mkdir", "write", "read"}

Init ==
  /\ phase = [r \in Requests |-> "new"]
  /\ op = [r \in Requests |-> "create"]
  /\ who = [r \in Requests |-> None]
  /\ conv = [r \in Requests |-> r]
  /\ answer = [r \in Requests |-> "none"]
  /\ rows = {}
  /\ events = {}
  /\ pending = None
  /\ stamp = [r \in Requests |-> 0]
  /\ clock = 0
  /\ dirs = {}
  /\ written = {}
  /\ file = [r \in Requests |-> {}]
  /\ seen = [r \in Requests |-> {}]
  /\ listed = [r \in Requests |-> {}]
  /\ trouble = 0
  /\ done = {}
  /\ earlier = [r \in Requests |-> {}]

-----------------------------------------------------------------------------
(* The shared connection.                                                  *)

\* Mutant: a query without the principal.
VisibleToAnyone(r) == conv[r] \in rows

\* ConversationService.get, without the lock; nobody knows the id of a row that
\* is not committed yet.  WHERE id = ? AND principal_id = ?.
Visible(r) == conv[r] \in rows /\ who[conv[r]] = who[r]

\* A reader of the shared connection sees what the open transaction inserted.
Recorded == events \cup (IF pending = None \/ phase[pending] # "recording" THEN {} ELSE {pending})

\* The rows that the SELECT of ConversationService.timeline is about.
Listing(r) == {e \in Recorded : conv[e] = conv[r] /\ who[e] = who[r]}

\* ORDER BY created_at: the rows of the index that its cursor has before it.
Ahead(r) == {e \in Listing(r) : \A q \in listed[r] : stamp[q] < stamp[e]}

Step(r, from, to) == phase[r] = from /\ phase' = [phase EXCEPT ![r] = to]
End(r, from, a) == Step(r, from, "ended") /\ answer' = [answer EXCEPT ![r] = a]

\* An effect fails: something the process does not control, at most MaxTrouble times.
Trouble == trouble < MaxTrouble /\ trouble' = trouble + 1

-----------------------------------------------------------------------------
(* Requests.                                                               *)

\* The ids that clients know are those of answered creations.
Known == {c \in Requests : op[c] = "create" /\ answer[c] = "ok"}

Begin(r, o, p, c) ==
  /\ Step(r, "new", IF o = "create" THEN "creating" ELSE "validating")
  /\ IF o = "create" THEN c = r ELSE c \in Known
  /\ op' = [op EXCEPT ![r] = o]
  /\ who' = [who EXCEPT ![r] = p]
  /\ conv' = [conv EXCEPT ![r] = c]
  /\ earlier' = [earlier EXCEPT ![r] = {q \in Requests : answer[q] = "ok"}]
  /\ UNCHANGED <<answer, database, workspace, seen, listed, trouble, done>>

\* create: the row of the conversation is inserted under the lock.
InsertRow(r) ==
  /\ Step(r, "creating", "naming")
  /\ pending = None
  /\ pending' = r
  /\ UNCHANGED <<request, answer, rows, events, stamp, clock, workspace, seen, listed,
                 trouble, done>>

CommitRow(r) ==
  /\ Step(r, "naming", "rooting")
  /\ rows' = rows \cup {r}
  /\ pending' = None
  /\ UNCHANGED <<request, answer, events, stamp, clock, workspace, seen, listed,
                 trouble, done>>

\* workspaces.workspace_root makes the directory of the new conversation.
Root(r) ==
  /\ Step(r, "rooting", "appending")
  /\ dirs' = dirs \cup {r}
  /\ done' = done \cup {r}
  /\ UNCHANGED <<request, answer, database, written, file, seen, listed, trouble>>

\* _validate_conversation, or the get at the head of timeline.
Validate(r) ==
  /\ IF Visible(r) THEN Step(r, "validating", "acting") /\ UNCHANGED answer
                   ELSE End(r, "validating", "not found")
  /\ UNCHANGED <<request, database, workspace, seen, listed, trouble, done>>

\* fetchall steps through the index without the lock: the rows with the next
\* created_at, while other threads insert, commit and roll back on the connection.
TimelineRows(r) ==
  /\ op[r] = "timeline"
  /\ phase[r] = "acting"
  /\ Ahead(r) # {}
  /\ listed' = [listed EXCEPT ![r] =
       @ \cup {e \in Ahead(r) : \A f \in Ahead(r) : stamp[e] <= stamp[f]}]
  /\ UNCHANGED <<phase, request, answer, database, workspace, seen, trouble, done>>

\* The cursor is at the end.
Timeline(r) ==
  /\ op[r] = "timeline"
  /\ Ahead(r) = {}
  /\ End(r, "acting", "ok")
  /\ UNCHANGED <<request, database, workspace, seen, listed, trouble, done>>

\* resolve makes the root of the workspace before anything in it.
Resolve(r) == dirs' = dirs \cup {conv[r]}

Mkdir(r) ==
  /\ op[r] = "mkdir"
  /\ Step(r, "acting", "appending")
  /\ Resolve(r)
  /\ done' = done \cup {r}
  /\ UNCHANGED <<request, answer, database, written, file, seen, listed, trouble>>

\* Mutant: the file is opened without being truncated.
TruncateNot(r) ==
  /\ op[r] = "write"
  /\ Step(r, "acting", "writing")
  /\ Resolve(r)
  /\ written' = written \cup {conv[r]}
  /\ UNCHANGED <<request, answer, database, file, seen, listed, trouble, done>>

\* Path.write_text opens the file, which empties it.
Truncate(r) ==
  /\ op[r] = "write"
  /\ Step(r, "acting", "writing")
  /\ Resolve(r)
  /\ written' = written \cup {conv[r]}
  /\ file' = [file EXCEPT ![conv[r]] = {}]
  /\ UNCHANGED <<request, answer, database, seen, listed, trouble, done>>

\* The text is written from the start of the file, over what another writer has
\* written since; where that is longer, its end remains.
Write(r) ==
  /\ Step(r, "writing", "appending")
  /\ \E text \in {{r}, {r} \cup file[conv[r]]} : file' = [file EXCEPT ![conv[r]] = text]
  /\ done' = done \cup {r}
  /\ UNCHANGED <<request, answer, database, dirs, written, seen, listed, trouble>>

Read(r) ==
  /\ op[r] = "read"
  /\ conv[r] \in written
  /\ Step(r, "acting", "appending")
  /\ Resolve(r)
  /\ seen' = [seen EXCEPT ![r] = file[conv[r]]]
  /\ done' = done \cup {r}
  /\ UNCHANGED <<request, answer, database, written, file, listed, trouble>>

\* A path that is refused, a file too large or absent, a query or a mkdir that
\* raises: an error, and nothing has changed.  The row of a new conversation stays.
Refuse(r) ==
  /\ phase[r] \in {"rooting", "acting"}
  /\ End(r, phase[r], "error")
  /\ UNCHANGED <<request, database, workspace, seen, listed, trouble, done>>

\* Mutant: the error of a write is not raised.
WriteFailsSilently(r) ==
  /\ Trouble
  /\ Step(r, "writing", "appending")
  /\ UNCHANGED <<request, answer, database, workspace, seen, listed, done>>

\* The disk is full: an error, and the file has lost its text.
WriteFails(r) ==
  /\ Trouble
  /\ End(r, "writing", "error")
  /\ UNCHANGED <<request, database, workspace, seen, listed, done>>

\* Mutant: the event carries the time of its conversation.
StampOfConversation(r) ==
  /\ Visible(r)
  /\ Step(r, "appending", "stamped")
  /\ clock' = clock + 1
  /\ stamp' = [stamp EXCEPT ![r] = IF conv[r] = r THEN clock + 1 ELSE stamp[conv[r]]]
  /\ UNCHANGED <<request, answer, rows, events, pending, workspace, seen, listed, trouble, done>>

\* append_event: the get, then created_at, still without the lock.
Stamp(r) ==
  /\ IF Visible(r)
     THEN /\ Step(r, "appending", "stamped")
          /\ clock' = clock + 1
          /\ stamp' = [stamp EXCEPT ![r] = clock + 1]
          /\ UNCHANGED answer
     ELSE /\ End(r, "appending", "error")
          /\ UNCHANGED <<clock, stamp>>
  /\ UNCHANGED <<request, rows, events, pending, workspace, seen, listed, trouble, done>>

InsertEvent(r) ==
  /\ Step(r, "stamped", "recording")
  /\ pending = None
  /\ pending' = r
  /\ UNCHANGED <<request, answer, rows, events, stamp, clock, workspace, seen, listed,
                 trouble, done>>

CommitEvent(r) ==
  /\ Step(r, "recording", "recorded")
  /\ events' = events \cup {r}
  /\ pending' = None
  /\ UNCHANGED <<request, answer, rows, stamp, clock, workspace, seen, listed, trouble, done>>

\* The endpoint returns; a process killed before it does leaves the client in doubt.
Reply(r) ==
  /\ End(r, "recorded", "ok")
  /\ UNCHANGED <<request, database, workspace, seen, listed, trouble, done>>

\* Mutant: the lock is not left when a commit raises.
RollBackHolding(r) ==
  /\ Trouble
  /\ \E from \in {"naming", "recording"} : End(r, from, "error")
  /\ UNCHANGED <<request, database, workspace, seen, listed, done>>

\* Mutant: an event is best effort.
RollBackSilently(r) ==
  /\ Trouble
  /\ \E from \in {"naming", "recording"} : End(r, from, "ok")
  /\ pending' = None
  /\ UNCHANGED <<request, rows, events, stamp, clock, workspace, seen, listed, done>>

\* An INSERT or a COMMIT raises: `with connection` rolls back and the lock is
\* left; what the request has done before remains.
RollBack(r) ==
  /\ Trouble
  /\ \E from \in {"naming", "recording"} : End(r, from, "error")
  /\ pending' = None
  /\ UNCHANGED <<request, rows, events, stamp, clock, workspace, seen, listed, done>>

\* The process is killed and started again: open transactions are lost.
Restart ==
  /\ Trouble
  /\ phase' = [r \in Requests |-> IF phase[r] = "new" THEN "new" ELSE "ended"]
  /\ pending' = None
  /\ UNCHANGED <<request, answer, rows, events, stamp, clock, workspace, seen, listed, done>>

Work(r) ==
  \/ InsertRow(r) \/ CommitRow(r) \/ Root(r) \/ Validate(r) \/ TimelineRows(r) \/ Timeline(r)
  \/ Mkdir(r) \/ Truncate(r) \/ Write(r) \/ Read(r) \/ Refuse(r) \/ WriteFails(r) \/ Stamp(r)
  \/ InsertEvent(r) \/ CommitEvent(r) \/ Reply(r) \/ RollBack(r)

Next ==
  \/ Restart
  \/ \E r \in Requests :
       \/ Work(r)
       \/ \E o \in Operations, p \in Principals, c \in Requests : Begin(r, o, p, c)

Spec == Init /\ [][Next]_vars

-----------------------------------------------------------------------------
(* Properties.                                                             *)

Phases == {"new", "creating", "naming", "rooting", "validating", "acting", "writing",
           "appending", "stamped", "recording", "recorded", "ended"}

\* The type of every variable; the lock of the connection is held exactly as
\* long as a transaction is open, so no failure leaves it behind.
TypeOK ==
  /\ phase \in [Requests -> Phases]
  /\ op \in [Requests -> Operations]
  /\ who \in [Requests -> Principals \cup {None}]
  /\ conv \in [Requests -> Requests]
  /\ answer \in [Requests -> {"none", "ok", "not found", "error"}]
  /\ rows \subseteq Requests
  /\ events \subseteq Requests
  /\ pending \in Requests \cup {None}
  /\ \A r \in Requests : phase[r] \in {"naming", "recording"} <=> pending = r
  /\ stamp \in [Requests -> 0..clock]
  /\ clock \in Nat
  /\ dirs \subseteq Requests
  /\ written \subseteq Requests
  /\ file \in [Requests -> SUBSET Requests]
  /\ seen \in [Requests -> SUBSET Requests]
  /\ listed \in [Requests -> SUBSET Requests]
  /\ trouble \in 0..MaxTrouble
  /\ done \subseteq Requests
  /\ earlier \in [Requests -> SUBSET Requests]

Answered(o) == {r \in Requests : op[r] = o /\ answer[r] = "ok"}

\* What a client was told is there for good, through failures and restarts of any
\* later request: a creation has its row, its directory and its first event, and
\* every change and every read of a file has its event.
AnswersAreDurable ==
  /\ Answered("create") \subseteq rows \cap dirs
  /\ \A r \in Requests : answer[r] = "ok" /\ op[r] # "timeline" => r \in events

\* A timeline lists everything whose request was answered before it was asked for,
\* begins with the creation, and never shows a request before one that had been
\* answered when it began, although created_at is taken without the lock.
TimelineIsComplete ==
  \A t \in Answered("timeline") :
    /\ {r \in earlier[t] : conv[r] = conv[t] /\ op[r] # "timeline"} \subseteq listed[t]
    /\ conv[t] \in listed[t]
    /\ \A e \in listed[t] \ {conv[t]} : stamp[conv[t]] < stamp[e]
    /\ \A d, e \in listed[t] : d \in earlier[e] => stamp[d] < stamp[e]

\* Nobody is answered about another principal's conversation, and what is shown of
\* a conversation and its file comes from requests of its own principal.
PrincipalsAreIsolated ==
  \A r \in Requests :
    /\ answer[r] = "ok" => who[r] = who[conv[r]]
    /\ \A q \in seen[r] \cup listed[r] : who[q] = who[r] /\ conv[q] = conv[r]

\* The writes to the file of r's conversation that have begun.
Writes(r) == {w \in Requests : op[w] = "write" /\ conv[w] = conv[r] /\ phase[w] # "new"}

\* Files have no lock, but when the writes to a file were answered one after the
\* other, and all of them before a read began, the read returns the last of them.
ReadsLastWrite ==
  \A r \in Requests :
    /\ op[r] = "read"
    /\ r \in done
    /\ Writes(r) # {}
    /\ Writes(r) \subseteq earlier[r]
    /\ \A v, w \in Writes(r) : v = w \/ v \in earlier[w] \/ w \in earlier[v]
    => \E w \in Writes(r) : seen[r] = {w} /\ Writes(r) \ {w} \subseteq earlier[w]

\* What the client of a timeline request has been shown.
Shown(r) == IF answer[r] = "ok" THEN listed[r] ELSE {}

J == INSTANCE Journal WITH journal <- events,
                           heard <- earlier,
                           shown <- [r \in Requests |-> Shown(r)],
                           answered <- {r \in Requests : answer[r] = "ok"}

\* Together the connection, the files and the threads are a journal per conversation:
\* no timeline shows what was not done or is another principal's, also while a
\* transaction is open and although its rows are fetched one after the other, and no
\* answer is ahead of its event (conversations/service.py).
TimelineIsAJournal == J!Spec
=============================================================================
