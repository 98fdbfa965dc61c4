------------------------------- MODULE Journal -------------------------------
(***************************************************************************)
(* What conversations and their timelines promise, whatever the database,  *)
(* the files and the threads beneath them do: what is in a journal has     *)
(* been done, by the owner of the conversation; what was answered is in    *)
(* the journal for good; and a reader is shown all that was answered       *)
(* before it asked and, of what has been done since, any part.             *)
(*                                                                         *)
(* Any request may stop at any point and never be heard of again.          *)
(***************************************************************************)
CONSTANTS Requests, Principals, None

VARIABLES who,       \* the principal of a request
          conv,      \* its conversation, named by the request that creates it
          done,      \* the requests whose effect is complete
          journal,   \* the requests that are recorded
          heard,     \* the requests that were answered before it was made
          shown,     \* what a reader of the journal has been shown
          answered   \* the requests whose client knows that they have succeeded

vars == <<who, conv, done, journal, heard, shown, answered>>

Init ==
  /\ who = [r \in Requests |-> None]
  /\ conv = [r \in Requests |-> r]
  /\ done = {}
  /\ journal = {}
  /\ heard = [r \in Requests |-> {}]
  /\ shown = [r \in Requests |-> {}]
  /\ answered = {}

\* A client knows the conversations whose creation was answered, and its own.
Ask(r, p, c) ==
  /\ who[r] = None
  /\ c \in answered \cup {r}
  /\ who' = [who EXCEPT ![r] = p]
  /\ conv' = [conv EXCEPT ![r] = c]
  /\ heard' = [heard EXCEPT ![r] = answered]
  /\ UNCHANGED <<done, journal, shown, answered>>

\* The conversation is there and belongs to the principal of the request.
Owned(r) == conv[r] \in journal /\ who[conv[r]] = who[r]

Do(r) ==
  /\ who[r] \in Principals
  /\ conv[r] = r \/ Owned(r)
  /\ done' = done \cup {r}
  /\ UNCHANGED <<who, conv, journal, heard, shown, answered>>

Record(r) ==
  /\ r \in done
  /\ journal' = journal \cup {r}
  /\ UNCHANGED <<who, conv, done, heard, shown, answered>>

Answer(r) ==
  /\ r \in journal
  /\ answered' = answered \cup {r}
  /\ UNCHANGED <<who, conv, done, journal, heard, shown>>

In(c, s) == {e \in s : conv[e] = c}

Show(r, s) ==
  /\ Owned(r)
  /\ In(conv[r], heard[r] \cap journal) \subseteq s
  /\ s \subseteq In(conv[r], done)
  /\ shown' = [shown EXCEPT ![r] = s]
  /\ answered' = answered \cup {r}
  /\ UNCHANGED <<who, conv, done, journal, heard>>

Next ==
  \E r \in Requests :
    \/ \E p \in Principals, c \in Requests : Ask(r, p, c)
    \/ Do(r) \/ Record(r) \/ Answer(r)
    \/ \E s \in SUBSET Requests : Show(r, s)

Spec == Init /\ [][Next]_vars
=============================================================================
