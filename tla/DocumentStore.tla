---------------------------- MODULE DocumentStore ----------------------------
(***************************************************************************)
(* What RAGService promises to its callers, with every operation atomic.   *)
(* A document is added to the table as a whole, behind what is there, and  *)
(* only if there is room; it is never taken out again, and what is         *)
(* answered about it is true from then on.  A search returns the best of   *)
(* the table at the instant it is answered.                                *)
(*                                                                         *)
(* Any request may stop at any point and never be heard of again.          *)
(***************************************************************************)
EXTENDS Naturals, Sequences

CONSTANTS Requests,
          Ks,         \* how many results a search may ask for
          Distances,  \* of a chunk from the query
          MaxChunks   \* the room in the table

VARIABLES asked,   \* the requests that have been made
          want,    \* how many results a request asks for; none, if it brings a document
          table,   \* the chunks of all documents, in the order of their insertion
          hits,    \* the chunks a search has found, best first
          answer   \* what the client of a request has got

vars == <<asked, want, table, hits, answer>>

Init ==
  /\ asked = {}
  /\ want = [r \in Requests |-> 0]
  /\ table = <<>>
  /\ hits = [r \in Requests |-> <<>>]
  /\ answer = [r \in Requests |-> "none"]

Ask(r, k) ==
  /\ r \notin asked
  /\ asked' = asked \cup {r}
  /\ want' = [want EXCEPT ![r] = k]
  /\ UNCHANGED <<table, hits, answer>>

\* The document of this request is in the table.
Holds(r) == \E i \in DOMAIN table : table[i].doc = r

Tell(r, a) ==
  /\ answer[r] = "none"
  /\ answer' = [answer EXCEPT ![r] = a]

Add(r) ==
  /\ r \in asked /\ want[r] = 0
  /\ answer[r] = "none"
  /\ ~Holds(r)
  /\ \E n \in 1..MaxChunks :
       /\ Len(table) + n <= MaxChunks
       /\ \E near \in [1..n -> Distances] :
            table' = table \o [i \in 1..n |-> [doc |-> r, index |-> i, near |-> near[i]]]
  /\ UNCHANGED <<asked, want, hits, answer>>

Accept(r) ==
  /\ Holds(r)
  /\ Tell(r, "ok")
  /\ UNCHANGED <<asked, want, table, hits>>

\* A request may be turned down at sight.
Refuse(r, a) ==
  /\ ~Holds(r)
  /\ Tell(r, a)
  /\ asked' = asked \cup {r}
  /\ UNCHANGED <<want, table, hits>>

\* A nearer chunk is better, and of two that are as near the one that was there first.
Better(i, j) ==
  \/ table[i].near < table[j].near
  \/ table[i].near = table[j].near /\ i < j

\* The best of the table, in order.
Best(found) ==
  /\ \A m, n \in DOMAIN found : m < n => Better(found[m], found[n])
  /\ \A i \in DOMAIN table :
       (\A m \in DOMAIN found : found[m] # i) => \A m \in DOMAIN found : Better(found[m], i)

Find(r) ==
  /\ r \in asked /\ want[r] > 0
  /\ Tell(r, "ok")
  /\ \E found \in [1..(IF want[r] < Len(table) THEN want[r] ELSE Len(table)) -> DOMAIN table] :
       /\ Best(found)
       /\ hits' = [hits EXCEPT ![r] = found]
  /\ UNCHANGED <<asked, want, table>>

Next ==
  \E r \in Requests :
    \/ \E k \in Ks \cup {0} : Ask(r, k)
    \/ Add(r) \/ Accept(r) \/ Find(r)
    \/ \E a \in {"refused", "error"} : Refuse(r, a)

Spec == Init /\ [][Next]_vars
=============================================================================
