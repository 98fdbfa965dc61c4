------------------------------ MODULE RagStore ------------------------------
(***************************************************************************)
(* Documents and their retrieval: RAGService (services/rag_service.py)     *)
(* behind the endpoints of routers/documents.py and the retrieval of a     *)
(* chat.                                                                   *)
(*                                                                         *)
(* Uploads and searches run on worker threads and hold one lock from end   *)
(* to end, in which they first open the store if nobody has.  Embedding,   *)
(* inserting and committing may fail, the store may be closed whenever the *)
(* lock is free, and the process may be killed at any step and started     *)
(* again on the same directory.                                            *)
(*                                                                         *)
(* A text is a sequence of characters of three kinds; an embedding is its  *)
(* distance from the one query that is searched for.                       *)
(***************************************************************************)
EXTENDS Naturals, FiniteSets, Sequences, SequencesExt

CONSTANTS Requests,
          None,
          Texts,       \* what clients upload
          Chunkings,   \* settings [size, overlap] of the chunker
          Ks,          \* values of top_k
          Distances,
          BatchSize,   \* RAG_EMBED_BATCH_SIZE
          MaxChunks,   \* MAX_RAG_CHUNKS
          MaxTrouble   \* bound on failures and restarts

ASSUME RagAssumption ==
  /\ IsFiniteSet(Requests)
  /\ None \notin Requests
  /\ Texts \subseteq Seq({"visible", "space", "newline"})
  /\ Chunkings \subseteq [size : Nat, overlap : Nat]
  /\ \A c \in Chunkings : c.overlap < c.size
  /\ Chunkings # {} /\ Texts # {} /\ Distances # {}
  /\ Ks \subseteq Nat \ {0}
  /\ Distances \subseteq Nat
  /\ BatchSize \in Nat \ {0}
  /\ MaxChunks \in Nat
  /\ MaxTrouble \in Nat

VARIABLES phase,     \* where each request is
          op,        \* "upload" or "search"
          text,      \* what an upload brings
          topK,      \* how many results a search asks for
          answer,    \* what its client has got
          lock,      \* the request inside _lock
          ready,     \* _connection and _embedding_model are set
          legacy,    \* a Chroma store is in the directory
          database,  \* rag.sqlite3 is in the directory
          vectors,   \* the distances of the chunks embedded so far
          rows,      \* the table rag_chunks, as committed
          open,      \* what the open transaction has inserted
          hits,      \* the rows a search has returned, best first
          chunking,  \* the settings of the process
          trouble,   \* failures and restarts so far
          earlier    \* history: the requests answered before each search began

request == <<op, text, topK, earlier>>
store == <<rows, open>>
files == <<legacy, database>>
vars == <<phase, request, answer, lock, ready, files, vectors, store, hits, chunking,
          trouble>>

-----------------------------------------------------------------------------
(* The chunker.                                                            *)

Visible(t, i) == t[i] = "visible"

\* The n-th number of a set, in ascending order.
Nth(numbers, n) == CHOOSE i \in numbers : Cardinality({j \in numbers : j < i}) = n - 1

\* _normalize_text: no blanks at the end of a line, nor around the text.
Normalized ==
  LET Inner(t, i) == /\ \E j \in 1..i : Visible(t, j)
                     /\ \E j \in i..Len(t) : Visible(t, j)
      Trails(t, i) == t[i] = "space" /\ \E j \in i..Len(t) : /\ t[j] = "newline"
                                                             /\ \A k \in i..j : ~Visible(t, k)
      Kept(t) == {i \in DOMAIN t : Inner(t, i) /\ ~Trails(t, i)}
  IN [t \in Texts |-> [n \in 1..Cardinality(Kept(t)) |-> t[Nth(Kept(t), n)]]]

\* Mutant: start = end + overlap.
StartPast(c, p) == (p - 1) * (c.size + c.overlap)

\* Where the p-th pass of the loop begins: each one steps back by the overlap.
Start(c, p) == (p - 1) * (c.size - c.overlap)

\* The positions that the p-th pass looks at.
Window(c, t, p) ==
  {i \in DOMAIN Normalized[t] : Start(c, p) < i /\ i <= Start(c, p) + c.size}

\* The passes of _chunk_text: the first, and each one whose predecessor does not
\* reach the end.  A pass that sees blanks only makes no chunk.
Passes(c, t) ==
  {p \in DOMAIN t : p = 1 \/ Start(c, p - 1) + c.size < Len(Normalized[t])}
Chunks ==
  [c \in Chunkings |-> [t \in Texts |->
     {p \in Passes(c, t) : \E i \in Window(c, t, p) : Visible(Normalized[t], i)}]]

-----------------------------------------------------------------------------
(* The scan of a search.                                                   *)

\* What a statement on the one connection sees.
Table == rows \o open

\* Mutant: the last result is replaced and the list is not sorted again.
KeepUnsorted(best, i, k) ==
  IF Len(best) < k THEN Append(best, i)
  ELSE IF Table[i].near < Table[Last(best)].near THEN Append(Front(best), i) ELSE best

\* One row of the loop: it goes in while there is room or when it is nearer than
\* the last, behind the ones that are as near, and the last one makes room.
Keep(best, i, k) ==
  LET rest == IF Len(best) < k THEN best ELSE Front(best)
      ahead == {j \in DOMAIN rest : Table[rest[j]].near <= Table[i].near}
  IN IF Len(best) < k \/ Table[i].near < Table[Last(best)].near
     THEN InsertAt(rest, Cardinality(ahead) + 1, i)
     ELSE best

\* The loop over fetchmany: the best of the first n rows, in the order of insertion.
Nearest(k) ==
  LET best[n \in 0..Len(Table)] == IF n = 0 THEN <<>> ELSE Keep(best[n - 1], n, k)
  IN  best[Len(Table)]

-----------------------------------------------------------------------------
(* Requests.                                                               *)

Init ==
  /\ phase = [r \in Requests |-> "new"]
  /\ op = [r \in Requests |-> "search"]
  /\ text = [r \in Requests |-> <<>>]
  /\ topK = [r \in Requests |-> 1]
  /\ answer = [r \in Requests |-> "none"]
  /\ lock = None
  /\ ready = FALSE
  /\ legacy \in BOOLEAN
  /\ database = FALSE
  /\ vectors = [r \in Requests |-> <<>>]
  /\ rows = <<>>
  /\ open = <<>>
  /\ hits = [r \in Requests |-> <<>>]
  /\ chunking \in Chunkings
  /\ trouble = 0
  /\ earlier = [r \in Requests |-> {}]

Step(r, from, to) == phase[r] = from /\ phase' = [phase EXCEPT ![r] = to]

\* The request leaves the lock and its client is answered; its locals are gone.
End(r, from, a) ==
  /\ Step(r, from, "ended")
  /\ answer' = [answer EXCEPT ![r] = a]
  /\ lock' = None
  /\ vectors' = [vectors EXCEPT ![r] = <<>>]

\* Something fails that the process does not control, at most MaxTrouble times.
Trouble == trouble < MaxTrouble /\ trouble' = trouble + 1

\* upload_document: a text without anything visible is refused here, like one
\* that is too large or not UTF-8.
Upload(r, t) ==
  /\ IF \E i \in DOMAIN t : Visible(t, i)
     THEN Step(r, "new", "waiting") /\ UNCHANGED answer
     ELSE Step(r, "new", "ended") /\ answer' = [answer EXCEPT ![r] = "refused"]
  /\ op' = [op EXCEPT ![r] = "upload"]
  /\ text' = [text EXCEPT ![r] = t]
  /\ UNCHANGED <<topK, earlier, lock, ready, files, vectors, store, hits, chunking, trouble>>

\* search_documents, or the retrieval of a chat.
Search(r, k) ==
  /\ Step(r, "new", "waiting")
  /\ topK' = [topK EXCEPT ![r] = k]
  /\ earlier' = [earlier EXCEPT ![r] = {q \in Requests : answer[q] = "ok"}]
  /\ UNCHANGED <<op, text, answer, lock, ready, files, vectors, store, hits, chunking, trouble>>

\* Mutant: an operation does not take the lock.
EnterUnlocked(r) ==
  /\ Step(r, "waiting", "entered")
  /\ lock' = r
  /\ UNCHANGED <<request, answer, ready, files, vectors, store, hits, chunking, trouble>>

Enter(r) ==
  /\ Step(r, "waiting", "entered")
  /\ lock = None
  /\ lock' = r
  /\ UNCHANGED <<request, answer, ready, files, vectors, store, hits, chunking, trouble>>

\* _ensure_ready when the store is open.
AlreadyReady(r) ==
  /\ ready
  /\ Step(r, "entered", "ready")
  /\ UNCHANGED <<request, answer, lock, ready, files, vectors, store, hits, chunking, trouble>>

\* A Chroma store alone: the documents in it have to be indexed again.
RefuseLegacy(r) ==
  /\ ~ready /\ legacy /\ ~database
  /\ End(r, "entered", "error")
  /\ UNCHANGED <<request, ready, files, store, hits, chunking, trouble>>

\* Mutant: the store is opened before it is looked for.
OpenStoreFirst(r) ==
  /\ ~ready
  /\ Step(r, "entered", "opened")
  /\ database' = TRUE
  /\ UNCHANGED <<request, answer, lock, ready, legacy, vectors, store, hits, chunking, trouble>>

\* connect, the pragmas and CREATE TABLE.
OpenStore(r) ==
  /\ ~ready /\ ~(legacy /\ ~database)
  /\ Step(r, "entered", "opened")
  /\ database' = TRUE
  /\ UNCHANGED <<request, answer, lock, ready, legacy, vectors, store, hits, chunking, trouble>>

\* The embedding model is loaded, and only now the connection is kept.
LoadEmbedding(r) ==
  /\ Step(r, "opened", "ready")
  /\ ready' = TRUE
  /\ UNCHANGED <<request, answer, lock, files, vectors, store, hits, chunking, trouble>>

\* The chunks of the upload r, and whether there is room for them: COUNT(*) is of
\* the whole table.
ChunksOf(r) == Chunks[chunking][text[r]]
Fits(r) == Len(Table) + Cardinality(ChunksOf(r)) <= MaxChunks

Plan(r) ==
  /\ Step(r, "ready", "embedding")
  /\ op[r] = "upload" /\ Fits(r)
  /\ UNCHANGED <<request, answer, lock, ready, files, vectors, store, hits, chunking, trouble>>

RefuseQuota(r) ==
  /\ op[r] = "upload" /\ ~Fits(r)
  /\ End(r, "ready", "refused")
  /\ UNCHANGED <<request, ready, files, store, hits, chunking, trouble>>

\* One batch is embedded; the last may be smaller.
Left(r) == Cardinality(ChunksOf(r)) - Len(vectors[r])
Embed(r) ==
  /\ phase[r] = "embedding"
  /\ Left(r) > 0
  /\ \E batch \in [1..(IF Left(r) < BatchSize THEN Left(r) ELSE BatchSize) -> Distances] :
       vectors' = [vectors EXCEPT ![r] = @ \o batch]
  /\ UNCHANGED <<phase, request, answer, lock, ready, files, store, hits, chunking, trouble>>

\* The rows of an upload: metadata names the document and the chunk in it.
RowsOf(r) == [n \in DOMAIN vectors[r] |-> [doc |-> r, index |-> n, near |-> vectors[r][n]]]

\* executemany, in the transaction that it begins.
Insert(r) ==
  /\ Step(r, "embedding", "committing")
  /\ Left(r) = 0
  /\ open' = open \o RowsOf(r)
  /\ UNCHANGED <<request, answer, lock, ready, files, vectors, rows, hits, chunking, trouble>>

\* An insert fails after some have not, or the commit does.
InsertFails(r) ==
  /\ Trouble
  /\ \/ /\ Step(r, "embedding", "rolling")
        /\ Left(r) = 0
        /\ \E n \in 0..Len(vectors[r]) : open' = open \o SubSeq(RowsOf(r), 1, n)
     \/ Step(r, "committing", "rolling") /\ UNCHANGED open
  /\ UNCHANGED <<request, answer, lock, ready, files, vectors, rows, hits, chunking>>

Commit(r) ==
  /\ Step(r, "committing", "stored")
  /\ rows' = rows \o open
  /\ open' = <<>>
  /\ UNCHANGED <<request, answer, lock, ready, files, vectors, hits, chunking, trouble>>

Reply(r) ==
  /\ End(r, "stored", "ok")
  /\ UNCHANGED <<request, ready, files, store, hits, chunking, trouble>>

\* Mutant: the transaction is left open after an error.
RollBackNot(r) ==
  /\ End(r, "rolling", "error")
  /\ UNCHANGED <<request, ready, files, store, hits, chunking, trouble>>

\* `with connection` rolls back what was inserted and the error goes on.
RollBack(r) ==
  /\ End(r, "rolling", "error")
  /\ open' = <<>>
  /\ UNCHANGED <<request, ready, files, rows, hits, chunking, trouble>>

\* The query is embedded and the table scanned.
Scan(r) ==
  /\ op[r] = "search"
  /\ End(r, "ready", "ok")
  /\ hits' = [hits EXCEPT ![r] = Nearest(topK[r])]
  /\ UNCHANGED <<request, ready, files, store, chunking, trouble>>

\* Where something outside may fail before anything is inserted: the libraries,
\* the connection (closed again), the embedding model, a query, an embedding.
Failing(r) ==
  \/ phase[r] = "entered" /\ ~ready
  \/ phase[r] \in {"opened", "ready", "embedding"}

Fail(r) ==
  /\ Trouble
  /\ Failing(r)
  /\ End(r, phase[r], "error")
  /\ UNCHANGED <<request, ready, files, store, hits, chunking>>

-----------------------------------------------------------------------------
(* The process and its operator.                                           *)

\* Mutant: close does not wait for the lock.
CloseUnlocked ==
  /\ ready
  /\ ready' = FALSE
  /\ UNCHANGED <<phase, request, answer, lock, files, vectors, store, hits, chunking, trouble>>

\* close, called by the lifespan; threads that wait for the lock open the store again.
Close ==
  /\ lock = None
  /\ ready
  /\ ready' = FALSE
  /\ UNCHANGED <<phase, request, answer, lock, files, vectors, store, hits, chunking, trouble>>

\* The process is killed and started again: the open transaction is lost.
Restart ==
  /\ Trouble
  /\ phase' = [r \in Requests |-> IF phase[r] = "new" THEN "new" ELSE "ended"]
  /\ lock' = None
  /\ ready' = FALSE
  /\ open' = <<>>
  /\ vectors' = [r \in Requests |-> <<>>]
  /\ UNCHANGED <<request, answer, files, rows, hits, chunking>>

\* The operator takes the Chroma store away, to index its documents again.
Migrate ==
  /\ legacy
  /\ legacy' = FALSE
  /\ UNCHANGED <<phase, request, answer, lock, ready, database, vectors, store, hits,
                 chunking, trouble>>

Work(r) ==
  \/ Enter(r) \/ AlreadyReady(r) \/ RefuseLegacy(r) \/ OpenStore(r) \/ LoadEmbedding(r)
  \/ Plan(r) \/ RefuseQuota(r) \/ Embed(r) \/ Insert(r) \/ InsertFails(r) \/ Commit(r)
  \/ Reply(r) \/ RollBack(r) \/ Scan(r) \/ Fail(r)

Next ==
  \/ Close \/ Restart \/ Migrate
  \/ \E r \in Requests :
       \/ Work(r)
       \/ \E t \in Texts : Upload(r, t)
       \/ \E k \in Ks : Search(r, k)

Spec == Init /\ [][Next]_vars

-----------------------------------------------------------------------------
(* Properties.                                                             *)

Inside == {"entered", "opened", "ready", "embedding", "committing", "rolling", "stored"}
Connected == Inside \ {"entered", "opened"}
Rows == [doc : Requests, index : Nat, near : Distances]

\* The type of every variable; one request at a time is inside the lock, no
\* failure leaves it behind, and the connection is not closed under a request
\* that uses it.
TypeOK ==
  /\ phase \in [Requests -> Inside \cup {"new", "waiting", "ended"}]
  /\ op \in [Requests -> {"upload", "search"}]
  /\ text \in [Requests -> Texts \cup {<<>>}]
  /\ topK \in [Requests -> Nat \ {0}]
  /\ answer \in [Requests -> {"none", "ok", "refused", "error"}]
  /\ lock \in Requests \cup {None}
  /\ \A r \in Requests : /\ phase[r] \in Inside <=> lock = r
                         /\ phase[r] \in Connected => ready
  /\ ready \in BOOLEAN
  /\ legacy \in BOOLEAN
  /\ database \in BOOLEAN
  /\ vectors \in [Requests -> Seq(Distances)]
  /\ rows \in Seq(Rows)
  /\ open \in Seq(Rows)
  /\ DOMAIN hits = Requests  \* SearchesAreExact says what they are
  /\ chunking \in Chunkings
  /\ trouble \in 0..MaxTrouble
  /\ earlier \in [Requests -> SUBSET Requests]

\* The table never holds more than MAX_RAG_CHUNKS chunks, although an upload
\* counts long before it inserts.
QuotaHolds == Len(rows) <= MaxChunks

\* The pass that made the n-th chunk of an upload.
PassOf(r, n) == Nth(ChunksOf(r), n)

RowsFrom(r) == {i \in DOMAIN rows : rows[i].doc = r}

\* The chunks of the upload r lie together in the table, each one once and in order.
Stored(r) ==
  LET n == Cardinality(ChunksOf(r)) IN
  /\ op[r] = "upload"
  /\ \E base \in 0..Len(rows) : /\ RowsFrom(r) = (base + 1)..(base + n)
                                /\ \A i \in 1..n : rows[base + i].index = i

\* An upload is all or nothing through failures, restarts and the uploads after
\* it: all of it is there when it was answered, none of it when it was refused or
\* failed, and never a part.
UploadsAreAtomic ==
  \A r \in Requests :
    /\ RowsFrom(r) # {} => Stored(r)
    /\ op[r] = "upload" /\ answer[r] = "ok" => Stored(r)
    /\ answer[r] \in {"refused", "error"} => RowsFrom(r) = {}

\* Nearer, or inserted earlier among equals.
Before(a, b) == rows[a].near < rows[b].near \/ (rows[a].near = rows[b].near /\ a < b)

\* A search returns the nearest rows, in order, of the table as it was at one moment
\* between its beginning and its answer: with every upload answered before, and
\* with no upload in part.
SearchesAreExact ==
  \A s \in Requests :
    op[s] = "search" /\ answer[s] = "ok" =>
      \E n \in 0..Len(rows) :
        /\ ToSet(hits[s]) \subseteq 1..n
        /\ Len(hits[s]) = IF topK[s] < n THEN topK[s] ELSE n
        /\ \A i, j \in DOMAIN hits[s] : i < j => Before(hits[s][i], hits[s][j])
        /\ \A i \in DOMAIN hits[s], a \in (1..n) \ ToSet(hits[s]) : Before(hits[s][i], a)
        /\ \A r \in earlier[s] : \A i \in RowsFrom(r) : i <= n
        /\ n \in 1..(Len(rows) - 1) => rows[n].doc # rows[n + 1].doc

\* Everything visible in a text that was uploaded is in one of its chunks, whatever
\* the settings, wherever the windows fall on blanks.
VisibleTextIsStored ==
  \A r \in Requests :
    op[r] = "upload" /\ answer[r] = "ok" =>
      LET t == text[r] IN
      \A i \in DOMAIN Normalized[t] :
        Visible(Normalized[t], i) =>
          \E j \in RowsFrom(r) : i \in Window(chunking, t, PassOf(r, rows[j].index))

\* A Chroma store is never taken for an empty one: while it is alone nothing is
\* answered from a new database, whatever was tried before.
LegacyIsRefused == legacy => ~database /\ \A r \in Requests : answer[r] # "ok"

-----------------------------------------------------------------------------
(* The abstract specification.                                             *)

Store == INSTANCE DocumentStore WITH
  asked <- {r \in Requests : phase[r] # "new"},
  want <- [r \in Requests |-> IF phase[r] # "new" /\ op[r] = "search" THEN topK[r] ELSE 0],
  table <- rows

\* Threads, batches, the transaction and its failures implement DocumentStore: an
\* upload takes effect in its commit, whole and within the quota, and a search in the
\* instant it is answered.
StoreIsAtomic == Store!Spec

=============================================================================
