--------------------------- MODULE RagStoreProofs ---------------------------
(***************************************************************************)
(* What no failure, restart or order of uploads and searches can do to the *)
(* document store of RagStore, for any texts, settings and quota.          *)
(*                                                                         *)
(* QuotaHolds and UploadsAreAtomic are not inductive alone: an upload      *)
(* counts the table long before it inserts, and the transaction it commits *)
(* is whatever is open on the connection.  What every step preserves is    *)
(* that only the request inside the lock has a transaction open, that it   *)
(* holds its own chunks and nothing else, and that the room which was      *)
(* counted is still there.                                                 *)
(*                                                                         *)
(* What the chunker and the scan compute is proved as well.  Where an      *)
(* induction would be natural, a least counterexample is taken instead.    *)
(* Together they show that RagStore implements DocumentStore.              *)
(***************************************************************************)
EXTENDS RagStore, WellFoundedInduction, FiniteSetTheorems, SequenceTheorems, TLAPS

N(r) == Cardinality(ChunksOf(r))

\* Nothing is opened without its file.
StoreHasFile ==
  /\ ready => database
  /\ \A r \in Requests : phase[r] = "opened" => database

\* Only uploads write, and they have a text.
UploadsWrite ==
  \A r \in Requests :
    /\ op[r] = "upload" => text[r] \in Texts
    /\ phase[r] \in {"embedding", "committing", "rolling", "stored"} => op[r] = "upload"

\* The room that was counted is still there.
RoomKept ==
  \A r \in Requests :
    phase[r] \in {"embedding", "committing"} => Len(rows) + N(r) <= MaxChunks

\* The open transaction is of the upload that commits, and is complete; after an
\* error it may be anything, and otherwise there is none.
OwnTransaction ==
  /\ \A r \in Requests :
       phase[r] = "committing" =>
         /\ Len(open) = N(r)
         /\ \A i \in 1..N(r) : open[i].doc = r /\ open[i].index = i
  /\ (\A r \in Requests : phase[r] \notin {"committing", "rolling"}) => open = <<>>

\* Nothing is stored or answered before the commit, and all of it is after.
NothingEarly ==
  \A r \in Requests :
    /\ phase[r] # "ended" => answer[r] = "none"
    /\ phase[r] \notin {"stored", "ended"} => RowsFrom(r) = {}
    /\ phase[r] = "stored" => Stored(r)

RagInv ==
  /\ TypeOK
  /\ LegacyIsRefused
  /\ StoreHasFile
  /\ UploadsWrite
  /\ RoomKept
  /\ OwnTransaction
  /\ NothingEarly
  /\ UploadsAreAtomic
  /\ QuotaHolds

-----------------------------------------------------------------------------

\* A text makes finitely many chunks.
LEMMA ChunkCount ==
  ASSUME NEW c \in Chunkings, NEW t \in Texts
  PROVE  IsFiniteSet(Chunks[c][t]) /\ Cardinality(Chunks[c][t]) \in Nat
<1>1. t \in Seq({"visible", "space", "newline"})
  BY RagAssumption
<1>2. DOMAIN t = 1..Len(t) /\ Len(t) \in Nat
  BY <1>1
<1>3. Chunks[c][t] \subseteq DOMAIN t
  BY DEF Chunks, Passes
<1>4. IsFiniteSet(1..Len(t))
  BY <1>2, FS_Interval
<1>5. QED
  BY <1>2, <1>3, <1>4, FS_Subset, FS_CardinalityType

\* The rows of an upload are rows, numbered from one.
LEMMA RowsOfType ==
  ASSUME TypeOK, NEW r \in Requests
  PROVE  /\ RowsOf(r) \in Seq(Rows)
         /\ Len(RowsOf(r)) = Len(vectors[r])
         /\ Len(vectors[r]) \in Nat
         /\ \A i \in 1..Len(vectors[r]) : RowsOf(r)[i].doc = r /\ RowsOf(r)[i].index = i
<1>1. vectors[r] \in Seq(Distances)
  BY DEF TypeOK
<1>2. DOMAIN vectors[r] = 1..Len(vectors[r]) /\ Len(vectors[r]) \in Nat
  BY <1>1
<1>3. \A i \in 1..Len(vectors[r]) : vectors[r][i] \in Distances
  BY <1>1
<1>4. RowsOf(r) \in [1..Len(vectors[r]) -> Rows]
  BY <1>2, <1>3 DEF RowsOf, Rows
<1>5. RowsOf(r) \in Seq(Rows) /\ Len(RowsOf(r)) = Len(vectors[r])
  BY <1>2, <1>4, IsASeq
<1>6. QED
  BY <1>2, <1>5 DEF RowsOf

\* At the start nothing is stored and nobody is inside the lock.
LEMMA InitRag == Init => RagInv
<1> SUFFICES ASSUME Init PROVE RagInv
  OBVIOUS
<1>1. TypeOK
  <2>1. phase \in [Requests -> Inside \cup {"new", "waiting", "ended"}]
    BY DEF Init, Inside
  <2>2. /\ op \in [Requests -> {"upload", "search"}]
        /\ text \in [Requests -> Texts \cup {<<>>}]
        /\ topK \in [Requests -> Nat \ {0}]
        /\ answer \in [Requests -> {"none", "ok", "refused", "error"}]
    BY DEF Init
  <2>3. \A r \in Requests : /\ phase[r] \in Inside <=> lock = r
                            /\ phase[r] \in Connected => ready
    BY RagAssumption DEF Init, Inside, Connected
  <2>4. /\ vectors \in [Requests -> Seq(Distances)]
        /\ rows \in Seq(Rows)
        /\ open \in Seq(Rows)
    BY DEF Init
  <2>5. trouble \in 0..MaxTrouble
    BY RagAssumption DEF Init
  <2>6. QED
    BY <2>1, <2>2, <2>3, <2>4, <2>5 DEF Init, TypeOK
<1>2. \A r \in Requests : RowsFrom(r) = {}
  BY DEF Init, RowsFrom
<1>3. LegacyIsRefused /\ StoreHasFile /\ UploadsWrite /\ RoomKept /\ OwnTransaction /\ QuotaHolds
  BY RagAssumption DEF Init, LegacyIsRefused, StoreHasFile, UploadsWrite, RoomKept,
     OwnTransaction, QuotaHolds
<1>4. NothingEarly /\ UploadsAreAtomic
  BY <1>2 DEF Init, NothingEarly, UploadsAreAtomic
<1>5. QED
  BY <1>1, <1>3, <1>4 DEF RagInv

\* The steps that neither write to the table nor begin an upload.
Quiet(r) ==
  \/ \E k \in Ks : Search(r, k)
  \/ Enter(r) \/ AlreadyReady(r) \/ RefuseLegacy(r) \/ OpenStore(r) \/ LoadEmbedding(r)
  \/ Plan(r) \/ RefuseQuota(r) \/ Embed(r) \/ Reply(r) \/ Scan(r) \/ Fail(r)

\* The phases and the lock, as TypeOK has them.
PhaseTypes ==
  /\ phase \in [Requests -> Inside \cup {"new", "waiting", "ended"}]
  /\ lock \in Requests \cup {None}
  /\ \A r \in Requests : /\ phase[r] \in Inside <=> lock = r
                         /\ phase[r] \in Connected => ready

\* One request enters the lock, moves in it, leaves it or stays outside.
LEMMA Moving ==
  ASSUME TypeOK, NEW r \in Requests, NEW p \in Inside \cup {"new", "waiting", "ended"},
         phase' = [phase EXCEPT ![r] = p], ready => ready', p \in Connected => ready',
         \/ p \in Inside /\ lock \in {None, r} /\ lock' = r
         \/ p \notin Inside /\ lock = r /\ lock' = None
         \/ p \notin Inside /\ lock # r /\ lock' = lock
  PROVE  PhaseTypes'
<1>1. phase' \in [Requests -> Inside \cup {"new", "waiting", "ended"}]
  BY DEF TypeOK
<1>2. lock' \in Requests \cup {None}
  BY DEF TypeOK
<1>3. ASSUME NEW q \in Requests
      PROVE  /\ phase'[q] \in Inside <=> lock' = q
             /\ phase'[q] \in Connected => ready'
  <2>1. phase'[q] = IF q = r THEN p ELSE phase[q]
    BY DEF TypeOK
  <2>2. None # q /\ None # r
    BY RagAssumption
  <2>3. QED
    BY <2>1, <2>2 DEF TypeOK
<1>4. QED
  BY <1>1, <1>2, <1>3 DEF PhaseTypes

\* A request that leaves the lock.
LEMMA Ending ==
  ASSUME TypeOK, NEW r \in Requests, NEW from \in Inside,
         NEW a \in {"none", "ok", "refused", "error"}, End(r, from, a), UNCHANGED ready
  PROVE  /\ PhaseTypes'
         /\ answer' \in [Requests -> {"none", "ok", "refused", "error"}]
         /\ vectors' \in [Requests -> Seq(Distances)]
<1>1. lock = r /\ "ended" \notin Inside /\ "ended" \notin Connected
  BY DEF End, Step, TypeOK, Inside, Connected
<1>2. PhaseTypes'
  BY <1>1, Moving DEF End, Step
<1>3. answer' \in [Requests -> {"none", "ok", "refused", "error"}]
  BY DEF End, TypeOK
<1>4. vectors' \in [Requests -> Seq(Distances)]
  BY DEF End, TypeOK
<1>5. QED
  BY <1>2, <1>3, <1>4

\* Types survive the steps that do not write, each of which moves one request.
LEMMA QuietTypes ==
  ASSUME TypeOK, UploadsWrite, NEW r \in Requests, Quiet(r)
  PROVE  TypeOK'
<1> USE DEF request, files, store
<1>1. CASE \E k \in Ks : Search(r, k)
  <2>1. PICK k \in Ks : Search(r, k)
    BY <1>1
  <2>2. PhaseTypes'
    <3>1. phase[r] = "new" /\ "new" \notin Inside /\ "waiting" \notin Inside
      BY <2>1 DEF Search, Step, Inside
    <3>2. QED
      BY <2>1, <3>1, Moving DEF Search, Step, TypeOK, Connected
  <2>3. topK' \in [Requests -> Nat \ {0}] /\ earlier' \in [Requests -> SUBSET Requests]
    BY <2>1, RagAssumption DEF Search, TypeOK
  <2>4. QED
    BY <2>1, <2>2, <2>3 DEF Search, TypeOK, PhaseTypes
<1>2. CASE Enter(r) \/ AlreadyReady(r)
  <2>1. PhaseTypes'
    BY <1>2, Moving DEF Enter, AlreadyReady, Step, TypeOK, Inside, Connected
  <2>2. QED
    BY <1>2, <2>1 DEF Enter, AlreadyReady, TypeOK, PhaseTypes
<1>3. CASE OpenStore(r) \/ LoadEmbedding(r)
  <2>1. PhaseTypes'
    BY <1>3, Moving DEF OpenStore, LoadEmbedding, Step, TypeOK, Inside, Connected
  <2>2. ready' \in BOOLEAN /\ database' \in BOOLEAN
    BY <1>3 DEF OpenStore, LoadEmbedding, TypeOK
  <2>3. QED
    BY <1>3, <2>1, <2>2 DEF OpenStore, LoadEmbedding, TypeOK, PhaseTypes
<1>4. CASE Plan(r)
  <2>1. PhaseTypes'
    BY <1>4, Moving DEF Plan, Step, TypeOK, Inside, Connected
  <2>2. QED
    BY <1>4, <2>1 DEF Plan, TypeOK, PhaseTypes
<1>5. CASE RefuseLegacy(r) \/ RefuseQuota(r) \/ Reply(r)
  <2>1. \E from \in Inside, a \in {"none", "ok", "refused", "error"} : End(r, from, a)
    BY <1>5 DEF RefuseLegacy, RefuseQuota, Reply, Inside
  <2>2. UNCHANGED <<request, ready, files, store, hits, chunking, trouble>>
    BY <1>5 DEF RefuseLegacy, RefuseQuota, Reply
  <2>3. QED
    BY <2>1, <2>2, Ending DEF TypeOK, PhaseTypes
<1>6. CASE Scan(r)
  <2>1. End(r, "ready", "ok") /\ UNCHANGED <<request, ready, files, store, chunking, trouble>>
    BY <1>6 DEF Scan
  <2>2. "ready" \in Inside
    BY DEF Inside
  <2>3. DOMAIN hits' = Requests
    BY <1>6 DEF Scan, TypeOK
  <2>4. QED
    BY <2>1, <2>2, <2>3, Ending DEF TypeOK, PhaseTypes
<1>7. CASE Fail(r)
  <2>1. phase[r] \in Inside /\ End(r, phase[r], "error")
    BY <1>7 DEF Fail, Failing, Inside
  <2>2. UNCHANGED <<request, ready, files, store, hits, chunking>>
    BY <1>7 DEF Fail
  <2>3. trouble' \in 0..MaxTrouble
    BY <1>7, RagAssumption DEF Fail, Trouble, TypeOK
  <2>4. QED
    BY <2>1, <2>2, <2>3, Ending DEF TypeOK, PhaseTypes
<1>8. CASE Embed(r)
  <2> DEFINE m == IF Left(r) < BatchSize THEN Left(r) ELSE BatchSize
  <2>1. m \in Nat
    <3>1. op[r] = "upload" /\ text[r] \in Texts /\ chunking \in Chunkings
      BY <1>8 DEF Embed, UploadsWrite, TypeOK
    <3>2. Left(r) \in Int
      BY <3>1, ChunkCount, RowsOfType DEF Left, ChunksOf
    <3>3. QED
      BY <1>8, <3>2, RagAssumption DEF Embed
  <2>2. PICK batch \in [1..m -> Distances] :
          vectors' = [vectors EXCEPT ![r] = vectors[r] \o batch]
    BY <1>8 DEF Embed
  <2>3. vectors[r] \o batch \in Seq(Distances)
    <3>1. batch \in Seq(Distances)
      BY <2>1, IsASeq
    <3>2. QED
      BY <3>1, ConcatProperties DEF TypeOK
  <2>4. vectors' \in [Requests -> Seq(Distances)]
    BY <2>2, <2>3 DEF TypeOK
  <2>5. QED
    BY <1>8, <2>4 DEF Embed, TypeOK, request, files, store
<1>9. QED
  BY <1>1, <1>2, <1>3, <1>4, <1>5, <1>6, <1>7, <1>8 DEF Quiet

\* What is stored of a request stays as it is while the table does.
LEMMA TableKept ==
  ASSUME NEW q \in Requests, op'[q] = op[q], text'[q] = text[q], UNCHANGED <<rows, chunking>>
  PROVE  N(q)' = N(q) /\ RowsFrom(q)' = RowsFrom(q) /\ (Stored(q)' <=> Stored(q))
BY DEF N, ChunksOf, RowsFrom, Stored

\* How a quiet step moves its request.
LEMMA QuietShape ==
  ASSUME RagInv, NEW r \in Requests, Quiet(r)
  PROVE  /\ UNCHANGED <<op, text, rows, open, chunking>>
         /\ phase[r] \notin {"committing", "rolling", "ended"}
         /\ \E p \in {"waiting", "entered", "opened", "ready", "embedding", "ended"} :
              /\ phase' = [phase EXCEPT ![r] = p]
              /\ p = "embedding" => op[r] = "upload" /\ (phase[r] = "embedding" \/ Fits(r))
              /\ p # "ended" => phase[r] # "stored" /\ answer' = answer
              /\ p = "ended" =>
                   \E a \in {"ok", "refused", "error"} :
                     /\ answer' = [answer EXCEPT ![r] = a]
                     /\ a # "ok" => phase[r] # "stored"
                     /\ a = "ok" => /\ phase[r] \in Connected
                                    /\ op[r] = "upload" => phase[r] = "stored"
<1> USE DEF request, files, store, Step, End
<1>1. CASE \/ \E k \in Ks : Search(r, k)
           \/ Enter(r) \/ AlreadyReady(r) \/ OpenStore(r) \/ LoadEmbedding(r) \/ Plan(r)
  BY <1>1 DEF Search, Enter, AlreadyReady, OpenStore, LoadEmbedding, Plan
<1>2. CASE RefuseLegacy(r) \/ RefuseQuota(r) \/ Fail(r)
  BY <1>2 DEF RefuseLegacy, RefuseQuota, Fail, Failing
<1>3. CASE Reply(r) \/ Scan(r)
  BY <1>3 DEF Reply, Scan, Connected, Inside
<1>4. CASE Embed(r)
  <2>1. phase[r] = "embedding" /\ phase' = [phase EXCEPT ![r] = "embedding"]
    BY <1>4 DEF Embed, RagInv, TypeOK
  <2>2. op[r] = "upload"
    BY <2>1 DEF RagInv, UploadsWrite
  <2>3. QED
    BY <1>4, <2>1, <2>2 DEF Embed
<1>5. QED
  BY <1>1, <1>2, <1>3, <1>4 DEF Quiet

\* The table is empty-handed between uploads, so what fits, fits beside the rows.
LEMMA FitsBesideRows ==
  ASSUME RagInv, NEW r \in Requests, phase[r] \in Inside \ {"committing", "rolling"}, Fits(r)
  PROVE  Len(rows) + N(r) <= MaxChunks
<1>1. \A q \in Requests : phase[q] \notin {"committing", "rolling"}
  BY DEF RagInv, TypeOK, Inside
<1>2. open = <<>> /\ rows \in Seq(Rows)
  BY <1>1 DEF RagInv, OwnTransaction, TypeOK
<1>3. Len(Table) = Len(rows)
  BY <1>2, ConcatEmptySeq DEF Table
<1>4. QED
  BY <1>3 DEF Fits, N

\* Only a request in the lock begins to embed.
LEMMA QuietEmbeds ==
  ASSUME RagInv, NEW r \in Requests, Quiet(r), phase'[r] = "embedding"
  PROVE  phase[r] \in Inside
<1>1. phase[r] \in {"ready", "embedding"}
  BY DEF Quiet, Search, Enter, AlreadyReady, RefuseLegacy, OpenStore, LoadEmbedding, Plan,
     RefuseQuota, Embed, Reply, Scan, Fail, Step, End, RagInv, TypeOK
<1>2. QED
  BY <1>1 DEF Inside

\* A quiet step leaves the Chroma store alone, makes a database only where there is
\* none of these, and opens only what has a file.
LEMMA QuietFiles ==
  ASSUME RagInv, NEW r \in Requests, Quiet(r)
  PROVE  /\ legacy' = legacy
         /\ database => database'
         /\ legacy /\ ~database => ~database'
         /\ ready' => ready \/ phase[r] = "opened"
         /\ phase'[r] = "opened" => database'
<1> USE DEF files, Step, End
<1>1. CASE \/ \E k \in Ks : Search(r, k)
           \/ Enter(r) \/ AlreadyReady(r) \/ OpenStore(r) \/ LoadEmbedding(r) \/ Plan(r)
  BY <1>1 DEF Search, Enter, AlreadyReady, OpenStore, LoadEmbedding, Plan, RagInv, TypeOK
<1>2. CASE RefuseLegacy(r) \/ RefuseQuota(r) \/ Fail(r) \/ Reply(r) \/ Scan(r)
  BY <1>2 DEF RefuseLegacy, RefuseQuota, Fail, Reply, Scan, RagInv, TypeOK
<1>3. CASE Embed(r)
  BY <1>3 DEF Embed, RagInv, StoreHasFile
<1>4. QED
  BY <1>1, <1>2, <1>3 DEF Quiet

\* No quiet step disturbs the invariant.
LEMMA QuietInv ==
  ASSUME RagInv, NEW r \in Requests, Quiet(r)
  PROVE  RagInv'
<1>1. TypeOK'
  BY QuietTypes DEF RagInv
<1>2. /\ UNCHANGED <<op, text, rows, open, chunking>>
      /\ phase[r] \notin {"committing", "rolling", "ended"}
  BY QuietShape
<1>3. PICK p \in {"waiting", "entered", "opened", "ready", "embedding", "ended"} :
        /\ phase' = [phase EXCEPT ![r] = p]
        /\ p = "embedding" => op[r] = "upload" /\ (phase[r] = "embedding" \/ Fits(r))
        /\ p # "ended" => phase[r] # "stored" /\ answer' = answer
        /\ p = "ended" =>
             \E a \in {"ok", "refused", "error"} :
               /\ answer' = [answer EXCEPT ![r] = a]
               /\ a # "ok" => phase[r] # "stored"
               /\ a = "ok" => /\ phase[r] \in Connected
                              /\ op[r] = "upload" => phase[r] = "stored"
  BY QuietShape
<1>4. \A q \in Requests : phase'[q] = IF q = r THEN p ELSE phase[q]
  BY <1>3 DEF RagInv, TypeOK
<1>5. \A q \in Requests : /\ N(q)' = N(q) /\ RowsFrom(q)' = RowsFrom(q)
                          /\ Stored(q)' <=> Stored(q)
  BY <1>2, TableKept
<1>6. UploadsWrite'
  BY <1>2, <1>3, <1>4 DEF RagInv, UploadsWrite
<1>7. RoomKept'
  <2>1. SUFFICES ASSUME NEW q \in Requests, phase'[q] \in {"embedding", "committing"}
                 PROVE  Len(rows) + N(q) <= MaxChunks
    BY <1>2, <1>5 DEF RoomKept
  <2>2. CASE phase[q] \in {"embedding", "committing"}
    BY <2>2 DEF RagInv, RoomKept
  <2>3. CASE phase[q] \notin {"embedding", "committing"}
    <3>1. q = r /\ Fits(r)
      BY <1>3, <1>4, <2>1, <2>3
    <3>2. phase[r] \in Inside
      BY <1>3, <1>4, <2>1, <3>1, QuietEmbeds
    <3>3. QED
      BY <1>2, <3>1, <3>2, FitsBesideRows
  <2>4. QED
    BY <2>2, <2>3
<1>8. OwnTransaction'
  <2>1. \A q \in Requests : phase'[q] = "committing" => phase[q] = "committing"
    BY <1>3, <1>4
  <2>2. (\A q \in Requests : phase'[q] \notin {"committing", "rolling"})
           => \A q \in Requests : phase[q] \notin {"committing", "rolling"}
    BY <1>2, <1>4
  <2>3. QED
    BY <1>2, <1>5, <2>1, <2>2 DEF RagInv, OwnTransaction
<1>9. NothingEarly'
  BY <1>2, <1>3, <1>4, <1>5 DEF RagInv, TypeOK, NothingEarly
<1>10. UploadsAreAtomic'
  BY <1>2, <1>3, <1>4, <1>5 DEF RagInv, TypeOK, NothingEarly, UploadsAreAtomic
<1>11. QuotaHolds'
  BY <1>2 DEF RagInv, QuotaHolds
<1>12. StoreHasFile' /\ LegacyIsRefused'
  BY <1>2, <1>3, <1>4, QuietFiles DEF RagInv, TypeOK, StoreHasFile, LegacyIsRefused
<1>13. QED
  BY <1>1, <1>6, <1>7, <1>8, <1>9, <1>10, <1>11, <1>12 DEF RagInv

\* An upload begins, or is refused at once, with nothing stored of it.
LEMMA UploadInv ==
  ASSUME RagInv, NEW r \in Requests, NEW t \in Texts, Upload(r, t)
  PROVE  RagInv'
<1> USE DEF files, store
<1>1. PICK p \in {"waiting", "ended"} :
        /\ phase[r] = "new" /\ phase' = [phase EXCEPT ![r] = p]
        /\ p = "waiting" => answer' = answer
        /\ p = "ended" => answer' = [answer EXCEPT ![r] = "refused"]
  BY DEF Upload, Step
<1>2. op' = [op EXCEPT ![r] = "upload"] /\ text' = [text EXCEPT ![r] = t]
  BY DEF Upload
<1>3. UNCHANGED <<topK, earlier, lock, ready, legacy, database, vectors, rows, open, hits,
                  chunking, trouble>>
  BY DEF Upload
<1>4. \A q \in Requests : /\ phase'[q] = IF q = r THEN p ELSE phase[q]
                          /\ q # r => op'[q] = op[q] /\ text'[q] = text[q]
  BY <1>1, <1>2 DEF RagInv, TypeOK
<1>5. \A q \in Requests : RowsFrom(q)' = RowsFrom(q)
  BY <1>3 DEF RowsFrom
<1>6. \A q \in Requests : q # r => N(q)' = N(q) /\ (Stored(q)' <=> Stored(q))
  BY <1>3, <1>4, TableKept
<1>7. RowsFrom(r) = {}
  BY <1>1 DEF RagInv, NothingEarly
<1>8. TypeOK'
  <2>1. PhaseTypes'
    <3>1. "new" \notin Inside /\ p \notin Inside /\ p \notin Connected
      BY <1>1 DEF Inside, Connected
    <3>2. lock # r
      BY <1>1, <3>1 DEF RagInv, TypeOK
    <3>3. QED
      BY <1>1, <1>3, <3>1, <3>2, Moving DEF RagInv
  <2>2. answer' \in [Requests -> {"none", "ok", "refused", "error"}]
    BY <1>1 DEF RagInv, TypeOK
  <2>3. op' \in [Requests -> {"upload", "search"}] /\ text' \in [Requests -> Texts \cup {<<>>}]
    BY <1>2 DEF RagInv, TypeOK
  <2>4. QED
    BY <1>3, <2>1, <2>2, <2>3 DEF RagInv, TypeOK, PhaseTypes
<1>9. UploadsWrite'
  BY <1>1, <1>2, <1>4 DEF RagInv, TypeOK, UploadsWrite
<1>10. RoomKept' /\ OwnTransaction' /\ QuotaHolds'
  BY <1>1, <1>3, <1>4, <1>6 DEF RagInv, RoomKept, OwnTransaction, QuotaHolds
<1>11. NothingEarly'
  BY <1>1, <1>3, <1>4, <1>5, <1>6, <1>7 DEF RagInv, TypeOK, NothingEarly
<1>12. UploadsAreAtomic'
  <2>1. answer'[r] # "ok" /\ \A q \in Requests : q # r => answer'[q] = answer[q]
    BY <1>1 DEF RagInv, TypeOK, NothingEarly
  <2>2. /\ RowsFrom(r)' # {} => Stored(r)'
        /\ op'[r] = "upload" /\ answer'[r] = "ok" => Stored(r)'
        /\ answer'[r] \in {"refused", "error"} => RowsFrom(r)' = {}
    BY <1>5, <1>7, <2>1
  <2>3. ASSUME NEW q \in Requests, q # r
        PROVE  /\ RowsFrom(q)' # {} => Stored(q)'
               /\ op'[q] = "upload" /\ answer'[q] = "ok" => Stored(q)'
               /\ answer'[q] \in {"refused", "error"} => RowsFrom(q)' = {}
    BY <1>4, <1>5, <1>6, <2>1, <2>3 DEF RagInv, UploadsAreAtomic
  <2>4. QED
    BY <2>2, <2>3 DEF UploadsAreAtomic
<1>13. StoreHasFile' /\ LegacyIsRefused'
  BY <1>1, <1>3, <1>4 DEF RagInv, TypeOK, StoreHasFile, LegacyIsRefused
<1>14. QED
  BY <1>8, <1>9, <1>10, <1>11, <1>12, <1>13 DEF RagInv

\* The steps between the embedding and the commit: the transaction is filled, by all
\* the chunks or by some that will be rolled back, and the table is not touched.
LEMMA TransactionInv ==
  ASSUME RagInv, NEW r \in Requests, Insert(r) \/ InsertFails(r) \/ RollBack(r)
  PROVE  RagInv'
<1> USE DEF request, files, store
<1>1. /\ UNCHANGED <<op, text, rows, chunking, topK, earlier, hits, ready, legacy, database>>
      /\ phase[r] \in {"embedding", "committing", "rolling"}
  BY DEF Insert, InsertFails, RollBack, Step, End
<1>2. PICK p \in {"committing", "rolling", "ended"} :
        /\ phase' = [phase EXCEPT ![r] = p]
        /\ p = "committing" => Insert(r)
        /\ p = "ended" => RollBack(r)
        /\ p = "rolling" => InsertFails(r)
  BY DEF Insert, InsertFails, RollBack, Step, End
<1>3. \A q \in Requests : phase'[q] = IF q = r THEN p ELSE phase[q]
  BY <1>2 DEF RagInv, TypeOK
<1>4. \A q \in Requests : /\ N(q)' = N(q) /\ RowsFrom(q)' = RowsFrom(q)
                          /\ Stored(q)' <=> Stored(q)
  BY <1>1, TableKept
<1>5. lock = r /\ \A q \in Requests : q # r => phase[q] \notin Inside
  BY <1>1 DEF RagInv, TypeOK, Inside
<1>6. /\ p # "ended" => answer' = answer
      /\ p = "ended" => answer' = [answer EXCEPT ![r] = "error"]
  BY <1>2 DEF Insert, InsertFails, RollBack, End
<1>7. RowsFrom(r) = {} /\ answer[r] = "none"
  BY <1>1 DEF RagInv, NothingEarly
<1>8. phase[r] = "embedding" => open = <<>>
  BY <1>5 DEF RagInv, OwnTransaction, Inside
<1>9. TypeOK'
  <2>1. PhaseTypes'
    <3>1. p \in Inside => lock' = r
      BY <1>2, <1>5 DEF Insert, InsertFails, Inside
    <3>2. p = "ended" => lock' = None
      BY <1>2 DEF RollBack, End
    <3>3. ready
      BY <1>1 DEF RagInv, TypeOK, Inside, Connected
    <3>4. "ended" \notin Inside /\ "committing" \in Inside /\ "rolling" \in Inside
      BY DEF Inside
    <3>5. QED
      BY <1>1, <1>2, <1>5, <3>1, <3>2, <3>3, <3>4, Moving DEF RagInv
  <2>2. answer' \in [Requests -> {"none", "ok", "refused", "error"}]
    BY <1>6 DEF RagInv, TypeOK
  <2>3. vectors' \in [Requests -> Seq(Distances)]
    <3>1. vectors' = vectors \/ vectors' = [vectors EXCEPT ![r] = <<>>]
      BY DEF Insert, InsertFails, RollBack, End
    <3>2. vectors \in [Requests -> Seq(Distances)] /\ <<>> \in Seq(Distances)
      BY DEF RagInv, TypeOK
    <3>3. QED
      BY <3>1, <3>2
  <2>4. trouble' \in 0..MaxTrouble
    <3>1. trouble' = trouble \/ (trouble < MaxTrouble /\ trouble' = trouble + 1)
      BY DEF Insert, InsertFails, RollBack, Trouble
    <3>2. QED
      BY <3>1, RagAssumption DEF RagInv, TypeOK
  <2>5. open' \in Seq(Rows)
    <3>1. CASE Insert(r)
      BY <3>1, RowsOfType, ConcatProperties DEF Insert, RagInv, TypeOK
    <3>2. CASE InsertFails(r) /\ phase[r] = "embedding"
      <4>1. PICK n \in 0..Len(vectors[r]) : open' = open \o SubSeq(RowsOf(r), 1, n)
        BY <3>2 DEF InsertFails, Step
      <4>2. SubSeq(RowsOf(r), 1, n) \in Seq(Rows)
        BY RowsOfType, SubSeqProperties DEF RagInv
      <4>3. QED
        BY <4>1, <4>2, ConcatProperties DEF RagInv, TypeOK
    <3>3. CASE InsertFails(r) /\ phase[r] # "embedding"
      BY <3>3 DEF InsertFails, Step, RagInv, TypeOK
    <3>4. CASE RollBack(r)
      BY <3>4 DEF RollBack
    <3>5. QED
      BY <3>1, <3>2, <3>3, <3>4
  <2>6. chunking' = chunking
    BY <1>1
  <2>7. QED
    BY <1>1, <2>1, <2>2, <2>3, <2>4, <2>5 DEF RagInv, TypeOK, PhaseTypes
<1>10. UploadsWrite'
  BY <1>1, <1>2, <1>3 DEF RagInv, UploadsWrite
<1>11. RoomKept'
  BY <1>1, <1>2, <1>3, <1>4 DEF RagInv, RoomKept, Insert, Step
<1>12. OwnTransaction'
  <2>1. CASE p = "committing"
    <3>1. Left(r) = 0 /\ open' = open \o RowsOf(r) /\ phase[r] = "embedding"
      BY <1>2, <2>1 DEF Insert, Step
    <3>2. open' = RowsOf(r)
      BY <1>8, <3>1, RowsOfType, ConcatEmptySeq DEF RagInv
    <3>3. N(r) = Len(vectors[r])
      <4>1. op[r] = "upload" /\ text[r] \in Texts /\ chunking \in Chunkings
        BY <1>1 DEF RagInv, TypeOK, UploadsWrite
      <4>2. N(r) \in Nat
        BY <4>1, ChunkCount DEF N, ChunksOf
      <4>3. QED
        BY <3>1, <4>2, RowsOfType DEF RagInv, Left, N
    <3>4. Len(open') = N(r) /\ \A i \in 1..N(r) : open'[i].doc = r /\ open'[i].index = i
      BY <3>2, <3>3, RowsOfType DEF RagInv
    <3>5. \A q \in Requests : phase'[q] = "committing" => q = r
      BY <1>3, <1>5 DEF Inside
    <3>6. QED
      BY <1>3, <1>4, <2>1, <3>4, <3>5 DEF OwnTransaction
  <2>2. CASE p # "committing"
    <3>1. \A q \in Requests : phase'[q] # "committing"
      BY <1>3, <1>5, <2>2 DEF Inside
    <3>2. p = "rolling" => phase'[r] = "rolling"
      BY <1>3
    <3>3. p = "ended" => open' = <<>>
      BY <1>2 DEF RollBack
    <3>4. QED
      BY <1>2, <2>2, <3>1, <3>2, <3>3 DEF OwnTransaction
  <2>3. QED
    BY <2>1, <2>2
<1>13. NothingEarly'
  BY <1>1, <1>2, <1>3, <1>4, <1>6, <1>7 DEF RagInv, TypeOK, NothingEarly
<1>14. UploadsAreAtomic'
  BY <1>1, <1>2, <1>3, <1>4, <1>6, <1>7 DEF RagInv, TypeOK, NothingEarly, UploadsAreAtomic
<1>15. QuotaHolds' /\ StoreHasFile' /\ LegacyIsRefused'
  BY <1>1, <1>2, <1>3, <1>6 DEF RagInv, TypeOK, QuotaHolds, StoreHasFile, LegacyIsRefused
<1>16. QED
  BY <1>9, <1>10, <1>11, <1>12, <1>13, <1>14, <1>15 DEF RagInv

\* The commit puts the chunks of one upload, all of them, at the end of the table.
LEMMA CommitInv ==
  ASSUME RagInv, NEW r \in Requests, Commit(r)
  PROVE  RagInv'
<1> USE DEF request, files
<1>1. /\ phase[r] = "committing" /\ phase' = [phase EXCEPT ![r] = "stored"]
      /\ rows' = rows \o open /\ open' = <<>>
      /\ UNCHANGED <<op, text, topK, earlier, answer, lock, ready, legacy, database, vectors,
                     hits, chunking, trouble>>
  BY DEF Commit, Step
<1>2. /\ rows \in Seq(Rows) /\ open \in Seq(Rows)
      /\ Len(open) = N(r) /\ \A i \in 1..N(r) : open[i].doc = r /\ open[i].index = i
  BY <1>1 DEF RagInv, TypeOK, OwnTransaction
<1>3. /\ rows' \in Seq(Rows) /\ Len(rows') = Len(rows) + N(r)
      /\ Len(rows) \in Nat /\ N(r) \in Nat
      /\ \A i \in 1..Len(rows) : rows'[i] = rows[i]
      /\ \A i \in 1..N(r) : rows'[Len(rows) + i] = open[i]
  BY <1>1, <1>2, ConcatProperties
<1>4. \A q \in Requests : phase'[q] = IF q = r THEN "stored" ELSE phase[q]
  BY <1>1 DEF RagInv, TypeOK
<1>5. lock = r /\ \A q \in Requests : q # r => phase[q] \notin Inside
  BY <1>1 DEF RagInv, TypeOK, Inside
<1>6. RowsFrom(r) = {} /\ answer[r] = "none" /\ op[r] = "upload"
  BY <1>1 DEF RagInv, NothingEarly, UploadsWrite
<1>7. \A q \in Requests : N(q)' = N(q)
  BY <1>1 DEF N, ChunksOf
<1>8. \A q \in Requests \ {r} : RowsFrom(q)' = RowsFrom(q)
  <2>1. SUFFICES ASSUME NEW q \in Requests \ {r}, NEW i \in 1..Len(rows')
                 PROVE  rows'[i].doc = q <=> i \in 1..Len(rows) /\ rows[i].doc = q
    BY <1>2, <1>3 DEF RowsFrom
  <2>2. CASE i \in 1..Len(rows)
    BY <1>3, <2>2
  <2>3. CASE i \notin 1..Len(rows)
    <3>1. i - Len(rows) \in 1..N(r) /\ i = Len(rows) + (i - Len(rows))
      BY <1>3, <2>3
    <3>2. rows'[i].doc = r
      BY <1>2, <1>3, <3>1
    <3>3. QED
      BY <2>3, <3>2
  <2>4. QED
    BY <2>2, <2>3
<1>9. RowsFrom(r)' = (Len(rows) + 1)..(Len(rows) + N(r))
  <2>1. SUFFICES ASSUME NEW i \in 1..Len(rows')
                 PROVE  rows'[i].doc = r <=> i > Len(rows)
    BY <1>2, <1>3 DEF RowsFrom
  <2>2. CASE i \in 1..Len(rows)
    BY <1>2, <1>3, <1>6, <2>2 DEF RowsFrom
  <2>3. CASE i \notin 1..Len(rows)
    <3>1. i - Len(rows) \in 1..N(r) /\ i = Len(rows) + (i - Len(rows))
      BY <1>3, <2>3
    <3>2. QED
      BY <1>2, <1>3, <2>3, <3>1
  <2>4. QED
    BY <2>2, <2>3
<1>10. Stored(r)'
  <2>1. \A i \in 1..N(r) : rows'[Len(rows) + i].index = i
    BY <1>2, <1>3
  <2>2. Len(rows) \in 0..Len(rows')
    BY <1>3
  <2>3. QED
    BY <1>1, <1>6, <1>7, <1>9, <2>1, <2>2 DEF Stored, N
<1>11. \A q \in Requests \ {r} : Stored(q) => Stored(q)'
  <2>1. SUFFICES ASSUME NEW q \in Requests \ {r}, Stored(q)
                 PROVE  Stored(q)'
    OBVIOUS
  <2>2. PICK base \in 0..Len(rows) : /\ RowsFrom(q) = (base + 1)..(base + N(q))
                                    /\ \A i \in 1..N(q) : rows[base + i].index = i
    BY <2>1 DEF Stored, N
  <2>3. ASSUME NEW i \in 1..N(q) PROVE rows'[base + i].index = i
    <3>1. N(q) \in Nat
      <4>1. text[q] \in Texts /\ chunking \in Chunkings
        BY <2>1 DEF RagInv, TypeOK, UploadsWrite, Stored
      <4>2. QED
        BY <4>1, ChunkCount DEF N, ChunksOf
    <3>2. base + i \in RowsFrom(q)
      BY <2>2, <3>1
    <3>3. base + i \in 1..Len(rows)
      BY <1>2, <3>2 DEF RowsFrom
    <3>4. QED
      BY <1>3, <2>2, <3>3
  <2>4. base \in 0..Len(rows')
    BY <1>3
  <2>5. QED
    BY <1>1, <1>7, <1>8, <2>1, <2>2, <2>3, <2>4 DEF Stored, N
<1>12. TypeOK'
  <2>1. PhaseTypes'
    BY <1>1, <1>5, Moving DEF RagInv, TypeOK, Inside, Connected
  <2>2. QED
    BY <1>1, <1>3, <2>1 DEF RagInv, TypeOK, PhaseTypes
<1>13. UploadsWrite' /\ StoreHasFile' /\ LegacyIsRefused'
  BY <1>1, <1>4, <1>6 DEF RagInv, UploadsWrite, StoreHasFile, LegacyIsRefused
<1>14. RoomKept' /\ OwnTransaction'
  <2>1. \A q \in Requests : phase'[q] \notin {"embedding", "committing", "rolling"}
    BY <1>4, <1>5 DEF Inside
  <2>2. QED
    BY <1>1, <2>1 DEF RoomKept, OwnTransaction
<1>15. NothingEarly'
  BY <1>1, <1>4, <1>5, <1>8, <1>10 DEF RagInv, NothingEarly, Inside
<1>16. UploadsAreAtomic'
  BY <1>1, <1>6, <1>8, <1>10, <1>11 DEF RagInv, UploadsAreAtomic
<1>17. QuotaHolds'
  BY <1>1, <1>3 DEF RagInv, RoomKept, QuotaHolds
<1>18. QED
  BY <1>12, <1>13, <1>14, <1>15, <1>16, <1>17 DEF RagInv

\* A close, a restart and the operator forget what is in flight and nothing else.
LEMMA OutsideInv ==
  ASSUME RagInv, Close \/ Restart \/ Migrate \/ UNCHANGED vars
  PROVE  RagInv'
<1> USE DEF request, files, store, vars
<1>1. UNCHANGED <<op, text, topK, earlier, answer, database, rows, hits, chunking>>
  BY DEF Close, Restart, Migrate
<1>2. \A q \in Requests : /\ N(q)' = N(q) /\ RowsFrom(q)' = RowsFrom(q)
                          /\ Stored(q)' <=> Stored(q)
  BY <1>1, TableKept
<1>3. CASE Close \/ Migrate \/ UNCHANGED vars
  <2>1. UNCHANGED <<phase, lock, vectors, open, trouble>>
    BY <1>3 DEF Close, Migrate
  <2>2. /\ legacy' = legacy \/ legacy' = FALSE
        /\ ready' = ready \/ (ready' = FALSE /\ lock = None)
    BY <1>3 DEF Close, Migrate
  <2>3. TypeOK'
    <3>1. \A q \in Requests : phase'[q] \in Connected => ready'
      BY <2>1, <2>2, RagAssumption DEF RagInv, TypeOK, Connected
    <3>2. QED
      BY <1>1, <2>1, <2>2, <3>1 DEF RagInv, TypeOK
  <2>4. LegacyIsRefused' /\ StoreHasFile'
    BY <1>1, <2>1, <2>2 DEF RagInv, TypeOK, LegacyIsRefused, StoreHasFile
  <2>5. UploadsWrite' /\ RoomKept' /\ OwnTransaction' /\ NothingEarly' /\ UploadsAreAtomic'
          /\ QuotaHolds'
    BY <1>1, <1>2, <2>1 DEF RagInv, UploadsWrite, RoomKept, OwnTransaction, NothingEarly,
       UploadsAreAtomic, QuotaHolds
  <2>6. QED
    BY <2>3, <2>4, <2>5 DEF RagInv
<1>4. CASE Restart
  <2>1. /\ phase' = [q \in Requests |-> IF phase[q] = "new" THEN "new" ELSE "ended"]
        /\ lock' = None /\ ready' = FALSE /\ open' = <<>> /\ legacy' = legacy
        /\ vectors' = [q \in Requests |-> <<>>]
    BY <1>4 DEF Restart
  <2>2. \A q \in Requests : phase'[q] = IF phase[q] = "new" THEN "new" ELSE "ended"
    BY <2>1
  <2>3. TypeOK'
    <3>1. trouble' \in 0..MaxTrouble
      BY <1>4, RagAssumption DEF Restart, Trouble, RagInv, TypeOK
    <3>2. /\ phase' \in [Requests -> Inside \cup {"new", "waiting", "ended"}]
          /\ \A q \in Requests : /\ phase'[q] \notin Inside /\ phase'[q] \notin Connected
                                 /\ lock' # q
      BY <2>1, RagAssumption DEF Inside, Connected
    <3>3. vectors' \in [Requests -> Seq(Distances)] /\ open' \in Seq(Rows)
      BY <2>1
    <3>4. lock' \in Requests \cup {None} /\ ready' \in BOOLEAN
      BY <2>1
    <3>5. QED
      BY <1>1, <2>1, <3>1, <3>2, <3>3, <3>4 DEF RagInv, TypeOK
  <2>4. LegacyIsRefused' /\ StoreHasFile' /\ UploadsWrite'
    BY <1>1, <2>1, <2>2 DEF RagInv, LegacyIsRefused, StoreHasFile, UploadsWrite
  <2>5. RoomKept' /\ OwnTransaction' /\ QuotaHolds'
    BY <1>1, <2>1, <2>2 DEF RagInv, RoomKept, OwnTransaction, QuotaHolds
  <2>6. NothingEarly' /\ UploadsAreAtomic'
    BY <1>1, <1>2, <2>2 DEF RagInv, NothingEarly, UploadsAreAtomic
  <2>7. QED
    BY <2>3, <2>4, <2>5, <2>6 DEF RagInv
<1>5. QED
  BY <1>3, <1>4

\* The invariant of the document store.
THEOREM RagInvariance == Spec => []RagInv
<1>1. RagInv /\ [Next]_vars => RagInv'
  <2>1. SUFFICES ASSUME RagInv, [Next]_vars PROVE RagInv'
    OBVIOUS
  <2>2. CASE \E r \in Requests, t \in Texts : Upload(r, t)
    BY <2>1, <2>2, UploadInv
  <2>3. CASE \E r \in Requests : Insert(r) \/ InsertFails(r) \/ RollBack(r)
    BY <2>1, <2>3, TransactionInv
  <2>4. CASE \E r \in Requests : Commit(r)
    BY <2>1, <2>4, CommitInv
  <2>5. CASE \E r \in Requests : Quiet(r)
    BY <2>1, <2>5, QuietInv
  <2>6. CASE Close \/ Restart \/ Migrate \/ UNCHANGED vars
    BY <2>1, <2>6, OutsideInv
  <2>7. QED
    BY <2>1, <2>2, <2>3, <2>4, <2>5, <2>6 DEF Next, Work, Quiet
<1>2. QED
  BY InitRag, <1>1, PTL DEF Spec

\* The types of RagStore; one request in the lock, and a connection under it.
THEOREM RagTypes == Spec => []TypeOK
BY RagInvariance, PTL DEF RagInv

\* The quota of MAX_RAG_CHUNKS holds for every quota, text and setting.
THEOREM Quota == Spec => []QuotaHolds
BY RagInvariance, PTL DEF RagInv

\* Uploads are all or nothing, whatever fails and whenever the process is killed.
THEOREM Atomicity == Spec => []UploadsAreAtomic
BY RagInvariance, PTL DEF RagInv

\* A Chroma store is never taken for an empty one.
THEOREM LegacySafe == Spec => []LegacyIsRefused
BY RagInvariance, PTL DEF RagInv

-----------------------------------------------------------------------------
(* Numbers and ranks.                                                      *)

\* A set of numbers has a least one: this is what stands for induction below.
LEMMA Least ==
  ASSUME NEW numbers \in SUBSET Nat, numbers # {}
  PROVE  \E n \in numbers : \A m \in numbers : n <= m
<1>1. PICK n \in numbers : \A m \in numbers : <<m, n>> \notin OpToRel(<, Nat)
  BY NatLessThanWellFounded, WFMin
<1>2. \A m \in numbers : n \in Nat /\ m \in Nat /\ ~ (m < n)
  BY <1>1, Zenon DEF OpToRel
<1> QED
  BY <1>2

\* Everyone in a finite set of numbers is the n-th of it, for the n that counts
\* those below.
LEMMA RankOf ==
  ASSUME NEW numbers \in SUBSET Nat, IsFiniteSet(numbers), NEW i \in numbers
  PROVE  LET n == Cardinality({j \in numbers : j < i}) + 1
         IN  n \in 1..Cardinality(numbers) /\ Nth(numbers, n) = i
<1> DEFINE Below(k) == {j \in numbers : j < k}
           n == Cardinality(Below(i)) + 1
<1>1. ASSUME NEW k \in numbers
      PROVE  IsFiniteSet(Below(k)) /\ Cardinality(Below(k)) \in Nat
  BY FS_Subset, FS_CardinalityType
<1>2. ASSUME NEW k \in numbers, NEW l \in numbers, k < l
      PROVE  Cardinality(Below(k)) # Cardinality(Below(l))
  <2>1. Below(k) \subseteq Below(l) /\ k \in Below(l) /\ k \notin Below(k)
    <3>1. \A j \in numbers : j \in Nat
      OBVIOUS
    <3>2. \A j \in numbers : j < k => j < l
      BY <1>2, <3>1
    <3>3. k \in Below(l) /\ k \notin Below(k)
      BY <1>2, <3>1
    <3> HIDE DEF Below
    <3>4. Below(k) \subseteq Below(l)
      BY <3>2 DEF Below
    <3> QED
      BY <3>3, <3>4
  <2> QED
    BY <1>1, <2>1, FS_Subset
<1>3. \A k \in numbers : Cardinality(Below(k)) = n - 1 => k = i
  <2> SUFFICES ASSUME NEW k \in numbers, Cardinality(Below(k)) = n - 1, k # i
               PROVE  FALSE
    OBVIOUS
  <2>1. Cardinality(Below(k)) = Cardinality(Below(i))
    BY <1>1
  <2>2. k < i \/ i < k
    OBVIOUS
  <2> QED
    BY <1>2, <2>1, <2>2
<1>4. Cardinality(Below(i)) = n - 1
  BY <1>1
<1>5. Nth(numbers, n) = i
  BY <1>3, <1>4 DEF Nth
<1>6. n <= Cardinality(numbers)
  <2>1. Below(i) \in SUBSET numbers /\ i \notin Below(i)
    OBVIOUS
  <2>2. Cardinality(Below(i)) <= Cardinality(numbers) /\ Cardinality(Below(i)) # Cardinality(numbers)
    BY <2>1, FS_Subset
  <2> QED
    BY <1>1, <2>2, FS_CardinalityType
<1> QED
  BY <1>1, <1>5, <1>6, FS_CardinalityType

\* A set of numbers from one up, with every number below one of its own, is an interval.
LEMMA Initial ==
  ASSUME NEW l \in Nat, NEW s \in SUBSET (1..l),
         \A i \in s : \A j \in 1..i : j \in s
  PROVE  Cardinality(s) \in 0..l /\ s = 1..Cardinality(s)
<1> DEFINE out == {i \in 1..l + 1 : i \notin s}
<1>1. out \in SUBSET Nat /\ out # {}
  <2>1. l + 1 \in out
    OBVIOUS
  <2> QED
    BY <2>1
<1>2. PICK x \in out : \A y \in out : x <= y
  BY <1>1, Least
<1>3. s = 1..x - 1
  <2>1. ASSUME NEW i \in s
        PROVE  i < x
    <3>1. i >= x => x \in 1..i
      BY <1>2
    <3> QED
      BY <1>2, <3>1
  <2>2. ASSUME NEW i \in 1..x - 1
        PROVE  i \in s
    BY <1>2
  <2>3. s \subseteq 1..l /\ x \in 1..l + 1
    BY <1>2
  <2>4. \A i \in s : i \in 1..x - 1
    BY <2>1, <2>3
  <2> QED
    BY <2>2, <2>4
<1>4. Cardinality(s) = x - 1
  BY <1>2, <1>3, FS_Interval
<1> QED
  BY <1>2, <1>3, <1>4

-----------------------------------------------------------------------------
(* The chunker.                                                            *)

\* A text does not grow when it is normalized.
LEMMA NormalizedLength ==
  ASSUME NEW t \in Texts
  PROVE  /\ Len(t) \in Nat
         /\ Len(Normalized[t]) \in Nat
         /\ Len(Normalized[t]) <= Len(t)
         /\ DOMAIN Normalized[t] = 1..Len(Normalized[t])
<1> DEFINE Inner(u, i) == (\E j \in 1..i : Visible(u, j)) /\ (\E j \in i..Len(u) : Visible(u, j))
           Trails(u, i) == u[i] = "space" /\ \E j \in i..Len(u) : /\ u[j] = "newline"
                                                                  /\ \A k \in i..j : ~Visible(u, k)
           kept == {i \in DOMAIN t : Inner(t, i) /\ ~Trails(t, i)}
           w == [n \in 1..Cardinality(kept) |-> t[Nth(kept, n)]]
           seen == {t[Nth(kept, n)] : n \in 1..Cardinality(kept)}
<1>1. Normalized[t] = w
  BY DEF Normalized
<1>2. Len(t) \in Nat /\ DOMAIN t = 1..Len(t)
  BY RagAssumption
<1>3. kept \in SUBSET (1..Len(t))
  BY <1>2
<1> HIDE DEF kept
<1>4. Cardinality(kept) \in Nat /\ Cardinality(kept) <= Len(t)
  <2>1. IsFiniteSet(1..Len(t)) /\ Cardinality(1..Len(t)) = Len(t)
    <3>1. \A l \in Nat : IsFiniteSet(1..l) /\ Cardinality(1..l) = l
      BY FS_Interval
    <3> QED
      BY <1>2, <3>1
  <2>2. IsFiniteSet(kept) /\ Cardinality(kept) <= Cardinality(1..Len(t))
    BY <1>3, <2>1, FS_Subset
  <2> QED
    BY <2>1, <2>2, FS_CardinalityType
<1>5. w \in Seq(seen)
  BY <1>4, IsASeq
<1>6. Len(w) = Cardinality(kept) /\ DOMAIN w = 1..Cardinality(kept)
  BY <1>4, <1>5
<1> QED
  BY <1>1, <1>2, <1>4, <1>6

\* Each pass begins where the one before ended, less the overlap.
LEMMA StartStep ==
  ASSUME NEW c \in Chunkings, NEW p \in Nat \ {0}
  PROVE  /\ c.size \in Nat /\ c.overlap \in Nat /\ c.overlap < c.size
         /\ Start(c, 1) = 0
         /\ Start(c, p) \in Nat
         /\ Start(c, p + 1) = Start(c, p) + c.size - c.overlap
         /\ p <= Start(c, p) + 1
<1>1. c.size \in Nat /\ c.overlap \in Nat /\ c.overlap < c.size
  BY RagAssumption
<1> DEFINE d == c.size - c.overlap
<1>2. d \in Nat \ {0}
  BY <1>1
<1> HIDE DEF d
<1>3. (p - 1) * d \in Nat /\ ((p + 1) - 1) * d = (p - 1) * d + d /\ p - 1 <= (p - 1) * d /\ (1 - 1) * d = 0
  BY <1>2
<1>4. \A q \in Nat \ {0} : Start(c, q) = (q - 1) * d
  BY DEF Start, d
<1> QED
  BY <1>1, <1>3, <1>4 DEF d

\* Every visible character is in a chunk: of the first pass that reaches it.
LEMMA Covered ==
  ASSUME NEW c \in Chunkings, NEW t \in Texts, NEW i \in DOMAIN Normalized[t],
         Visible(Normalized[t], i)
  PROVE  \E p \in Chunks[c][t] : i \in Window(c, t, p)
<1> DEFINE m == Len(Normalized[t])
           reach == {p \in Nat \ {0} : i <= Start(c, p) + c.size}
<1>1. m \in Nat /\ i \in 1..m /\ Len(t) \in Nat /\ m <= Len(t) /\ DOMAIN t = 1..Len(t)
  BY NormalizedLength, RagAssumption
<1> HIDE DEF m
<1>2. c.size \in Nat /\ c.overlap \in Nat /\ c.overlap < c.size
  BY StartStep
<1>3. i \in reach
  <2>1. i \in Nat \ {0}
    BY <1>1
  <2>2. Start(c, i) \in Nat /\ i <= Start(c, i) + 1
    BY <2>1, StartStep
  <2> QED
    BY <1>2, <2>1, <2>2
<1>4. PICK p \in reach : \A q \in reach : p <= q
  <2>1. reach \in SUBSET Nat /\ reach # {}
    BY <1>3
  <2> QED
    BY <2>1, Least
<1>5. p \in Nat \ {0} /\ i <= Start(c, p) + c.size /\ Start(c, p) \in Nat
  BY <1>4, StartStep
<1>6. CASE p = 1
  <2>1. Start(c, p) = 0
    BY <1>6, StartStep
  <2>2. p \in DOMAIN t
    BY <1>1, <1>6
  <2>3. i \in Window(c, t, p)
    BY <1>1, <1>5, <2>1 DEF Window
  <2> QED
    BY <1>6, <2>2, <2>3 DEF Chunks, Passes
<1>7. CASE p # 1
  <2> DEFINE q == p - 1
  <2>1. q \in Nat \ {0} /\ q + 1 = p
    BY <1>5, <1>7
  <2> HIDE DEF q
  <2>2. q \notin reach
    BY <1>4, <2>1
  <2>3. /\ Start(c, q) \in Nat /\ q <= Start(c, q) + 1
        /\ Start(c, p) = Start(c, q) + c.size - c.overlap
    BY <2>1, StartStep
  <2>4. Start(c, q) + c.size < i
    BY <1>1, <1>2, <2>1, <2>2, <2>3
  <2>5. p \in 1..Len(t) /\ Start(c, q) + c.size < m
    BY <1>1, <1>2, <1>5, <2>1, <2>3, <2>4
  <2>6. Start(c, p) < i
    BY <1>1, <1>2, <2>3, <2>4
  <2>7. i \in Window(c, t, p)
    BY <1>5, <2>6 DEF Window
  <2>8. p \in Passes(c, t)
    BY <1>1, <2>1, <2>5 DEF Passes, q, m
  <2> QED
    BY <2>7, <2>8 DEF Chunks
<1> QED
  BY <1>6, <1>7

\* Everything visible in an answered upload is stored.
LEMMA VisibleStored ==
  ASSUME RagInv
  PROVE  VisibleTextIsStored
<1> SUFFICES ASSUME NEW r \in Requests, op[r] = "upload", answer[r] = "ok",
                    NEW i \in DOMAIN Normalized[text[r]], Visible(Normalized[text[r]], i)
             PROVE  \E j \in RowsFrom(r) : i \in Window(chunking, text[r], PassOf(r, rows[j].index))
  BY DEF VisibleTextIsStored
<1>1. text[r] \in Texts /\ chunking \in Chunkings /\ Stored(r)
  BY DEF RagInv, UploadsWrite, TypeOK, UploadsAreAtomic
<1>2. PICK p \in ChunksOf(r) : i \in Window(chunking, text[r], p)
  BY <1>1, Covered DEF ChunksOf
<1>3. ChunksOf(r) \in SUBSET Nat /\ IsFiniteSet(ChunksOf(r))
  <2>1. ChunksOf(r) \subseteq DOMAIN text[r]
    BY <1>1 DEF ChunksOf, Chunks, Passes
  <2>2. DOMAIN text[r] \subseteq Nat
    BY <1>1, RagAssumption
  <2> QED
    BY <1>1, <2>1, <2>2, ChunkCount DEF ChunksOf
<1>4. PICK n \in 1..N(r) : PassOf(r, n) = p
  BY <1>2, <1>3, RankOf DEF PassOf, N
<1>5. PICK base \in 0..Len(rows) : /\ RowsFrom(r) = (base + 1)..(base + N(r))
                                  /\ \A k \in 1..N(r) : rows[base + k].index = k
  BY <1>1 DEF Stored, N
<1>6. base + n \in RowsFrom(r) /\ rows[base + n].index = n
  <2>1. N(r) \in Nat
    BY <1>1, ChunkCount DEF N, ChunksOf
  <2> QED
    BY <1>5, <2>1
<1> QED
  BY <1>2, <1>4, <1>6

\* Whatever the texts and settings, an answered upload is stored with everything
\* visible in it.
THEOREM VisibleText == Spec => []VisibleTextIsStored
<1>1. RagInv => VisibleTextIsStored
  BY VisibleStored
<1> QED
  BY <1>1, RagInvariance, PTL

-----------------------------------------------------------------------------
(* The scan of a search.                                                   *)

\* The distances of what the scan sees can be compared.
Comparable == Table \in Seq([doc : Requests, index : Nat, near : Nat])

\* Nearer, or inserted earlier among equals, in what the scan sees.
Closer(a, b) == Table[a].near < Table[b].near \/ (Table[a].near = Table[b].near /\ a < b)

Ascending(best) == \A i, j \in DOMAIN best : i < j => Closer(best[i], best[j])

\* The k nearest of the first n rows, in order.
BestOf(best, n, k) ==
  /\ best \in Seq(1..n)
  /\ Len(best) = IF k < n THEN k ELSE n
  /\ n <= k => ToSet(best) = 1..n
  /\ Ascending(best)
  /\ \A i \in DOMAIN best, a \in (1..n) \ ToSet(best) : Closer(best[i], a)

LEMMA InsertAtProperties ==
  ASSUME NEW S, NEW s \in Seq(S), NEW m \in 0..Len(s), NEW e \in S
  PROVE  /\ InsertAt(s, m + 1, e) \in Seq(S)
         /\ Len(InsertAt(s, m + 1, e)) = Len(s) + 1
         /\ \A j \in 1..Len(s) + 1 :
              InsertAt(s, m + 1, e)[j] = IF j <= m THEN s[j] ELSE IF j = m + 1 THEN e ELSE s[j - 1]
<1> DEFINE a == SubSeq(s, 1, m)
           b == SubSeq(s, m + 1, Len(s))
           ae == a \o <<e>>
           r == ae \o b
<1>1. Len(s) \in Nat /\ m \in Nat /\ m <= Len(s)
  OBVIOUS
<1>2. a \in Seq(S) /\ Len(a) = m /\ \A j \in 1..m : a[j] = s[j]
  <2>1. \A i \in 1..m : s[i] \in S
    BY <1>1
  <2>2. /\ a \in Seq(S)
        /\ Len(a) = IF 1 <= m THEN m - 1 + 1 ELSE 0
        /\ \A i \in 1..m - 1 + 1 : a[i] = s[1 + i - 1]
    BY <1>1, <2>1, SubSeqProperties
  <2> HIDE DEF a
  <2> QED
    BY <1>1, <2>2
<1>3. b \in Seq(S) /\ Len(b) = Len(s) - m /\ \A j \in 1..Len(s) - m : b[j] = s[m + j]
  <2>1. \A i \in m + 1..Len(s) : s[i] \in S
    BY <1>1
  <2>2. /\ b \in Seq(S)
        /\ Len(b) = IF m + 1 <= Len(s) THEN Len(s) - (m + 1) + 1 ELSE 0
        /\ \A i \in 1..Len(s) - (m + 1) + 1 : b[i] = s[m + 1 + i - 1]
    BY <1>1, <2>1, SubSeqProperties
  <2> HIDE DEF b
  <2> QED
    BY <1>1, <2>2
<1> HIDE DEF a, b
<1>4. ae \in Seq(S) /\ Len(ae) = m + 1 /\ \A j \in 1..m + 1 : ae[j] = IF j <= m THEN s[j] ELSE e
  <2>1. <<e>> \in Seq(S) /\ Len(<<e>>) = 1 /\ <<e>>[1] = e
    OBVIOUS
  <2>2. /\ ae \in Seq(S) /\ Len(ae) = m + 1
        /\ \A j \in 1..m + 1 : ae[j] = IF j <= m THEN a[j] ELSE <<e>>[j - m]
    BY <1>2, <2>1, ConcatProperties
  <2> HIDE DEF ae
  <2>3. \A j \in 1..m + 1 : ~ (j <= m) => j - m = 1
    BY <1>1
  <2> QED
    BY <1>1, <1>2, <2>1, <2>2, <2>3
<1> HIDE DEF ae
<1>5. /\ r \in Seq(S) /\ Len(r) = Len(s) + 1
      /\ \A j \in 1..Len(s) + 1 : r[j] = IF j <= m + 1 THEN ae[j] ELSE b[j - (m + 1)]
  <2>1. /\ r \in Seq(S) /\ Len(r) = Len(ae) + Len(b)
        /\ \A j \in 1..Len(ae) + Len(b) : r[j] = IF j <= Len(ae) THEN ae[j] ELSE b[j - Len(ae)]
    BY <1>3, <1>4, ConcatProperties
  <2> HIDE DEF r
  <2> QED
    BY <1>1, <1>3, <1>4, <2>1
<1> HIDE DEF r
<1>6. InsertAt(s, m + 1, e) = r
  <2>1. (m + 1) - 1 = m
    BY <1>1
  <2>2. InsertAt(s, m + 1, e) = SubSeq(s, 1, (m + 1) - 1) \o <<e>> \o SubSeq(s, m + 1, Len(s))
    BY Zenon DEF InsertAt
  <2> QED
    BY <2>1, <2>2, Zenon DEF r, ae, a, b
<1>7. \A j \in 1..Len(s) + 1 : r[j] = IF j <= m THEN s[j] ELSE IF j = m + 1 THEN e ELSE s[j - 1]
  <2> TAKE j \in 1..Len(s) + 1
  <2>1. CASE j <= m + 1
    BY <1>1, <1>4, <1>5, <2>1
  <2>2. CASE ~ (j <= m + 1)
    <3> DEFINE i == j - (m + 1)
    <3>1. i \in 1..Len(s) - m /\ m + i = j - 1
      BY <1>1, <2>2
    <3>2. b[i] = s[m + i]
      BY <1>3, <3>1
    <3>3. r[j] = b[i] /\ ~ (j <= m) /\ j # m + 1
      BY <1>1, <1>5, <2>2
    <3> QED
      BY <3>1, <3>2, <3>3
  <2> QED
    BY <2>1, <2>2
<1> QED
  BY <1>5, <1>6, <1>7

\* A row that goes in behind the ones that are as near keeps the list in order.
LEMMA InsertRow ==
  ASSUME Comparable, NEW n \in Nat, n + 1 \in DOMAIN Table,
         NEW rest \in Seq(1..n), Ascending(rest)
  PROVE  LET ahead == {j \in DOMAIN rest : Table[rest[j]].near <= Table[n + 1].near}
             new == InsertAt(rest, Cardinality(ahead) + 1, n + 1)
         IN  /\ new \in Seq(1..n + 1)
             /\ Len(new) = Len(rest) + 1
             /\ ToSet(new) = ToSet(rest) \cup {n + 1}
             /\ Ascending(new)
<1> DEFINE ahead == {j \in DOMAIN rest : Table[rest[j]].near <= Table[n + 1].near}
           m == Cardinality(ahead)
           new == InsertAt(rest, m + 1, n + 1)
           l == Len(rest)
<1>1. /\ l \in Nat /\ DOMAIN rest = 1..l
      /\ \A j \in 1..l : rest[j] \in 1..n
  OBVIOUS
<1>2. n + 1 \in 1..Len(Table) /\ Len(Table) \in Nat
  BY DEF Comparable
<1>3. /\ \A j \in 1..l : Table[rest[j]].near \in Nat
      /\ Table[n + 1].near \in Nat
  <2>1. \A i \in 1..Len(Table) : Table[i].near \in Nat
    <3>1. \A i \in 1..Len(Table) : Table[i] \in [doc : Requests, index : Nat, near : Nat]
      BY ElementOfSeq DEF Comparable
    <3> QED
      BY <3>1
  <2>2. \A j \in 1..l : rest[j] \in 1..Len(Table)
    BY <1>1, <1>2
  <2> QED
    BY <1>2, <2>1, <2>2
<1>4. \A i, j \in 1..l : i < j => Closer(rest[i], rest[j])
  BY <1>1 DEF Ascending
<1> HIDE DEF l
<1>5. m \in 0..l /\ ahead = 1..m
  <2>1. ahead \in SUBSET (1..l)
    BY <1>1
  <2>2. ASSUME NEW i \in ahead, NEW j \in 1..i
        PROVE  j \in ahead
    <3>1. i \in 1..l /\ j \in 1..l /\ (j < i \/ j = i) /\ Table[rest[i]].near <= Table[n + 1].near
      BY <1>1, <2>1
    <3>2. Table[rest[j]].near <= Table[rest[i]].near
      <4>1. Table[rest[j]].near \in Nat /\ Table[rest[i]].near \in Nat
        BY <1>3, <3>1
      <4>2. j < i => Closer(rest[j], rest[i])
        BY <1>4, <3>1
      <4>3. j < i => Table[rest[j]].near <= Table[rest[i]].near
        BY <4>1, <4>2 DEF Closer
      <4> QED
        BY <3>1, <4>1, <4>3
    <3>3. Table[rest[j]].near <= Table[n + 1].near
      BY <1>3, <3>1, <3>2
    <3> QED
      BY <1>1, <3>1, <3>3
  <2> HIDE DEF ahead
  <2> QED
    BY <1>1, <2>1, <2>2, Initial
<1>6. \A j \in 1..l : IF j <= m THEN Table[rest[j]].near <= Table[n + 1].near
                                ELSE Table[n + 1].near < Table[rest[j]].near
  <2> TAKE j \in 1..l
  <2>1. j <= m <=> j \in ahead
    BY <1>1, <1>5
  <2> QED
    BY <1>1, <1>3, <2>1
<1> HIDE DEF m
<1>7. /\ new \in Seq(1..n + 1)
      /\ Len(new) = l + 1
      /\ \A j \in 1..l + 1 : new[j] = IF j <= m THEN rest[j] ELSE IF j = m + 1 THEN n + 1 ELSE rest[j - 1]
  <2>1. rest \in Seq(1..n + 1)
    <3>1. 1..n \subseteq 1..n + 1
      OBVIOUS
    <3>2. rest \in [1..l -> 1..n + 1]
      BY <1>1, <3>1
    <3> QED
      BY <1>1, <3>2
  <2>2. n + 1 \in 1..n + 1 /\ m \in 0..Len(rest)
    BY <1>5 DEF l
  <2>3. /\ InsertAt(rest, m + 1, n + 1) \in Seq(1..n + 1)
        /\ Len(InsertAt(rest, m + 1, n + 1)) = Len(rest) + 1
        /\ \A j \in 1..Len(rest) + 1 :
             InsertAt(rest, m + 1, n + 1)[j]
               = IF j <= m THEN rest[j] ELSE IF j = m + 1 THEN n + 1 ELSE rest[j - 1]
    <3> DEFINE positions == 1..n + 1
               i == n + 1
    <3>1. rest \in Seq(positions) /\ i \in positions
      BY <2>1, <2>2
    <3> HIDE DEF positions, i
    <3>2. /\ InsertAt(rest, m + 1, i) \in Seq(positions)
          /\ Len(InsertAt(rest, m + 1, i)) = Len(rest) + 1
          /\ \A j \in 1..Len(rest) + 1 :
               InsertAt(rest, m + 1, i)[j]
                 = IF j <= m THEN rest[j] ELSE IF j = m + 1 THEN i ELSE rest[j - 1]
      BY <2>2, <3>1, InsertAtProperties
    <3> QED
      BY <3>2 DEF positions, i
  <2> QED
    BY <2>3 DEF l
<1> HIDE DEF new
<1>8. DOMAIN new = 1..l + 1
  BY <1>1, <1>7
<1>9. ToSet(new) = ToSet(rest) \cup {n + 1}
  <2>1. ASSUME NEW j \in 1..l + 1
        PROVE  new[j] \in ToSet(rest) \cup {n + 1}
    <3>1. j <= m => j \in 1..l
      BY <1>1, <1>5, <2>1
    <3>2. ~ (j <= m) /\ j # m + 1 => j - 1 \in 1..l
      BY <1>1, <1>5, <2>1
    <3> QED
      BY <1>1, <1>7, <3>1, <3>2 DEF ToSet
  <2>2. ASSUME NEW j \in 1..l
        PROVE  rest[j] \in ToSet(new)
    <3>1. CASE j <= m
      <4>1. j \in DOMAIN new /\ new[j] = rest[j]
        BY <1>1, <1>7, <1>8, <3>1
      <4> QED
        BY <4>1 DEF ToSet
    <3>2. CASE ~ (j <= m)
      <4>1. j + 1 \in 1..l + 1 /\ ~ (j + 1 <= m) /\ j + 1 # m + 1 /\ (j + 1) - 1 = j
        BY <1>1, <1>5, <3>2
      <4> QED
        BY <1>7, <1>8, <4>1 DEF ToSet
    <3> QED
      BY <3>1, <3>2
  <2>3. n + 1 \in ToSet(new)
    <3>1. m + 1 \in 1..l + 1 /\ ~ (m + 1 <= m)
      BY <1>1, <1>5
    <3> QED
      BY <1>7, <1>8, <3>1 DEF ToSet
  <2>4. ToSet(new) \subseteq ToSet(rest) \cup {n + 1}
    BY <1>8, <2>1 DEF ToSet
  <2>5. ToSet(rest) \subseteq ToSet(new)
    BY <1>1, <2>2 DEF ToSet
  <2> QED
    BY <2>3, <2>4, <2>5
<1>10. ASSUME NEW i \in 1..l + 1, NEW j \in 1..l + 1, i < j
       PROVE  Closer(new[i], new[j])
  <2>1. CASE j <= m
    <3>1. i \in 1..l /\ j \in 1..l /\ new[i] = rest[i] /\ new[j] = rest[j]
      BY <1>1, <1>5, <1>7, <1>10, <2>1
    <3> QED
      BY <1>4, <1>10, <3>1
  <2>2. CASE j = m + 1
    <3>1. i \in 1..l /\ i <= m /\ new[i] = rest[i] /\ new[j] = n + 1
      BY <1>1, <1>5, <1>7, <1>10, <2>2
    <3>2. rest[i] < n + 1
      BY <1>1, <3>1
    <3> QED
      BY <1>3, <1>6, <3>1, <3>2 DEF Closer
  <2>3. CASE m + 1 < j /\ i = m + 1
    <3>1. j - 1 \in 1..l /\ ~ (j - 1 <= m) /\ new[i] = n + 1 /\ new[j] = rest[j - 1]
      BY <1>1, <1>5, <1>7, <2>3
    <3> QED
      BY <1>3, <1>6, <3>1 DEF Closer
  <2>4. CASE m + 1 < j /\ i <= m
    <3>1. i \in 1..l /\ j - 1 \in 1..l /\ i < j - 1 /\ new[i] = rest[i] /\ new[j] = rest[j - 1]
      BY <1>1, <1>5, <1>7, <2>4
    <3> QED
      BY <1>4, <3>1
  <2>5. CASE m + 1 < i
    <3>1. i - 1 \in 1..l /\ j - 1 \in 1..l /\ i - 1 < j - 1
      BY <1>1, <1>5, <1>10, <2>5
    <3>2. ~ (i <= m) /\ i # m + 1 /\ ~ (j <= m) /\ j # m + 1
      BY <1>1, <1>5, <1>10, <2>5
    <3>3. new[i] = rest[i - 1] /\ new[j] = rest[j - 1]
      BY <1>7, <3>2
    <3> QED
      BY <1>4, <3>1, <3>3
  <2> QED
    BY <1>5, <1>10, <2>1, <2>2, <2>3, <2>4, <2>5
<1>11. Ascending(new)
  BY <1>8, <1>10 DEF Ascending
<1> QED
  BY <1>7, <1>9, <1>11 DEF new, m, l

\* One row of the loop keeps the best of what it has seen.
LEMMA KeepBest ==
  ASSUME Comparable, NEW k \in Nat \ {0}, NEW n \in Nat, n + 1 \in DOMAIN Table,
         NEW best, BestOf(best, n, k)
  PROVE  BestOf(Keep(best, n + 1, k), n + 1, k)
<1> DEFINE Near(a) == Table[a].near
           l == Len(best)
           last == best[l]
           out == (1..n) \ ToSet(best)
           Ahead(rest) == {j \in DOMAIN rest : Table[rest[j]].near <= Table[n + 1].near}
           New(rest) == InsertAt(rest, Cardinality(Ahead(rest)) + 1, n + 1)
<1>1. /\ best \in Seq(1..n) /\ l \in Nat /\ DOMAIN best = 1..l
      /\ \A i \in 1..l : best[i] \in 1..n
      /\ l = IF k < n THEN k ELSE n
      /\ n <= k => ToSet(best) = 1..n
      /\ \A i, j \in 1..l : i < j => Closer(best[i], best[j])
      /\ \A i \in 1..l, a \in out : Closer(best[i], a)
  BY DEF BestOf, Ascending
<1>2. \A a \in 1..n + 1 : Near(a) \in Nat
  <2>1. n + 1 \in 1..Len(Table) /\ Len(Table) \in Nat
    BY DEF Comparable
  <2>2. \A a \in 1..Len(Table) : Table[a] \in [doc : Requests, index : Nat, near : Nat]
    BY ElementOfSeq DEF Comparable
  <2> QED
    BY <2>1, <2>2
<1>3. Last(best) = last
  BY DEF Last
<1> HIDE DEF l
<1>4. CASE n < k
  <2>1. l < k /\ ToSet(best) = 1..n /\ l = n
    BY <1>1, <1>4
  <2>2. Keep(best, n + 1, k) = New(best)
    BY <2>1 DEF Keep, l
  <2>3. /\ New(best) \in Seq(1..n + 1)
        /\ Len(New(best)) = l + 1
        /\ ToSet(New(best)) = ToSet(best) \cup {n + 1}
        /\ Ascending(New(best))
    BY <1>1, InsertRow DEF BestOf, l
  <2> HIDE DEF New
  <2>4. ToSet(New(best)) = 1..n + 1
    BY <2>1, <2>3
  <2>5. Len(New(best)) = IF k < n + 1 THEN k ELSE n + 1
    BY <1>4, <2>1, <2>3
  <2> QED
    BY <2>2, <2>3, <2>4, <2>5 DEF BestOf
<1>5. ASSUME ~ (n < k)
      PROVE  l = k /\ ~ (l < k) /\ l \in 1..l /\ last \in 1..n
             /\ (IF k < n + 1 THEN k ELSE n + 1) = k /\ ~ (n + 1 <= k)
  <2>1. l = k /\ l \in 1..l
    BY <1>1, <1>5
  <2> QED
    BY <1>1, <1>5, <2>1
<1>6. CASE ~ (n < k) /\ Near(n + 1) < Near(last)
  <2> DEFINE rest == Front(best)
             new == New(rest)
  <2>1. Keep(best, n + 1, k) = new
    BY <1>3, <1>5, <1>6 DEF Keep, l
  <2>2. /\ rest \in Seq(1..n) /\ Len(rest) = l - 1 /\ DOMAIN rest = 1..l - 1
        /\ \A j \in 1..l - 1 : rest[j] = best[j]
    <3>1. \A i \in 1..l - 1 : best[i] \in 1..n
      BY <1>1
    <3>2. rest = SubSeq(best, 1, l - 1)
      BY DEF Front, l
    <3>3. /\ rest \in Seq(1..n)
          /\ Len(rest) = IF 1 <= l - 1 THEN (l - 1) - 1 + 1 ELSE 0
          /\ \A i \in 1..(l - 1) - 1 + 1 : rest[i] = best[1 + i - 1]
      BY <1>1, <3>1, <3>2, SubSeqProperties
    <3> HIDE DEF rest
    <3>4. Len(rest) = l - 1
      BY <1>1, <1>5, <1>6, <3>3
    <3> QED
      BY <1>1, <3>3, <3>4
  <2> HIDE DEF rest
  <2>3. Ascending(rest)
    BY <1>1, <2>2 DEF Ascending
  <2>4. /\ new \in Seq(1..n + 1)
        /\ Len(new) = Len(rest) + 1
        /\ ToSet(new) = ToSet(rest) \cup {n + 1}
        /\ Ascending(new)
    BY <2>2, <2>3, InsertRow
  <2> HIDE DEF new
  <2>5. ASSUME NEW a \in (1..n + 1) \ ToSet(new)
        PROVE  /\ a \in 1..n + 1
               /\ a = last \/ a \in out
               /\ \A j \in 1..l - 1 : Closer(rest[j], a)
               /\ Closer(n + 1, a)
    <3>1. a \in 1..n /\ a \notin ToSet(rest)
      BY <2>4, <2>5
    <3>2. a = last \/ a \in out
      <4>1. SUFFICES ASSUME a \in ToSet(best) PROVE a = last
        BY <3>1
      <4>2. PICK i \in 1..l : best[i] = a
        BY <1>1, <4>1 DEF ToSet
      <4>3. i \in 1..l - 1 => a \in ToSet(rest)
        BY <2>2, <4>2 DEF ToSet
      <4>4. i = l
        BY <1>1, <3>1, <4>3
      <4> QED
        BY <4>2, <4>4
    <3> HIDE DEF last, out
    <3>3. \A j \in 1..l - 1 : Closer(rest[j], a)
      <4>1. SUFFICES ASSUME NEW j \in 1..l - 1 PROVE Closer(best[j], a)
        BY <2>2
      <4>2. j \in 1..l /\ l \in 1..l /\ j < l
        BY <1>1
      <4> QED
        BY <1>1, <3>2, <4>2 DEF last
    <3>4. a = last \/ Closer(last, a)
      BY <1>1, <1>5, <1>6, <3>2 DEF last
    <3>5. Near(last) \in Nat /\ Near(a) \in Nat /\ Near(n + 1) \in Nat
      BY <1>2, <1>5, <1>6, <3>1
    <3>6. Near(last) <= Near(a)
      BY <3>4, <3>5 DEF Closer
    <3>7. Near(n + 1) < Near(a)
      BY <1>6, <3>5, <3>6
    <3> QED
      BY <3>1, <3>2, <3>3, <3>7 DEF Closer
  <2>6. ASSUME NEW i \in DOMAIN new, NEW a \in (1..n + 1) \ ToSet(new)
        PROVE  Closer(new[i], a)
    <3>1. new[i] \in ToSet(new)
      BY <2>6 DEF ToSet
    <3>2. new[i] = n + 1 \/ \E j \in 1..l - 1 : new[i] = rest[j]
      BY <2>2, <2>4, <3>1 DEF ToSet
    <3> QED
      BY <2>5, <2>6, <3>2
  <2>7. Len(new) = IF k < n + 1 THEN k ELSE n + 1
    BY <1>1, <1>5, <1>6, <2>2, <2>4
  <2> QED
    BY <1>5, <1>6, <2>1, <2>4, <2>6, <2>7 DEF BestOf
<1>7. CASE ~ (n < k) /\ ~ (Near(n + 1) < Near(last))
  <2>1. Keep(best, n + 1, k) = best
    BY <1>3, <1>5, <1>7 DEF Keep, l
  <2>2. best \in Seq(1..n + 1)
    <3>1. \A i \in 1..l : best[i] \in 1..n + 1
      BY <1>1
    <3>2. best \in [1..l -> 1..n + 1]
      BY <1>1, <3>1
    <3> QED
      BY <1>1, <3>2
  <2>3. ASSUME NEW i \in 1..l
        PROVE  Closer(best[i], n + 1)
    <3>1. best[i] \in 1..n /\ last \in 1..n /\ l \in 1..l
      BY <1>1, <1>5, <1>7
    <3>2. i = l \/ Closer(best[i], last)
      BY <1>1, <3>1
    <3> HIDE DEF last
    <3>3. Near(best[i]) \in Nat /\ Near(last) \in Nat /\ Near(n + 1) \in Nat
      BY <1>2, <3>1
    <3>4. Near(best[i]) <= Near(last)
      BY <3>2, <3>3 DEF Closer, last
    <3>5. Near(best[i]) <= Near(n + 1) /\ best[i] < n + 1
      BY <1>7, <3>1, <3>3, <3>4
    <3> QED
      BY <3>3, <3>5 DEF Closer
  <2>4. ASSUME NEW i \in 1..l, NEW a \in (1..n + 1) \ ToSet(best)
        PROVE  Closer(best[i], a)
    <3>1. a = n + 1 \/ a \in out
      BY <2>4
    <3> QED
      BY <1>1, <2>3, <3>1
  <2>5. Ascending(best)
    BY DEF BestOf
  <2> QED
    BY <1>1, <1>5, <1>7, <2>1, <2>2, <2>4, <2>5 DEF BestOf, l
<1> QED
  BY <1>4, <1>6, <1>7

\* The scan of the whole table returns the best of it.
LEMMA NearestIsBest ==
  ASSUME Comparable, NEW k \in Nat \ {0}
  PROVE  BestOf(Nearest(k), Len(Table), k)
<1> DEFINE Scanned(g, m) == [n \in 0..m |-> IF n = 0 THEN <<>> ELSE Keep(g[n - 1], n, k)]
           found == CHOOSE g : g = Scanned(g, Len(Table))
<1>1. Len(Table) \in Nat /\ DOMAIN Table = 1..Len(Table)
  BY DEF Comparable
<1>2. \E g : g = Scanned(g, Len(Table))
  <2> DEFINE none == {m \in Nat : ~ \E g : g = Scanned(g, m)}
  <2> SUFFICES ASSUME Len(Table) \in none PROVE FALSE
    BY <1>1
  <2>1. PICK m \in none : \A q \in none : m <= q
    <3>1. none \in SUBSET Nat /\ none # {}
      OBVIOUS
    <3> HIDE DEF none
    <3> QED
      BY <3>1, Least
  <2>2. CASE m = 0
    <3> DEFINE g == [n \in 0..0 |-> <<>>]
    <3>1. g = Scanned(g, 0)
      OBVIOUS
    <3> QED
      BY <2>2, <3>1
  <2>3. CASE m # 0
    <3>1. m - 1 \in Nat /\ m - 1 < m /\ m \in Nat
      BY <2>3
    <3>2. m - 1 \notin none
      <4> HIDE DEF none
      <4>1. m - 1 \in none => m <= m - 1
        BY <2>1
      <4> QED
        BY <3>1, <4>1
    <3>3. PICK g : g = Scanned(g, m - 1)
      BY <3>1, <3>2
    <3> DEFINE h == [n \in 0..m |-> IF n = m THEN Keep(g[m - 1], m, k) ELSE g[n]]
    <3>4. ASSUME NEW n \in 0..m
          PROVE  h[n] = IF n = 0 THEN <<>> ELSE Keep(h[n - 1], n, k)
      <4>1. CASE n = m
        <5>1. h[n - 1] = g[m - 1] /\ h[n] = Keep(g[m - 1], m, k)
          BY <3>1, <4>1
        <5> HIDE DEF h
        <5> QED
          BY <2>3, <4>1, <5>1
      <4>2. CASE n # m
        <5>1. n \in 0..m - 1 /\ h[n] = g[n]
          BY <3>1, <4>2
        <5>2. g[n] = IF n = 0 THEN <<>> ELSE Keep(g[n - 1], n, k)
          BY <3>3, <5>1
        <5>3. n # 0 => h[n - 1] = g[n - 1]
          BY <3>1, <5>1
        <5> HIDE DEF h
        <5> QED
          BY <5>1, <5>2, <5>3
      <4> QED
        BY <4>1, <4>2
    <3>5. h = [n \in 0..m |-> h[n]]
      OBVIOUS
    <3> HIDE DEF h
    <3>6. h = Scanned(h, m)
      BY <3>4, <3>5, Zenon
    <3> QED
      BY <3>6
  <2> QED
    BY <2>2, <2>3
<1>3. found = Scanned(found, Len(Table))
  BY <1>2
<1>4. Nearest(k) = found[Len(Table)]
  BY DEF Nearest
<1> HIDE DEF found
<1>5. \A n \in 0..Len(Table) : found[n] = IF n = 0 THEN <<>> ELSE Keep(found[n - 1], n, k)
  BY <1>3
<1> DEFINE bad == {n \in 0..Len(Table) : ~ BestOf(found[n], n, k)}
<1>6. bad = {}
  <2> SUFFICES ASSUME bad # {} PROVE FALSE
    OBVIOUS
  <2>1. PICK n \in bad : \A m \in bad : n <= m
    <3>1. bad \in SUBSET Nat
      BY <1>1
    <3> HIDE DEF bad
    <3> QED
      BY <3>1, Least
  <2>2. CASE n = 0
    <3>1. found[0] = <<>>
      BY <1>1, <1>5
    <3>2. BestOf(<<>>, 0, k)
      BY DEF BestOf, Ascending, ToSet
    <3> QED
      BY <2>1, <2>2, <3>1, <3>2
  <2>3. CASE n # 0
    <3> DEFINE m == n - 1
    <3>1. m \in Nat /\ m \in 0..Len(Table) /\ m < n /\ n = m + 1 /\ n \in 1..Len(Table)
      BY <1>1, <2>3
    <3> HIDE DEF m
    <3>2. BestOf(found[m], m, k)
      BY <2>1, <3>1
    <3>3. found[n] = Keep(found[m], m + 1, k)
      BY <1>1, <1>5, <2>3, <3>1 DEF m
    <3>4. BestOf(found[n], n, k)
      BY <1>1, <3>1, <3>2, <3>3, KeepBest
    <3> QED
      BY <2>1, <3>4
  <2> QED
    BY <2>2, <2>3
<1> QED
  BY <1>1, <1>4, <1>6

-----------------------------------------------------------------------------
(* The answers of the searches.                                            *)

\* What a search has returned, against the first n rows of the table.
ExactAt(s, n) ==
  /\ ToSet(hits[s]) \subseteq 1..n
  /\ Len(hits[s]) = IF topK[s] < n THEN topK[s] ELSE n
  /\ \A i, j \in DOMAIN hits[s] : i < j => Before(hits[s][i], hits[s][j])
  /\ \A i \in DOMAIN hits[s], a \in (1..n) \ ToSet(hits[s]) : Before(hits[s][i], a)
  /\ \A r \in earlier[s] : \A i \in RowsFrom(r) : i <= n
  /\ n \in 1..(Len(rows) - 1) => rows[n].doc # rows[n + 1].doc

\* A search is held to the uploads that were answered when it began.
SearchInv ==
  \A s \in Requests :
    /\ \A q \in earlier[s] : answer[q] = "ok"
    /\ op[s] = "search" /\ answer[s] = "ok" => /\ hits[s] \in Seq(Nat)
                                               /\ \E n \in 0..Len(rows) : ExactAt(s, n)

LEMMA SearchInvIsExact == SearchInv => SearchesAreExact
BY DEF SearchInv, SearchesAreExact, ExactAt

\* The scan is of the table as committed: nobody else is inside the lock.
LEMMA ScanExact ==
  ASSUME RagInv, SearchInv, NEW r \in Requests, Scan(r)
  PROVE  SearchInv'
<1>1. /\ op[r] = "search" /\ phase[r] = "ready"
      /\ answer' = [answer EXCEPT ![r] = "ok"]
      /\ hits' = [hits EXCEPT ![r] = Nearest(topK[r])]
      /\ UNCHANGED <<op, text, topK, earlier, rows, open>>
  BY DEF Scan, End, Step, request, store
<1>2. /\ answer'[r] = "ok" /\ hits'[r] = Nearest(topK[r])
      /\ \A s \in Requests \ {r} : answer'[s] = answer[s] /\ hits'[s] = hits[s]
  BY <1>1 DEF RagInv, TypeOK
<1>3. Table = rows /\ rows \in Seq(Rows)
  <2>1. \A q \in Requests : phase[q] \notin {"committing", "rolling"}
    BY <1>1 DEF RagInv, TypeOK, Inside
  <2>2. open = <<>> /\ rows \in Seq(Rows)
    BY <2>1 DEF RagInv, OwnTransaction, TypeOK
  <2> QED
    BY <2>2, ConcatEmptySeq DEF Table
<1>4. Comparable
  <2>1. Rows \subseteq [doc : Requests, index : Nat, near : Nat]
    BY RagAssumption DEF Rows
  <2> QED
    BY <1>3, <2>1, SeqMonotonic DEF Comparable
<1>5. topK[r] \in Nat \ {0}
  BY DEF RagInv, TypeOK
<1>6. BestOf(hits'[r], Len(rows), topK[r]) /\ Len(rows) \in Nat
  BY <1>2, <1>3, <1>4, <1>5, NearestIsBest
<1>7. \A a, b : Closer(a, b) <=> Before(a, b)
  BY <1>3 DEF Closer, Before
<1>8. hits'[r] \in Seq(Nat) /\ ToSet(hits'[r]) \subseteq 1..Len(rows)
  <2>1. hits'[r] \in Seq(1..Len(rows)) /\ 1..Len(rows) \subseteq Nat
    BY <1>6 DEF BestOf
  <2>2. \A i \in DOMAIN hits'[r] : hits'[r][i] \in 1..Len(rows)
    BY <2>1
  <2>3. hits'[r] \in Seq(Nat)
    BY <2>1, SeqMonotonic
  <2> QED
    BY <2>2, <2>3 DEF ToSet
<1>9. ExactAt(r, Len(rows))'
  <2>1. /\ Len(hits'[r]) = IF topK[r] < Len(rows) THEN topK[r] ELSE Len(rows)
        /\ \A i, j \in DOMAIN hits'[r] : i < j => Before(hits'[r][i], hits'[r][j])
        /\ \A i \in DOMAIN hits'[r], a \in (1..Len(rows)) \ ToSet(hits'[r]) : Before(hits'[r][i], a)
    BY <1>6, <1>7 DEF BestOf, Ascending
  <2>2. \A q \in earlier[r] : \A i \in RowsFrom(q) : i <= Len(rows)
    BY <1>3 DEF RowsFrom
  <2>3. Len(rows) \notin 1..Len(rows) - 1
    BY <1>6
  <2> QED
    BY <1>1, <1>8, <2>1, <2>2, <2>3 DEF ExactAt, Before, RowsFrom
<1>10. ASSUME NEW s \in Requests \ {r}, NEW n \in 0..Len(rows), ExactAt(s, n)
       PROVE  ExactAt(s, n)'
  BY <1>1, <1>2, <1>10 DEF ExactAt, Before, RowsFrom
<1>11. ASSUME NEW s \in Requests
       PROVE  /\ \A q \in earlier'[s] : answer'[q] = "ok"
              /\ op'[s] = "search" /\ answer'[s] = "ok" =>
                   /\ hits'[s] \in Seq(Nat)
                   /\ \E n \in 0..Len(rows') : ExactAt(s, n)'
  <2>1. \A q \in earlier'[s] : q \in Requests /\ answer'[q] = "ok"
    BY <1>1, <1>2 DEF SearchInv, RagInv, TypeOK
  <2>2. CASE s = r
    BY <1>1, <1>6, <1>8, <1>9, <2>1, <2>2
  <2>3. CASE s # r
    BY <1>1, <1>2, <1>10, <2>1, <2>3 DEF SearchInv
  <2> QED
    BY <2>2, <2>3
<1> QED
  BY <1>11 DEF SearchInv

\* A commit adds an upload behind the rows that were searched, one that no search
\* before it was held to.
LEMMA CommitExact ==
  ASSUME RagInv, SearchInv, NEW r \in Requests, Commit(r)
  PROVE  SearchInv'
<1>1. /\ phase[r] = "committing" /\ rows' = rows \o open
      /\ UNCHANGED <<op, topK, earlier, answer, hits>>
  BY DEF Commit, Step, request
<1>2. /\ rows \in Seq(Rows) /\ open \in Seq(Rows)
      /\ Len(open) = N(r) /\ \A i \in 1..N(r) : open[i].doc = r
  BY <1>1 DEF RagInv, TypeOK, OwnTransaction
<1>3. /\ rows' \in Seq(Rows) /\ Len(rows') = Len(rows) + N(r)
      /\ Len(rows) \in Nat /\ N(r) \in Nat
      /\ \A i \in 1..Len(rows) : rows'[i] = rows[i]
      /\ \A i \in 1..N(r) : rows'[Len(rows) + i] = open[i]
  BY <1>1, <1>2, ConcatProperties
<1>4. RowsFrom(r) = {} /\ answer[r] = "none"
  BY <1>1 DEF RagInv, NothingEarly
<1>5. \A i \in 1..Len(rows') : i \notin 1..Len(rows) => rows'[i].doc = r
  <2> TAKE i \in 1..Len(rows')
  <2> HAVE i \notin 1..Len(rows)
  <2> DEFINE j == i - Len(rows)
  <2>1. j \in 1..N(r) /\ i = Len(rows) + j
    BY <1>3
  <2> HIDE DEF j
  <2> QED
    BY <1>2, <1>3, <2>1
<1>6. \A q \in Requests \ {r} : RowsFrom(q)' = RowsFrom(q)
  <2> TAKE q \in Requests \ {r}
  <2>1. \A i \in 1..Len(rows) : i \in 1..Len(rows') /\ rows'[i] = rows[i]
    BY <1>3
  <2>2. \A i \in 1..Len(rows') : rows'[i].doc = q => i \in 1..Len(rows)
    BY <1>5
  <2>3. DOMAIN rows = 1..Len(rows) /\ DOMAIN rows' = 1..Len(rows')
    BY <1>2, <1>3
  <2>4. \A i \in 1..Len(rows') : rows'[i].doc = q => i \in 1..Len(rows) /\ rows[i].doc = q
    BY <2>1, <2>2
  <2> QED
    BY <2>1, <2>3, <2>4 DEF RowsFrom
<1>7. ASSUME NEW s \in Requests, op[s] = "search", answer[s] = "ok"
      PROVE  \E n \in 0..Len(rows') : ExactAt(s, n)'
  <2>1. PICK n \in 0..Len(rows) : ExactAt(s, n)
    BY <1>7 DEF SearchInv
  <2>2. hits[s] \in Seq(Nat) /\ n \in 0..Len(rows')
    BY <1>3, <1>7 DEF SearchInv
  <2>3. \A a, b \in 1..n : Before(a, b)' <=> Before(a, b)
    <3>1. \A a \in 1..n : a \in 1..Len(rows)
      BY <1>3
    <3> QED
      BY <1>3, <3>1 DEF Before
  <2>4. \A i \in DOMAIN hits[s] : hits[s][i] \in 1..n
    BY <2>1 DEF ExactAt, ToSet
  <2>5. \A q \in earlier[s] : \A i \in RowsFrom(q)' : i <= n
    <3>1. \A q \in earlier[s] : q \in Requests \ {r}
      BY <1>4 DEF SearchInv, RagInv, TypeOK
    <3> QED
      BY <1>6, <2>1, <3>1 DEF ExactAt
  <2>6. ASSUME n \in 1..Len(rows') - 1
        PROVE  rows'[n].doc # rows'[n + 1].doc
    <3>1. CASE n \in 1..Len(rows) - 1
      <4>1. n \in 1..Len(rows) /\ n + 1 \in 1..Len(rows)
        BY <1>3, <3>1
      <4> QED
        BY <1>3, <2>1, <3>1, <4>1 DEF ExactAt
    <3>2. CASE n = Len(rows)
      <4>1. n \in 1..Len(rows) /\ n + 1 \in 1..Len(rows') /\ n + 1 \notin 1..Len(rows)
        BY <1>3, <2>6, <3>2
      <4>2. rows[n].doc # r /\ rows'[n] = rows[n]
        BY <1>2, <1>3, <1>4, <4>1 DEF RowsFrom
      <4> QED
        BY <1>5, <4>1, <4>2
    <3> QED
      BY <1>3, <2>6, <3>1, <3>2
  <2>7. /\ ToSet(hits[s]) \subseteq 1..n
        /\ Len(hits[s]) = IF topK[s] < n THEN topK[s] ELSE n
        /\ \A i, j \in DOMAIN hits[s] : i < j => Before(hits[s][i], hits[s][j])'
        /\ \A i \in DOMAIN hits[s], a \in (1..n) \ ToSet(hits[s]) : Before(hits[s][i], a)'
    BY <1>1, <2>1, <2>3, <2>4 DEF ExactAt, Before
  <2>8. ExactAt(s, n)'
    BY <1>1, <2>5, <2>6, <2>7 DEF ExactAt, Before
  <2> QED
    BY <2>2, <2>8
<1> QED
  BY <1>1, <1>7 DEF SearchInv

\* What leaves the table and the answers of the searches alone.
LEMMA ElsewhereExact ==
  ASSUME RagInv, SearchInv, UNCHANGED <<rows, hits>>,
         \A s \in Requests :
           /\ answer[s] = "ok" => answer'[s] = "ok"
           /\ op'[s] = "search" /\ answer'[s] = "ok" =>
                /\ op[s] = "search" /\ answer[s] = "ok" /\ topK'[s] = topK[s]
                /\ earlier'[s] = earlier[s]
           /\ \/ earlier'[s] = earlier[s]
              \/ earlier'[s] = {q \in Requests : answer[q] = "ok"}
  PROVE  SearchInv'
<1>1. ASSUME NEW s \in Requests
      PROVE  \A q \in earlier'[s] : answer'[q] = "ok"
  BY <1>1 DEF SearchInv, RagInv, TypeOK
<1>2. ASSUME NEW s \in Requests, op'[s] = "search", answer'[s] = "ok"
      PROVE  hits'[s] \in Seq(Nat) /\ \E n \in 0..Len(rows') : ExactAt(s, n)'
  <2>1. PICK n \in 0..Len(rows) : ExactAt(s, n)
    BY <1>2 DEF SearchInv
  <2>2. hits[s] \in Seq(Nat)
    BY <1>2 DEF SearchInv
  <2>3. topK'[s] = topK[s] /\ earlier'[s] = earlier[s]
    BY <1>2
  <2>4. ExactAt(s, n)'
    BY <2>1, <2>3 DEF ExactAt, Before, RowsFrom
  <2> QED
    BY <2>1, <2>2, <2>4
<1> QED
  BY <1>1, <1>2 DEF SearchInv

\* Every other step: an upload and a search begin without an answer, and a reply is
\* for an upload.
LEMMA OtherExact ==
  ASSUME RagInv, SearchInv, [Next]_vars,
         \A r \in Requests : ~ Scan(r) /\ ~ Commit(r)
  PROVE  SearchInv'
<1> DEFINE Harmless(s) ==
             /\ answer[s] = "ok" => answer'[s] = "ok"
             /\ op'[s] = "search" /\ answer'[s] = "ok" =>
                  /\ op[s] = "search" /\ answer[s] = "ok" /\ topK'[s] = topK[s]
                  /\ earlier'[s] = earlier[s]
             /\ \/ earlier'[s] = earlier[s]
                \/ earlier'[s] = {q \in Requests : answer[q] = "ok"}
<1> USE DEF request, files, store
<1>1. CASE Close \/ Restart \/ Migrate \/ UNCHANGED vars
  <2>1. UNCHANGED <<op, topK, earlier, answer, rows, hits>>
    BY <1>1 DEF Close, Restart, Migrate, vars
  <2> QED
    BY <2>1, ElsewhereExact
<1>2. ASSUME NEW r \in Requests, NEW t \in Texts, Upload(r, t)
      PROVE  SearchInv'
  <2>1. /\ phase[r] = "new" /\ UNCHANGED <<topK, earlier, rows, hits>>
        /\ op' = [op EXCEPT ![r] = "upload"]
        /\ answer' = answer \/ answer' = [answer EXCEPT ![r] = "refused"]
    BY <1>2 DEF Upload, Step
  <2>2. answer[r] = "none"
    BY <2>1 DEF RagInv, NothingEarly
  <2>3. \A s \in Requests : Harmless(s)
    BY <2>1, <2>2 DEF RagInv, TypeOK
  <2> QED
    BY <2>1, <2>3, ElsewhereExact
<1>3. ASSUME NEW r \in Requests, NEW k \in Ks, Search(r, k)
      PROVE  SearchInv'
  <2>1. /\ phase[r] = "new" /\ UNCHANGED <<op, answer, rows, hits>>
        /\ topK' = [topK EXCEPT ![r] = k]
        /\ earlier' = [earlier EXCEPT ![r] = {q \in Requests : answer[q] = "ok"}]
    BY <1>3 DEF Search, Step
  <2>2. answer[r] = "none"
    BY <2>1 DEF RagInv, NothingEarly
  <2>3. \A s \in Requests : Harmless(s)
    BY <2>1, <2>2 DEF RagInv, TypeOK
  <2> QED
    BY <2>1, <2>3, ElsewhereExact
<1>4. ASSUME NEW r \in Requests,
             \/ Enter(r) \/ AlreadyReady(r) \/ OpenStore(r) \/ LoadEmbedding(r)
             \/ Plan(r) \/ Embed(r) \/ Insert(r) \/ InsertFails(r)
      PROVE  SearchInv'
  <2>1. UNCHANGED <<op, topK, earlier, answer, rows, hits>>
    BY <1>4 DEF Enter, AlreadyReady, OpenStore, LoadEmbedding, Plan, Embed, Insert, InsertFails
  <2> QED
    BY <2>1, ElsewhereExact
<1>5. ASSUME NEW r \in Requests,
             RefuseLegacy(r) \/ RefuseQuota(r) \/ Reply(r) \/ RollBack(r) \/ Fail(r)
      PROVE  SearchInv'
  <2>1. /\ phase[r] # "ended" /\ UNCHANGED <<op, topK, earlier, rows, hits>>
        /\ \E a \in {"ok", "refused", "error"} :
             /\ answer' = [answer EXCEPT ![r] = a]
             /\ a = "ok" => phase[r] = "stored"
    BY <1>5 DEF RefuseLegacy, RefuseQuota, Reply, RollBack, Fail, Failing, End, Step
  <2>2. answer[r] = "none" /\ (phase[r] = "stored" => op[r] = "upload")
    BY <2>1 DEF RagInv, NothingEarly, UploadsWrite
  <2>3. \A s \in Requests : Harmless(s)
    BY <2>1, <2>2 DEF RagInv, TypeOK
  <2> QED
    BY <2>1, <2>3, ElsewhereExact
<1> QED
  BY <1>1, <1>2, <1>3, <1>4, <1>5 DEF Next, Work

\* A search returns the nearest chunks of the table as it was at one moment, with
\* every upload answered before it began and with no upload in part.
THEOREM Exactness == Spec => []SearchesAreExact
<1>1. Init => SearchInv
  BY DEF Init, SearchInv
<1>2. RagInv /\ SearchInv /\ [Next]_vars => SearchInv'
  BY ScanExact, CommitExact, OtherExact
<1> QED
  BY <1>1, <1>2, RagInvariance, SearchInvIsExact, PTL DEF Spec

-----------------------------------------------------------------------------
(* The refinement of DocumentStore.                                        *)

\* What the requests have asked: whoever has asked nothing is not an upload, and an
\* upload that has not ended brings something visible.
AskedInv ==
  \A r \in Requests :
    /\ phase[r] = "new" => op[r] = "search"
    /\ op[r] = "upload" /\ phase[r] # "ended" =>
         \E i \in DOMAIN text[r] : Visible(text[r], i)

LEMMA AskedStep ==
  ASSUME RagInv, AskedInv, [Next]_vars
  PROVE  AskedInv'
<1>1. CASE UNCHANGED vars
  BY <1>1 DEF vars, request, AskedInv
<1>2. ASSUME NEW r \in Requests, NEW t \in Texts, Upload(r, t)
      PROVE  AskedInv'
  <2>1. /\ op' = [op EXCEPT ![r] = "upload"] /\ text' = [text EXCEPT ![r] = t]
        /\ \/ phase' = [phase EXCEPT ![r] = "ended"]
           \/ /\ phase' = [phase EXCEPT ![r] = "waiting"]
              /\ \E i \in DOMAIN t : Visible(t, i)
    BY <1>2 DEF Upload, Step
  <2> QED
    BY <2>1 DEF AskedInv, RagInv, TypeOK, Visible
<1>3. ASSUME NEW r \in Requests, NEW to \in {"waiting", "ended"} \cup Inside,
             phase' = [phase EXCEPT ![r] = to], UNCHANGED <<op, text>>,
             phase[r] # "ended"
      PROVE  AskedInv'
  BY <1>3 DEF AskedInv, RagInv, TypeOK, Inside, Visible
<1>4. ASSUME NEW r \in Requests, Work(r) \/ \E k \in Ks : Search(r, k)
      PROVE  AskedInv'
  <2>1. CASE Embed(r)
    BY <2>1 DEF Embed, request, AskedInv, Visible
  <2>2. CASE Enter(r) \/ AlreadyReady(r) \/ RefuseLegacy(r) \/ OpenStore(r) \/ LoadEmbedding(r)
    <3>1. /\ \E to \in {"waiting", "ended"} \cup Inside : phase' = [phase EXCEPT ![r] = to]
          /\ phase[r] # "ended" /\ UNCHANGED <<op, text>>
      BY <2>2 DEF Enter, AlreadyReady, RefuseLegacy, OpenStore, LoadEmbedding, End, Step,
                  request, Inside
    <3> QED
      BY <3>1, <1>3
  <2>3. CASE Plan(r) \/ RefuseQuota(r) \/ Insert(r) \/ InsertFails(r) \/ Commit(r)
    <3>1. /\ \E to \in {"waiting", "ended"} \cup Inside : phase' = [phase EXCEPT ![r] = to]
          /\ phase[r] # "ended" /\ UNCHANGED <<op, text>>
      BY <2>3 DEF Plan, RefuseQuota, Insert, InsertFails, Commit, End, Step, request, Inside
    <3> QED
      BY <3>1, <1>3
  <2>4. CASE \/ Reply(r) \/ RollBack(r) \/ Scan(r) \/ Fail(r)
             \/ \E k \in Ks : Search(r, k)
    <3>1. /\ \E to \in {"waiting", "ended"} \cup Inside : phase' = [phase EXCEPT ![r] = to]
          /\ phase[r] # "ended" /\ UNCHANGED <<op, text>>
      BY <2>4 DEF Reply, RollBack, Scan, Fail, Failing, Search, End, Step, request, Inside
    <3> QED
      BY <3>1, <1>3
  <2> QED
    BY <1>4, <2>1, <2>2, <2>3, <2>4 DEF Work
<1>5. CASE Close \/ Migrate
  BY <1>5 DEF Close, Migrate, request, AskedInv, Visible
<1>6. CASE Restart
  <2>1. /\ UNCHANGED <<op, text>>
        /\ phase' = [r \in Requests |-> IF phase[r] = "new" THEN "new" ELSE "ended"]
    BY <1>6 DEF Restart, request
  <2> QED
    BY <2>1 DEF AskedInv, Visible
<1> QED
  BY <1>1, <1>2, <1>4, <1>5, <1>6 DEF Next

\* What is visible in a text is left there when it is normalized.
LEMMA VisibleKept ==
  ASSUME NEW t \in Texts, NEW i \in DOMAIN t, Visible(t, i)
  PROVE  \E n \in DOMAIN Normalized[t] : Visible(Normalized[t], n)
<1> DEFINE Inner(u, j) == (\E k \in 1..j : Visible(u, k)) /\ (\E k \in j..Len(u) : Visible(u, k))
           Trails(u, j) == u[j] = "space" /\ \E l \in j..Len(u) : /\ u[l] = "newline"
                                                                  /\ \A k \in j..l : ~Visible(u, k)
           kept == {j \in DOMAIN t : Inner(t, j) /\ ~Trails(t, j)}
           w == [n \in 1..Cardinality(kept) |-> t[Nth(kept, n)]]
<1>1. Normalized[t] = w
  BY DEF Normalized
<1>2. Len(t) \in Nat /\ DOMAIN t = 1..Len(t)
  BY RagAssumption
<1>3. i \in kept
  BY <1>2 DEF Visible
<1>4. kept \in SUBSET Nat /\ IsFiniteSet(kept)
  <2>1. kept \subseteq 1..Len(t) /\ 1..Len(t) \subseteq Nat
    BY <1>2
  <2>2. \A l \in Nat : IsFiniteSet(1..l)
    BY FS_Interval
  <2> QED
    BY <1>2, <2>1, <2>2, FS_Subset
<1> HIDE DEF kept
<1>5. PICK n \in 1..Cardinality(kept) : Nth(kept, n) = i
  BY <1>3, <1>4, RankOf
<1> QED
  BY <1>1, <1>5 DEF Visible

\* So an upload that is not refused at sight has a chunk.
LEMMA SomeChunk ==
  ASSUME NEW c \in Chunkings, NEW t \in Texts, NEW i \in DOMAIN t, Visible(t, i)
  PROVE  Cardinality(Chunks[c][t]) \in Nat \ {0}
<1>1. Chunks[c][t] # {}
  BY VisibleKept, Covered
<1> QED
  BY <1>1, ChunkCount, FS_EmptySet

\* How the state of the store maps to that of DocumentStore.
Asked == {r \in Requests : phase[r] # "new"}
Want == [r \in Requests |-> IF phase[r] # "new" /\ op[r] = "search" THEN topK[r] ELSE 0]

\* A request that moves on inside, or ends there.
LEMMA AskedMoves ==
  ASSUME RagInv, NEW r \in Requests, phase[r] # "new",
         NEW to \in {"waiting", "ended"} \cup Inside, phase' = [phase EXCEPT ![r] = to],
         UNCHANGED <<op, topK>>
  PROVE  r \in Asked /\ Asked' = Asked /\ Want' = Want
BY DEF Asked, Want, RagInv, TypeOK, Inside

LEMMA SilentRefines ==
  ASSUME RagInv, NEW r \in Requests,
         \/ Enter(r) \/ AlreadyReady(r) \/ OpenStore(r) \/ LoadEmbedding(r)
         \/ Plan(r) \/ Embed(r) \/ Insert(r) \/ InsertFails(r)
  PROVE  UNCHANGED <<Asked, Want, rows, hits, answer>>
<1>1. UNCHANGED <<op, topK, rows, hits, answer>>
  BY DEF Enter, AlreadyReady, OpenStore, LoadEmbedding, Plan, Embed, Insert, InsertFails,
         request, store
<1>2. CASE Embed(r)
  BY <1>1, <1>2 DEF Embed, Asked, Want
<1>3. CASE ~Embed(r)
  <2>1. /\ phase[r] # "new"
        /\ \E to \in {"waiting", "ended"} \cup Inside : phase' = [phase EXCEPT ![r] = to]
    BY <1>3 DEF Enter, AlreadyReady, OpenStore, LoadEmbedding, Plan, Insert, InsertFails,
                Step, Inside
  <2> QED
    BY <1>1, <2>1, AskedMoves
<1> QED
  BY <1>2, <1>3

LEMMA OutsideRefines ==
  ASSUME RagInv, Close \/ Migrate \/ Restart \/ UNCHANGED vars
  PROVE  UNCHANGED <<Asked, Want, rows, hits, answer>>
<1>1. CASE Close \/ Migrate \/ UNCHANGED vars
  BY <1>1 DEF Close, Migrate, vars, request, store, Asked, Want
<1>2. CASE Restart
  <2>1. /\ UNCHANGED <<op, topK, rows, hits, answer>>
        /\ phase' = [r \in Requests |-> IF phase[r] = "new" THEN "new" ELSE "ended"]
    BY <1>2 DEF Restart, request
  <2> QED
    BY <2>1 DEF Asked, Want
<1> QED
  BY <1>1, <1>2

\* A request asks.
LEMMA AskRefines ==
  ASSUME RagInv, AskedInv, NEW r \in Requests,
         (\E t \in Texts : Upload(r, t)) \/ (\E k \in Ks : Search(r, k))
  PROVE  (\E k \in Ks \cup {0} : Store!Ask(r, k)) \/ Store!Refuse(r, "refused")
<1>1. CASE \E t \in Texts : Upload(r, t) /\ ~ \E i \in DOMAIN t : Visible(t, i)
  <2>1. /\ phase[r] = "new" /\ phase' = [phase EXCEPT ![r] = "ended"]
        /\ op' = [op EXCEPT ![r] = "upload"]
        /\ answer' = [answer EXCEPT ![r] = "refused"]
        /\ UNCHANGED <<topK, rows, hits>>
    BY <1>1 DEF Upload, Step, store
  <2>2. answer[r] = "none" /\ RowsFrom(r) = {}
    BY <2>1 DEF RagInv, NothingEarly
  <2>3. Asked' = Asked \cup {r} /\ Want' = Want
    BY <2>1 DEF Asked, Want, RagInv, TypeOK
  <2> QED
    BY <2>1, <2>2, <2>3 DEF Store!Refuse, Store!Holds, Store!Tell, RowsFrom, Asked, Want
<1>2. CASE \E t \in Texts : Upload(r, t) /\ \E i \in DOMAIN t : Visible(t, i)
  <2>1. /\ phase[r] = "new" /\ phase' = [phase EXCEPT ![r] = "waiting"]
        /\ op' = [op EXCEPT ![r] = "upload"]
        /\ UNCHANGED <<topK, rows, hits, answer>>
    BY <1>2 DEF Upload, Step, store
  <2>2. r \notin Asked /\ Asked' = Asked \cup {r} /\ Want' = [Want EXCEPT ![r] = 0]
    BY <2>1 DEF Asked, Want, RagInv, TypeOK
  <2>3. Store!Ask(r, 0)
    BY <2>1, <2>2 DEF Store!Ask, Asked, Want
  <2> QED
    BY <2>3
<1>3. CASE \E k \in Ks : Search(r, k)
  <2>1. PICK k \in Ks : Search(r, k)
    BY <1>3
  <2>2. /\ phase[r] = "new" /\ phase' = [phase EXCEPT ![r] = "waiting"]
        /\ topK' = [topK EXCEPT ![r] = k]
        /\ UNCHANGED <<op, rows, hits, answer>>
    BY <2>1 DEF Search, Step, store
  <2>3. op[r] = "search"
    BY <2>2 DEF AskedInv
  <2>4. r \notin Asked /\ Asked' = Asked \cup {r} /\ Want' = [Want EXCEPT ![r] = k]
    BY <2>2, <2>3 DEF Asked, Want, RagInv, TypeOK
  <2>5. Store!Ask(r, k)
    BY <2>2, <2>4 DEF Store!Ask, Asked, Want
  <2> QED
    BY <2>5
<1> QED
  BY <1>1, <1>2, <1>3

\* An upload or a search is turned down: nothing of it has been committed.
LEMMA RefuseRefines ==
  ASSUME RagInv, NEW r \in Requests,
         RefuseLegacy(r) \/ RefuseQuota(r) \/ RollBack(r) \/ Fail(r)
  PROVE  \E a \in {"refused", "error"} : Store!Refuse(r, a)
<1>1. PICK a \in {"refused", "error"} : answer' = [answer EXCEPT ![r] = a]
  BY DEF RefuseLegacy, RefuseQuota, RollBack, Fail, End
<1>2. /\ phase[r] \in {"entered", "opened", "ready", "embedding", "rolling"}
      /\ phase' = [phase EXCEPT ![r] = "ended"]
      /\ UNCHANGED <<op, topK, rows, hits>>
  BY DEF RefuseLegacy, RefuseQuota, RollBack, Fail, Failing, End, Step, request, store
<1>3. answer[r] = "none" /\ RowsFrom(r) = {}
  BY <1>2 DEF RagInv, NothingEarly
<1>4. r \in Asked /\ Asked' = Asked /\ Want' = Want
  BY <1>2, AskedMoves
<1>5. Store!Refuse(r, a)
  BY <1>1, <1>2, <1>3, <1>4 DEF Store!Refuse, Store!Holds, Store!Tell, RowsFrom, Asked, Want
<1> QED
  BY <1>5

\* A commit adds a document, with a chunk at least.
LEMMA AddRefines ==
  ASSUME RagInv, AskedInv, NEW r \in Requests, Commit(r)
  PROVE  Store!Add(r)
<1>1. /\ phase[r] = "committing" /\ phase' = [phase EXCEPT ![r] = "stored"]
      /\ rows' = rows \o open
      /\ UNCHANGED <<op, topK, answer, hits>>
  BY DEF Commit, Step, request
<1>2. /\ rows \in Seq(Rows) /\ open \in Seq(Rows) /\ Len(rows) \in Nat
      /\ Len(open) = N(r) /\ \A i \in 1..N(r) : open[i].doc = r /\ open[i].index = i
  BY <1>1 DEF RagInv, TypeOK, OwnTransaction
<1>3. op[r] = "upload" /\ text[r] \in Texts /\ answer[r] = "none" /\ RowsFrom(r) = {}
  BY <1>1 DEF RagInv, UploadsWrite, NothingEarly
<1>4. N(r) \in Nat \ {0} /\ MaxChunks \in Nat /\ Len(rows) + N(r) <= MaxChunks
  <2>1. PICK i \in DOMAIN text[r] : Visible(text[r], i)
    BY <1>1, <1>3 DEF AskedInv
  <2>2. chunking \in Chunkings
    BY DEF RagInv, TypeOK
  <2>3. N(r) \in Nat \ {0}
    BY <1>3, <2>1, <2>2, SomeChunk DEF N, ChunksOf
  <2> QED
    BY <1>1, <2>3, RagAssumption DEF RagInv, RoomKept
<1> DEFINE n == N(r)
           near == [i \in 1..n |-> open[i].near]
           block == [i \in 1..n |-> [doc |-> r, index |-> i, near |-> near[i]]]
<1>5. n \in 1..MaxChunks /\ Len(rows) + n <= MaxChunks
  BY <1>2, <1>4
<1>6. near \in [1..n -> Distances] /\ open = block
  <2>1. open \in [1..n -> Rows]
    BY <1>2
  <2>2. \A i \in 1..n : open[i] = block[i] /\ near[i] \in Distances
    BY <1>2, <2>1 DEF Rows
  <2>3. open = [i \in 1..n |-> open[i]]
    BY <2>1
  <2> QED
    BY <2>2, <2>3
<1>7. r \in Asked /\ Want[r] = 0 /\ Asked' = Asked /\ Want' = Want
  <2>1. r \in Asked /\ Asked' = Asked /\ Want' = Want
    BY <1>1, AskedMoves DEF Inside
  <2> QED
    BY <1>3, <2>1 DEF Want
<1> HIDE DEF n, near
<1>8. \E m \in 1..MaxChunks :
        /\ Len(rows) + m <= MaxChunks
        /\ \E d \in [1..m -> Distances] :
             rows' = rows \o [i \in 1..m |-> [doc |-> r, index |-> i, near |-> d[i]]]
  <2>1. rows' = rows \o block
    BY <1>1, <1>6
  <2> QED
    BY <1>5, <1>6, <2>1
<1> QED
  BY <1>1, <1>3, <1>7, <1>8 DEF Store!Add, Store!Holds, RowsFrom, Asked, Want

LEMMA AcceptRefines ==
  ASSUME RagInv, AskedInv, NEW r \in Requests, Reply(r)
  PROVE  Store!Accept(r)
<1>1. /\ phase[r] = "stored" /\ phase' = [phase EXCEPT ![r] = "ended"]
      /\ answer' = [answer EXCEPT ![r] = "ok"]
      /\ UNCHANGED <<op, topK, rows, hits>>
  BY DEF Reply, End, Step, request, store
<1>2. /\ op[r] = "upload" /\ text[r] \in Texts /\ chunking \in Chunkings
      /\ answer[r] = "none" /\ Stored(r)
  BY <1>1 DEF RagInv, UploadsWrite, NothingEarly, TypeOK
<1>3. N(r) \in Nat \ {0}
  <2>1. PICK i \in DOMAIN text[r] : Visible(text[r], i)
    BY <1>1, <1>2 DEF AskedInv
  <2> QED
    BY <1>2, <2>1, SomeChunk DEF N, ChunksOf
<1>4. PICK base \in 0..Len(rows) : RowsFrom(r) = (base + 1)..(base + N(r))
  BY <1>2 DEF Stored, N
<1>5. base + 1 \in RowsFrom(r)
  <2>1. Len(rows) \in Nat
    BY DEF RagInv, TypeOK
  <2> QED
    BY <1>3, <1>4, <2>1
<1>6. r \in Asked /\ Asked' = Asked /\ Want' = Want
  BY <1>1, AskedMoves
<1> QED
  BY <1>1, <1>2, <1>5, <1>6 DEF Store!Accept, Store!Holds, Store!Tell, RowsFrom, Asked, Want

\* A search finds the best of the table as committed: nobody else is inside the lock.
LEMMA FindRefines ==
  ASSUME RagInv, NEW r \in Requests, Scan(r)
  PROVE  Store!Find(r)
<1>1. /\ op[r] = "search" /\ phase[r] = "ready" /\ phase' = [phase EXCEPT ![r] = "ended"]
      /\ answer' = [answer EXCEPT ![r] = "ok"]
      /\ hits' = [hits EXCEPT ![r] = Nearest(topK[r])]
      /\ UNCHANGED <<op, topK, rows>>
  BY DEF Scan, End, Step, request, store
<1>2. Table = rows /\ rows \in Seq(Rows)
  <2>1. \A q \in Requests : phase[q] \notin {"committing", "rolling"}
    BY <1>1 DEF RagInv, TypeOK, Inside
  <2>2. open = <<>> /\ rows \in Seq(Rows)
    BY <2>1 DEF RagInv, OwnTransaction, TypeOK
  <2> QED
    BY <2>2, ConcatEmptySeq DEF Table
<1>3. topK[r] \in Nat \ {0} /\ answer[r] = "none"
  BY <1>1 DEF RagInv, TypeOK, NothingEarly
<1>4. r \in Asked /\ Want[r] = topK[r] /\ Asked' = Asked /\ Want' = Want
  <2>1. r \in Asked /\ Asked' = Asked /\ Want' = Want
    BY <1>1, AskedMoves
  <2> QED
    BY <1>1, <2>1 DEF Want
<1> DEFINE found == Nearest(topK[r])
           n == IF topK[r] < Len(rows) THEN topK[r] ELSE Len(rows)
<1>5. BestOf(found, Len(rows), topK[r]) /\ Len(rows) \in Nat
  <2>1. Rows \subseteq [doc : Requests, index : Nat, near : Nat]
    BY RagAssumption DEF Rows
  <2>2. Comparable
    BY <1>2, <2>1, SeqMonotonic DEF Comparable
  <2> QED
    BY <1>2, <1>3, <2>2, NearestIsBest
<1>6. \A i, j : Closer(i, j) <=> Store!Better(i, j)
  BY <1>2 DEF Closer, Store!Better
<1> HIDE DEF found
<1>7. found \in [1..n -> DOMAIN rows]
  <2>1. found \in Seq(1..Len(rows)) /\ Len(found) = n /\ DOMAIN rows = 1..Len(rows)
    BY <1>2, <1>5 DEF BestOf
  <2> QED
    BY <2>1
<1>8. Store!Best(found)
  <2>1. \A i, j \in DOMAIN found : i < j => Store!Better(found[i], found[j])
    BY <1>5, <1>6 DEF BestOf, Ascending
  <2>2. ASSUME NEW i \in DOMAIN rows, \A m \in DOMAIN found : found[m] # i
        PROVE  \A m \in DOMAIN found : Store!Better(found[m], i)
    <3>1. i \in (1..Len(rows)) \ ToSet(found)
      BY <1>2, <2>2 DEF ToSet
    <3> QED
      BY <1>5, <1>6, <3>1 DEF BestOf
  <2> QED
    BY <2>1, <2>2 DEF Store!Best
<1>9. hits' = [hits EXCEPT ![r] = found]
  BY <1>1 DEF found
<1>10. Store!Tell(r, "ok")
  BY <1>1, <1>3 DEF Store!Tell
<1>11. \E f \in [1..(IF Want[r] < Len(rows) THEN Want[r] ELSE Len(rows)) -> DOMAIN rows] :
         Store!Best(f) /\ hits' = [hits EXCEPT ![r] = f]
  BY <1>4, <1>7, <1>8, <1>9
<1>12. r \in Asked /\ Want[r] > 0 /\ UNCHANGED <<Asked, Want, rows>>
  BY <1>1, <1>3, <1>4
<1> QED
  BY <1>10, <1>11, <1>12 DEF Store!Find, Asked, Want

\* RAGService implements DocumentStore, whatever fails and whenever the process is
\* killed, for any texts, settings and quota.
THEOREM Refinement == Spec => StoreIsAtomic
<1>1. Init => AskedInv /\ Store!Init
  <2> SUFFICES ASSUME Init PROVE AskedInv /\ Store!Init
    OBVIOUS
  <2>1. AskedInv
    BY DEF Init, AskedInv
  <2>2. Asked = {} /\ Want = [r \in Requests |-> 0]
    BY DEF Init, Asked, Want
  <2> QED
    BY <2>1, <2>2 DEF Init, Store!Init, Asked, Want
<1>2. RagInv /\ AskedInv /\ [Next]_vars => AskedInv'
  BY AskedStep
<1>3. RagInv /\ AskedInv /\ [Next]_vars => [Store!Next]_(Store!vars)
  <2> SUFFICES ASSUME RagInv, AskedInv, [Next]_vars
               PROVE  [Store!Next]_(Store!vars)
    OBVIOUS
  <2>1. CASE Close \/ Migrate \/ Restart \/ UNCHANGED vars
    BY <2>1, OutsideRefines DEF Store!vars, Asked, Want
  <2>2. ASSUME NEW r \in Requests, Work(r)
        PROVE  [Store!Next]_(Store!vars)
    <3>1. CASE \/ Enter(r) \/ AlreadyReady(r) \/ OpenStore(r) \/ LoadEmbedding(r)
               \/ Plan(r) \/ Embed(r) \/ Insert(r) \/ InsertFails(r)
      BY <3>1, SilentRefines DEF Store!vars, Asked, Want
    <3>2. CASE RefuseLegacy(r) \/ RefuseQuota(r) \/ RollBack(r) \/ Fail(r)
      BY <3>2, RefuseRefines DEF Store!Next
    <3>3. CASE Commit(r) \/ Reply(r) \/ Scan(r)
      BY <3>3, AddRefines, AcceptRefines, FindRefines DEF Store!Next
    <3> QED
      BY <2>2, <3>1, <3>2, <3>3 DEF Work
  <2>3. ASSUME NEW r \in Requests,
               (\E t \in Texts : Upload(r, t)) \/ (\E k \in Ks : Search(r, k))
        PROVE  [Store!Next]_(Store!vars)
    BY <2>3, AskRefines DEF Store!Next
  <2> QED
    BY <2>1, <2>2, <2>3 DEF Next
<1> QED
  BY <1>1, <1>2, <1>3, RagInvariance, PTL DEF Spec, StoreIsAtomic, Store!Spec
=============================================================================
