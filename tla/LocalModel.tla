----------------------------- MODULE LocalModel -----------------------------
(***************************************************************************)
(* LLMService (src/backend/app/services/llm_service.py) and the threads    *)
(* that run it.                                                            *)
(*                                                                         *)
(* A blocking call (load, unload, generate) runs from start to end on one  *)
(* thread of asyncio's default executor, so a call stands for its thread.  *)
(* A stream is a generator whose every next() runs on whichever anyio      *)
(* worker is free, and which the event loop finalises when the client      *)
(* goes away.  The inference lock is a threading.RLock: it has an owner    *)
(* and a count, and only its owner can release it.                         *)
(*                                                                         *)
(* model, model_path and is_loaded are always written together under the   *)
(* state lock, whose critical sections do not block: one variable stands   *)
(* for the three, and each critical section is part of one step.           *)
(***************************************************************************)
EXTENDS Naturals, FiniteSets

CONSTANTS Calls,        \* blocking calls; a model is named by the call that built it
          Streams,      \* streamed generations
          Workers,      \* anyio worker threads
          Loop,         \* the event-loop thread
          None,
          MaxChunks,    \* content chunks a stream may yield (max_tokens)
          Disconnects   \* whether clients may go away before the end of a stream

ASSUME LocalModelAssumption ==
  /\ IsFiniteSet(Streams)
  /\ Calls \cap Streams = {}
  /\ Calls \cap Workers = {}
  /\ Loop \notin Calls \cup Workers
  /\ None \notin Calls \cup Streams \cup Workers \cup {Loop}
  /\ MaxChunks \in Nat
  /\ Disconnects \in BOOLEAN

VARIABLES model,            \* the published model, or None
          closed,           \* models whose close() has returned
          abandoned,        \* the model whose close() raised in an unload, or None
          lifecycleOwner,   \* call that holds _lifecycle_lock, or None
          inferenceOwner,   \* thread that holds _inference_lock, or None
          inferenceCount,   \* how often it holds it
          phase,            \* where each call is
          result,           \* what each call will answer, once it knows
          victim,           \* the model an unload took out and must close
          stream,           \* where each generator is suspended
          using,            \* the model a generation runs on
          left,             \* content chunks a stream may still yield
          runs              \* the stream whose next() a worker executes, or None

locks == <<lifecycleOwner, inferenceOwner, inferenceCount>>
callVars == <<phase, result, victim>>
streamVars == <<stream, left, runs>>
vars == <<model, closed, abandoned, locks, callVars, streamVars, using>>

\* The threads that acquire the inference lock; the loop only tries to release it.
Threads == Calls \cup Workers

Phases == {"new", "load_wait", "load_check", "constructing", "publishing",
           "unload_wait", "unload_read", "draining", "closing",
           "generate_wait", "generating", "returned"}

Results == {"none", "loaded", "already_loaded", "load_failed", "unloaded",
            "not_loaded", "unload_failed", "refused", "ended"}

StreamStates == {"new", "open", "stopped", "finished", "failed", "refused", "dropped"}

\* A generator suspended or running inside its `with self._inference_lock`.
Active(s) == stream[s] \in {"open", "stopped"}
ActiveStreams == {s \in Streams : Active(s)}

\* The generations under way, blocking or streamed.
InUse == {r \in Calls \cup Streams : using[r] # None}

Init ==
  /\ model = None
  /\ closed = {}
  /\ abandoned = [c \in Calls |-> None]
  /\ lifecycleOwner = None
  /\ inferenceOwner = None
  /\ inferenceCount = 0
  /\ phase = [c \in Calls |-> "new"]
  /\ result = [c \in Calls |-> "none"]
  /\ victim = [c \in Calls |-> None]
  /\ stream = [s \in Streams |-> "new"]
  /\ using = [r \in Calls \cup Streams |-> None]
  /\ left = [s \in Streams |-> MaxChunks]
  /\ runs = [w \in Workers |-> None]

-----------------------------------------------------------------------------
(* The locks.                                                              *)

InferenceFree(t) == inferenceOwner \in {None, t}

\* Mutant: a lock that forgets how often its owner holds it.
AcquireInferenceFlat(t) ==
  /\ InferenceFree(t)
  /\ inferenceOwner' = t
  /\ inferenceCount' = 1

AcquireInference(t) ==
  /\ InferenceFree(t)
  /\ inferenceOwner' = t
  /\ inferenceCount' = inferenceCount + 1

\* RLock.release raises RuntimeError, and changes nothing, unless its caller owns the lock.
ReleaseInference(t) ==
  IF inferenceOwner = t
  THEN /\ inferenceCount' = inferenceCount - 1
       /\ inferenceOwner' = IF inferenceCount = 1 THEN None ELSE t
  ELSE UNCHANGED <<inferenceOwner, inferenceCount>>

\* Mutant: lifecycle operations that are not serialised.
EnterLifecycleUnlocked(c, from, to) ==
  /\ phase[c] = from
  /\ lifecycleOwner' = c
  /\ phase' = [phase EXCEPT ![c] = to]

EnterLifecycle(c, from, to) ==
  /\ phase[c] = from
  /\ lifecycleOwner = None
  /\ lifecycleOwner' = c
  /\ phase' = [phase EXCEPT ![c] = to]

Return(c, answer) ==
  /\ phase' = [phase EXCEPT ![c] = "returned"]
  /\ result' = [result EXCEPT ![c] = answer]

-----------------------------------------------------------------------------
(* Blocking calls.                                                         *)

\* An endpoint hands one of the three operations to an executor thread.
Start(c) ==
  /\ phase[c] = "new"
  /\ \E p \in {"load_wait", "unload_wait", "generate_wait"} :
       phase' = [phase EXCEPT ![c] = p]
  /\ UNCHANGED <<model, closed, abandoned, locks, result, victim, streamVars, using>>

LoadEnter(c) ==
  /\ EnterLifecycle(c, "load_wait", "load_check")
  /\ UNCHANGED <<model, closed, abandoned, inferenceOwner, inferenceCount, result, victim,
                 streamVars, using>>

LoadAlready(c) ==
  /\ phase[c] = "load_check"
  /\ model # None
  /\ Return(c, "already_loaded")
  /\ lifecycleOwner' = None
  /\ UNCHANGED <<model, closed, abandoned, inferenceOwner, inferenceCount, victim,
                 streamVars, using>>

\* Mutant: load does not look whether a model is loaded already.
LoadConstructUnchecked(c) ==
  /\ phase[c] = "load_check"
  /\ phase' = [phase EXCEPT ![c] = "constructing"]
  /\ UNCHANGED <<model, closed, abandoned, locks, result, victim, streamVars, using>>

LoadConstruct(c) ==
  /\ phase[c] = "load_check"
  /\ model = None
  /\ phase' = [phase EXCEPT ![c] = "constructing"]
  /\ UNCHANGED <<model, closed, abandoned, locks, result, victim, streamVars, using>>

\* Download, checksum or Llama() raises: the fields are cleared under the
\* state lock alone, without the inference lock.
LoadFail(c) ==
  /\ phase[c] = "constructing"
  /\ model' = None
  /\ Return(c, "load_failed")
  /\ lifecycleOwner' = None
  /\ UNCHANGED <<closed, abandoned, inferenceOwner, inferenceCount, victim, streamVars, using>>

LoadBuilt(c) ==
  /\ phase[c] = "constructing"
  /\ phase' = [phase EXCEPT ![c] = "publishing"]
  /\ UNCHANGED <<model, closed, abandoned, locks, result, victim, streamVars, using>>

\* Publication under the inference lock, which nobody can see held.
LoadPublish(c) ==
  /\ phase[c] = "publishing"
  /\ InferenceFree(c)
  /\ model' = c
  /\ Return(c, "loaded")
  /\ lifecycleOwner' = None
  /\ UNCHANGED <<closed, abandoned, inferenceOwner, inferenceCount, victim, streamVars, using>>

UnloadEnter(c) ==
  /\ EnterLifecycle(c, "unload_wait", "unload_read")
  /\ UNCHANGED <<model, closed, abandoned, inferenceOwner, inferenceCount, result, victim,
                 streamVars, using>>

\* was_loaded is read before the wait for the inference lock.
UnloadRead(c) ==
  /\ phase[c] = "unload_read"
  /\ result' = [result EXCEPT ![c] = IF model # None THEN "unloaded" ELSE "not_loaded"]
  /\ phase' = [phase EXCEPT ![c] = "draining"]
  /\ UNCHANGED <<model, closed, abandoned, locks, victim, streamVars, using>>

\* Mutant: unload does not wait for the inference lock.
UnloadClearUnlocked(c) ==
  /\ phase[c] = "draining"
  /\ victim' = [victim EXCEPT ![c] = model]
  /\ model' = None
  /\ phase' = [phase EXCEPT ![c] = "closing"]
  /\ UNCHANGED <<closed, abandoned, locks, result, streamVars, using>>

UnloadClear(c) ==
  /\ phase[c] = "draining"
  /\ AcquireInference(c)
  /\ victim' = [victim EXCEPT ![c] = model]
  /\ model' = None
  /\ phase' = [phase EXCEPT ![c] = "closing"]
  /\ UNCHANGED <<closed, abandoned, lifecycleOwner, result, streamVars, using>>

\* Mutant: unload keeps the inference lock.
UnloadCloseHolding(c) ==
  /\ phase[c] = "closing"
  /\ closed' = closed \cup ({victim[c]} \ {None})
  /\ victim' = [victim EXCEPT ![c] = None]
  /\ lifecycleOwner' = None
  /\ phase' = [phase EXCEPT ![c] = "returned"]
  /\ UNCHANGED <<model, abandoned, inferenceOwner, inferenceCount, result, using, streamVars>>

\* close() while the inference lock is still held, then both locks are left.
UnloadClose(c) ==
  /\ phase[c] = "closing"
  /\ closed' = closed \cup ({victim[c]} \ {None})
  /\ victim' = [victim EXCEPT ![c] = None]
  /\ ReleaseInference(c)
  /\ lifecycleOwner' = None
  /\ phase' = [phase EXCEPT ![c] = "returned"]
  /\ UNCHANGED <<model, abandoned, result, streamVars, using>>

\* close() raises: the fields have been cleared, both locks are left all the same,
\* and the caller gets the error instead of an answer.  Nobody else knows the model.
UnloadCloseFails(c) ==
  /\ phase[c] = "closing"
  /\ victim[c] # None
  /\ abandoned' = [abandoned EXCEPT ![c] = victim[c]]
  /\ victim' = [victim EXCEPT ![c] = None]
  /\ ReleaseInference(c)
  /\ lifecycleOwner' = None
  /\ Return(c, "unload_failed")
  /\ UNCHANGED <<model, closed, streamVars, using>>

GenerateRefused(c) ==
  /\ phase[c] = "generate_wait"
  /\ InferenceFree(c)
  /\ model = None
  /\ Return(c, "refused")
  /\ UNCHANGED <<model, closed, abandoned, locks, victim, streamVars, using>>

\* Mutant: generate without the inference lock.
GenerateBeginUnlocked(c) ==
  /\ phase[c] = "generate_wait"
  /\ model # None
  /\ using' = [using EXCEPT ![c] = model]
  /\ phase' = [phase EXCEPT ![c] = "generating"]
  /\ UNCHANGED <<model, closed, abandoned, locks, result, victim, streamVars>>

GenerateBegin(c) ==
  /\ phase[c] = "generate_wait"
  /\ AcquireInference(c)
  /\ model # None
  /\ using' = [using EXCEPT ![c] = model]
  /\ phase' = [phase EXCEPT ![c] = "generating"]
  /\ UNCHANGED <<model, closed, abandoned, lifecycleOwner, result, victim, streamVars>>

\* Mutant: generate keeps the lock when it ends.
GenerateEndHolding(c) ==
  /\ phase[c] = "generating"
  /\ using' = [using EXCEPT ![c] = None]
  /\ Return(c, "ended")
  /\ UNCHANGED <<model, closed, abandoned, locks, victim, streamVars>>

\* The model returns or raises: the lock is left either way.
GenerateEnd(c) ==
  /\ phase[c] = "generating"
  /\ ReleaseInference(c)
  /\ using' = [using EXCEPT ![c] = None]
  /\ Return(c, "ended")
  /\ UNCHANGED <<model, closed, abandoned, lifecycleOwner, victim, streamVars>>

CallStep(c) ==
  \/ Start(c)
  \/ LoadEnter(c) \/ LoadAlready(c) \/ LoadConstruct(c) \/ LoadFail(c)
  \/ LoadBuilt(c) \/ LoadPublish(c)
  \/ UnloadEnter(c) \/ UnloadRead(c) \/ UnloadClear(c) \/ UnloadClose(c)
  \/ UnloadCloseFails(c)
  \/ GenerateRefused(c) \/ GenerateBegin(c) \/ GenerateEnd(c)

-----------------------------------------------------------------------------
(* Streams.                                                                *)

Executing(s) == \E w \in Workers : runs[w] = s

\* StreamingResponse hands the next next() of a generator to a free worker.
StreamNext(s, w) ==
  /\ stream[s] \in {"new", "open", "stopped"}
  /\ ~ Executing(s)
  /\ runs[w] = None
  /\ runs' = [runs EXCEPT ![w] = s]
  /\ UNCHANGED <<model, closed, abandoned, locks, callVars, stream, left, using>>

\* The worker leaves the generator in state to.
Suspend(w, s, to) ==
  /\ stream' = [stream EXCEPT ![s] = to]
  /\ runs' = [runs EXCEPT ![w] = None]

StreamRefused(s, w) ==
  /\ runs[w] = s
  /\ stream[s] = "new"
  /\ InferenceFree(w)
  /\ model = None
  /\ Suspend(w, s, "refused")
  /\ UNCHANGED <<model, closed, abandoned, locks, callVars, left, using>>

StreamEnter(s, w) ==
  /\ runs[w] = s
  /\ stream[s] = "new"
  /\ AcquireInference(w)
  /\ model # None
  /\ using' = [using EXCEPT ![s] = model]
  /\ stream' = [stream EXCEPT ![s] = "open"]
  /\ UNCHANGED <<model, closed, abandoned, lifecycleOwner, callVars, left, runs>>

\* Mutant: a stream that ignores max_tokens.
StreamChunkUnbounded(s, w) ==
  /\ runs[w] = s
  /\ stream[s] = "open"
  /\ left' = [left EXCEPT ![s] = @ - 1]
  /\ Suspend(w, s, "open")
  /\ UNCHANGED <<model, closed, abandoned, locks, callVars, using>>

StreamChunk(s, w) ==
  /\ runs[w] = s
  /\ stream[s] = "open"
  /\ left[s] > 0
  /\ left' = [left EXCEPT ![s] = @ - 1]
  /\ Suspend(w, s, "open")
  /\ UNCHANGED <<model, closed, abandoned, locks, callVars, using>>

\* The model has no more text: the chunk with finish_reason "stop".
StreamStop(s, w) ==
  /\ runs[w] = s
  /\ stream[s] = "open"
  /\ Suspend(w, s, "stopped")
  /\ UNCHANGED <<model, closed, abandoned, locks, callVars, left, using>>

\* The generator leaves the `with` on the worker that runs its last next().
StreamExit(s, w) ==
  /\ runs[w] = s
  /\ stream[s] = "stopped"
  /\ ReleaseInference(w)
  /\ using' = [using EXCEPT ![s] = None]
  /\ Suspend(w, s, IF inferenceOwner = w THEN "finished" ELSE "failed")
  /\ UNCHANGED <<model, closed, abandoned, lifecycleOwner, callVars, left>>

\* llama.cpp raises in the middle of a stream.
StreamFail(s, w) ==
  /\ runs[w] = s
  /\ stream[s] = "open"
  /\ ReleaseInference(w)
  /\ using' = [using EXCEPT ![s] = None]
  /\ Suspend(w, s, "failed")
  /\ UNCHANGED <<model, closed, abandoned, lifecycleOwner, callVars, left>>

\* The client is gone: the event loop drops the generator.  One that never
\* started runs nothing; a suspended one leaves its `with` on this thread.
StreamDrop(s) ==
  /\ Disconnects
  /\ stream[s] \in {"new", "open", "stopped"}
  /\ ~ Executing(s)
  /\ IF Active(s)
     THEN ReleaseInference(Loop)
     ELSE UNCHANGED <<inferenceOwner, inferenceCount>>
  /\ using' = [using EXCEPT ![s] = None]
  /\ stream' = [stream EXCEPT ![s] = "dropped"]
  /\ UNCHANGED <<model, closed, abandoned, lifecycleOwner, callVars, left, runs>>

WorkerStep(s, w) ==
  \/ StreamRefused(s, w) \/ StreamEnter(s, w)
  \/ StreamChunk(s, w) \/ StreamStop(s, w) \/ StreamExit(s, w) \/ StreamFail(s, w)

Next ==
  \/ \E c \in Calls : CallStep(c)
  \/ \E s \in Streams, w \in Workers : StreamNext(s, w) \/ WorkerStep(s, w)
  \/ \E s \in Streams : StreamDrop(s)

Spec == Init /\ [][Next]_vars

-----------------------------------------------------------------------------
(* Properties.                                                             *)

\* The type of every variable.
TypeOK ==
  /\ model \in Calls \cup {None}
  /\ closed \subseteq Calls
  /\ abandoned \in [Calls -> Calls \cup {None}]
  /\ lifecycleOwner \in Calls \cup {None}
  /\ inferenceOwner \in Threads \cup {None}
  /\ inferenceCount \in Nat
  /\ phase \in [Calls -> Phases]
  /\ result \in [Calls -> Results]
  /\ victim \in [Calls -> Calls \cup {None}]
  /\ stream \in [Streams -> StreamStates]
  /\ using \in [Calls \cup Streams -> Calls \cup {None}]
  /\ left \in [Streams -> Nat]
  /\ runs \in [Workers -> Streams \cup {None}]

\* A generation, blocking or streamed, runs on the published model until it
\* ends: no unload and no failed load takes the model away or closes it in
\* between, however the threads interleave (CHANGELOG.md, "Fixed a model
\* lifecycle race").  It has to survive lock releases by the wrong thread.
ModelInUseIsOpen ==
  /\ \A r \in Calls \cup Streams :
       using[r] # None => using[r] = model /\ model \notin closed
  /\ \A s \in ActiveStreams : using[s] # None

\* The RLock is held at least once for every stream inside its `with`.  Lost
\* releases make the count too high, nothing makes it too low: this is why a
\* stream that changes threads never lets an unload through.
LockCoversStreams == inferenceCount >= Cardinality(ActiveStreams)

\* No llama.cpp model is lost silently or closed twice: a model that a load has
\* published is current, in the hands of the unload that will close it, closed, or one
\* whose close() has raised, and then a caller has got that error; and never two of
\* these.  After the error the service itself has no reference to the model any more
\* (llm_service.py:281, 288): no later unload can close it.
ModelsAccountedFor ==
  /\ \A c \in Calls :
       result[c] = "loaded" =>
         \/ model = c
         \/ \E u \in Calls : victim[u] = c
         \/ c \in closed
         \/ \E u \in Calls : abandoned[u] = c /\ result[u] = "unload_failed"
  /\ model \notin closed
  /\ \A u \in Calls : victim[u] # None => victim[u] # model /\ victim[u] \notin closed
  /\ \A u \in Calls : abandoned[u] # None =>
       /\ abandoned[u] # model
       /\ abandoned[u] \notin closed
       /\ \A v \in Calls : victim[v] # abandoned[u]

\* The refinement mapping: an unload that takes a model out of service has its answer
\* when close() has returned or raised; one that finds none has it at once.
Answered(c) == phase[c] = "returned" \/ (phase[c] = "closing" /\ victim[c] = None)

CallOutcome(c) == IF Answered(c) THEN result[c] ELSE "pending"

StreamOutcome(s) ==
  CASE stream[s] = "refused" -> "refused"
    [] stream[s] \in {"finished", "failed", "dropped"} -> "ended"
    [] OTHER -> "pending"

Outcome == [r \in Calls \cup Streams |->
              IF r \in Calls THEN CallOutcome(r) ELSE StreamOutcome(r)]

Lifecycle == INSTANCE ModelLifecycle WITH
  current <- model, leaving <- victim, retired <- closed, active <- InUse,
  outcome <- Outcome

\* The locks make every operation of LLMService atomic but for the close() of an
\* unload, during which nothing is loaded: load_model_status and unload_model_status
\* tell the truth about the state they changed, a failed load leaves a loaded model
\* alone, and "Model not loaded" is raised only when there is none.
LifecycleIsAtomic == Lifecycle!Spec

\* llm_service.py:265, "wait for active generation before closing llama.cpp":
\* what an unload waits for is a generation that is under way.
UnloadWaitsForGenerationOnly ==
  \A c \in Calls :
    phase[c] = "draining" /\ inferenceOwner # None => InUse # {}

\* A blocking generation has the model for itself.  Generations overlap only where
\* one thread, a worker with several streams in its hands, has entered the
\* re-entrant lock for each of them: never across threads.
OverlapsAreReentrant ==
  Cardinality(InUse) > 1 =>
    /\ InUse \subseteq Streams
    /\ inferenceOwner \in Workers
    /\ inferenceCount >= Cardinality(InUse)
=============================================================================
