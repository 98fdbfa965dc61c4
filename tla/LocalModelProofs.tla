-------------------------- MODULE LocalModelProofs --------------------------
(***************************************************************************)
(* Proofs about LocalModel for any sets of calls, streams and workers.     *)
(*                                                                         *)
(* The argument: an unload closes the model only after it has acquired the *)
(* inference lock, on an executor thread that never holds it beforehand,   *)
(* so when the lock is free.  It is free only when its count is zero, and  *)
(* the count is at least the number of streams inside their `with`: a      *)
(* release by the wrong thread is lost, which leaves the count too high    *)
(* and never too low.                                                      *)
(*                                                                         *)
(* How much too high is bounded too: by one for every stream that failed   *)
(* or was dropped.  As long as none has, an unload waits only for          *)
(* generations under way; and whatever has been lost, the two locks are    *)
(* always taken in one order, so nobody waits in a circle; and there is    *)
(* only so much work to do.                                                *)
(***************************************************************************)
EXTENDS LocalModel, FiniteSetTheorems, TLAPS

LifecyclePhases == {"load_check", "constructing", "publishing",
                    "unload_read", "draining", "closing"}

\* Who is in a lifecycle operation holds the lifecycle lock, and between its
\* check and its publication a load keeps the model absent.
LifecycleInv ==
  /\ \A c \in Calls : phase[c] \in LifecyclePhases => lifecycleOwner = c
  /\ \A c \in Calls : phase[c] \in {"constructing", "publishing", "closing"} => model = None

\* An executor thread that owns the inference lock is in its critical section
\* and holds it alone; a free lock has count zero.
OwnerInv ==
  /\ \A c \in Calls : phase[c] \in {"closing", "generating"} <=> inferenceOwner = c
  /\ inferenceOwner \in Calls => inferenceCount = 1 /\ ActiveStreams = {}
  /\ inferenceOwner = None <=> inferenceCount = 0

\* The generations under way are those inside their critical sections, and
\* they run on the published model.
UsingInv ==
  /\ \A c \in Calls : using[c] # None <=> phase[c] = "generating"
  /\ \A s \in Streams : using[s] # None <=> Active(s)
  /\ \A r \in Calls \cup Streams : using[r] # None => using[r] = model

\* Models have been published by a load that has returned, and only an unload
\* in its critical section has one to close.
ModelsInv ==
  /\ model # None => result[model] = "loaded"
  /\ \A m \in closed : result[m] = "loaded"
  /\ \A c \in Calls : victim[c] # None => /\ phase[c] = "closing"
                                          /\ result[victim[c]] = "loaded"
                                          /\ victim[c] \notin closed
  /\ \A u \in Calls : abandoned[u] # None =>
       /\ phase[u] = "returned" /\ result[u] = "unload_failed"
       /\ result[abandoned[u]] = "loaded"
       /\ abandoned[u] # model /\ abandoned[u] \notin closed
       /\ \A v \in Calls : victim[v] # abandoned[u]
  /\ model \notin closed
  /\ \A c \in Calls :
       result[c] = "loaded" =>
         \/ model = c
         \/ \E u \in Calls : victim[u] = c
         \/ c \in closed
         \/ \E u \in Calls : abandoned[u] = c

\* What a call will answer, while it does not have its answer or waits.
ResultInv ==
  /\ \A c \in Calls : result[c] \in {"loaded", "unload_failed"} => phase[c] = "returned"
  /\ \A c \in Calls :
       phase[c] = "draining" =>
         result[c] = IF model # None THEN "unloaded" ELSE "not_loaded"
  /\ \A c \in Calls : phase[c] = "closing" => result[c] \in {"unloaded", "not_loaded"}
  /\ \A c \in Calls : phase[c] = "closing" => (victim[c] # None <=> result[c] = "unloaded")

IInv ==
  /\ TypeOK
  /\ LifecycleInv
  /\ OwnerInv
  /\ LockCoversStreams
  /\ UsingInv
  /\ ModelsInv
  /\ ResultInv

-----------------------------------------------------------------------------

\* The streams inside their `with` can be counted.
LEMMA ActiveStreamsFinite ==
  IsFiniteSet(ActiveStreams) /\ Cardinality(ActiveStreams) \in Nat
<1>1. ActiveStreams \subseteq Streams
  BY DEF ActiveStreams
<1>2. QED
  BY <1>1, FS_Subset, FS_CardinalityType, LocalModelAssumption

\* With a free inference lock no generation is under way.
LEMMA FreeLockMeansQuiet ==
  ASSUME IInv, inferenceOwner = None
  PROVE  /\ ActiveStreams = {}
         /\ \A r \in Calls \cup Streams : using[r] = None
<1>1. inferenceCount = 0
  BY DEF IInv, OwnerInv
<1>2. Cardinality(ActiveStreams) = 0
  BY <1>1, ActiveStreamsFinite DEF IInv, LockCoversStreams
<1>3. ActiveStreams = {}
  BY <1>2, ActiveStreamsFinite, FS_EmptySet
<1>4. \A c \in Calls : using[c] = None
  BY LocalModelAssumption DEF IInv, OwnerInv, UsingInv
<1>5. \A s \in Streams : using[s] = None
  BY <1>3 DEF IInv, UsingInv, ActiveStreams
<1>6. QED
  BY <1>3, <1>4, <1>5

\* No executor thread owns the inference lock before it has acquired it.
LEMMA CallAcquiresFreeLock ==
  ASSUME IInv, NEW c \in Calls, InferenceFree(c),
         phase[c] \notin {"closing", "generating"}
  PROVE  inferenceOwner = None
BY DEF IInv, OwnerInv, InferenceFree

\* A service that has just been constructed satisfies the invariant.
LEMMA InitInv == Init => IInv
<1> SUFFICES ASSUME Init PROVE IInv
  OBVIOUS
<1>1. ActiveStreams = {}
  BY DEF Init, ActiveStreams, Active
<1>2. LockCoversStreams
  BY <1>1, FS_EmptySet DEF Init, LockCoversStreams
<1>3. TypeOK
  BY LocalModelAssumption
  DEF Init, TypeOK, Phases, Results, StreamStates, Threads
<1>4. QED
  BY <1>1, <1>2, <1>3, LocalModelAssumption
  DEF Init, IInv, LifecycleInv, OwnerInv, UsingInv, ModelsInv, ResultInv,
      LifecyclePhases, Active

\* A step of a blocking call.
LEMMA CallStepInv ==
  ASSUME IInv, NEW c \in Calls, CallStep(c)
  PROVE  IInv'
<1> USE LocalModelAssumption
<1>1. ActiveStreams' = ActiveStreams
  BY DEF CallStep, Start, LoadEnter, LoadAlready, LoadConstruct, LoadFail, LoadBuilt,
         LoadPublish, UnloadEnter, UnloadRead, UnloadClear, UnloadClose, UnloadCloseFails,
         GenerateRefused, GenerateBegin, GenerateEnd, ActiveStreams, Active, streamVars
<1>2. inferenceOwner = None => /\ ActiveStreams = {}
                              /\ \A r \in Calls \cup Streams : using[r] = None
  BY FreeLockMeansQuiet
<1>3. Cardinality(ActiveStreams) \in Nat /\ Cardinality({}) = 0
  BY ActiveStreamsFinite, FS_EmptySet
<1> USE DEF IInv, TypeOK, Phases, Results, StreamStates, Threads, LifecycleInv,
            LifecyclePhases, OwnerInv, LockCoversStreams, UsingInv, ModelsInv, ResultInv,
            Active, streamVars, locks
<1>a. CASE Start(c)
  BY <1>1, <1>a DEF Start
<1>b. CASE LoadEnter(c)
  BY <1>1, <1>b DEF LoadEnter, EnterLifecycle
<1>c. CASE LoadAlready(c)
  BY <1>1, <1>c DEF LoadAlready, Return
<1>d. CASE LoadConstruct(c)
  BY <1>1, <1>d DEF LoadConstruct
<1>e. CASE LoadFail(c)
  BY <1>1, <1>e DEF LoadFail, Return
<1>f. CASE LoadBuilt(c)
  BY <1>1, <1>f DEF LoadBuilt
<1>g. CASE LoadPublish(c)
  BY <1>1, <1>2, <1>g DEF LoadPublish, Return, InferenceFree
<1>h. CASE UnloadEnter(c)
  BY <1>1, <1>h DEF UnloadEnter, EnterLifecycle
<1>i. CASE UnloadRead(c)
  BY <1>1, <1>i DEF UnloadRead
<1>j. CASE UnloadClear(c)
  <2> USE <1>1, <1>2, <1>j DEF UnloadClear, AcquireInference, InferenceFree
  <2>1. TypeOK'
    OBVIOUS
  <2>2. LifecycleInv'
    OBVIOUS
  <2>3. OwnerInv'
    OBVIOUS
  <2>4. LockCoversStreams'
    BY <1>3
  <2>5. UsingInv'
    OBVIOUS
  <2>6. ModelsInv'
    OBVIOUS
  <2>7. ResultInv'
    OBVIOUS
  <2>8. QED
    BY <2>1, <2>2, <2>3, <2>4, <2>5, <2>6, <2>7
<1>k. CASE UnloadClose(c)
  <2> USE <1>1, <1>2, <1>k DEF UnloadClose, ReleaseInference
  <2>1. TypeOK'
    OBVIOUS
  <2>2. LifecycleInv'
    OBVIOUS
  <2>3. OwnerInv'
    OBVIOUS
  <2>4. LockCoversStreams'
    <3>1. inferenceCount' = 0
      OBVIOUS
    <3>2. Cardinality(ActiveStreams)' = 0
      <4>1. ActiveStreams' = {}
        OBVIOUS
      <4>2. QED
        BY <4>1, <1>3
    <3>3. QED
      BY <3>1, <3>2
  <2>5. UsingInv'
    OBVIOUS
  <2>6. ModelsInv'
    OBVIOUS
  <2>7. ResultInv'
    OBVIOUS
  <2>8. QED
    BY <2>1, <2>2, <2>3, <2>4, <2>5, <2>6, <2>7
<1>p. CASE UnloadCloseFails(c)
  <2> USE <1>1, <1>2, <1>p DEF UnloadCloseFails, ReleaseInference, Return
  <2>1. TypeOK'
    OBVIOUS
  <2>2. LifecycleInv'
    OBVIOUS
  <2>3. OwnerInv'
    OBVIOUS
  <2>4. LockCoversStreams'
    <3>1. inferenceCount' = 0
      OBVIOUS
    <3>2. Cardinality(ActiveStreams)' = 0
      <4>1. ActiveStreams' = {}
        OBVIOUS
      <4>2. QED
        BY <4>1, <1>3
    <3>3. QED
      BY <3>1, <3>2
  <2>5. UsingInv'
    OBVIOUS
  <2>6. ModelsInv'
    OBVIOUS
  <2>7. ResultInv'
    OBVIOUS
  <2>8. QED
    BY <2>1, <2>2, <2>3, <2>4, <2>5, <2>6, <2>7
<1>l. CASE GenerateRefused(c)
  BY <1>1, <1>l DEF GenerateRefused, Return
<1>m. CASE GenerateBegin(c)
  <2> USE <1>1, <1>2, <1>m DEF GenerateBegin, AcquireInference, InferenceFree
  <2>1. TypeOK'
    OBVIOUS
  <2>2. LifecycleInv'
    OBVIOUS
  <2>3. OwnerInv'
    OBVIOUS
  <2>4. LockCoversStreams'
    BY <1>3
  <2>5. UsingInv'
    OBVIOUS
  <2>6. ModelsInv'
    OBVIOUS
  <2>7. ResultInv'
    OBVIOUS
  <2>8. QED
    BY <2>1, <2>2, <2>3, <2>4, <2>5, <2>6, <2>7
<1>n. CASE GenerateEnd(c)
  <2> USE <1>1, <1>2, <1>n DEF GenerateEnd, ReleaseInference, Return
  <2>1. TypeOK'
    OBVIOUS
  <2>2. LifecycleInv'
    OBVIOUS
  <2>3. OwnerInv'
    OBVIOUS
  <2>4. LockCoversStreams'
    <3>1. inferenceCount' = 0
      OBVIOUS
    <3>2. Cardinality(ActiveStreams)' = 0
      <4>1. ActiveStreams' = {}
        OBVIOUS
      <4>2. QED
        BY <4>1, <1>3
    <3>3. QED
      BY <3>1, <3>2
  <2>5. UsingInv'
    OBVIOUS
  <2>6. ModelsInv'
    OBVIOUS
  <2>7. ResultInv'
    OBVIOUS
  <2>8. QED
    BY <2>1, <2>2, <2>3, <2>4, <2>5, <2>6, <2>7
<1>o. QED
  BY <1>a, <1>b, <1>c, <1>d, <1>e, <1>f, <1>g, <1>h, <1>i, <1>j, <1>k, <1>l, <1>m, <1>n,
     <1>p
  DEF CallStep
\* A step that leaves the streams inside their `with`, the lock and the calls alone.
LEMMA QuietStepInv ==
  ASSUME IInv, ActiveStreams' = ActiveStreams, TypeOK',
         UNCHANGED <<model, closed, abandoned, locks, callVars, using>>
  PROVE  IInv'
<1>1. \A s \in Streams : Active(s)' <=> Active(s)
  BY DEF ActiveStreams
<1>2. QED
  BY <1>1 DEF IInv, LifecycleInv, OwnerInv, LockCoversStreams, UsingInv, ModelsInv,
              ResultInv, locks, callVars

\* A release never takes the count below zero: a held lock has a positive count.
LEMMA ReleaseTypes ==
  ASSUME IInv, NEW t \in Threads \cup {Loop}, ReleaseInference(t)
  PROVE  /\ inferenceOwner' \in Threads \cup {None}
         /\ inferenceCount' \in Nat
BY LocalModelAssumption DEF IInv, TypeOK, OwnerInv, ReleaseInference, Threads

\* A stream enters its `with` on worker w.
LEMMA StreamEnterInv ==
  ASSUME IInv, NEW s \in Streams, NEW w \in Workers, StreamEnter(s, w)
  PROVE  IInv'
<1> USE LocalModelAssumption
<1> USE DEF StreamEnter, AcquireInference, InferenceFree, callVars
<1>1. TypeOK'
  BY DEF IInv, TypeOK, StreamStates, Threads
<1>2. /\ s \notin ActiveStreams
      /\ ActiveStreams' = ActiveStreams \cup {s}
  BY DEF IInv, TypeOK, ActiveStreams, Active
<1>3. LockCoversStreams'
  <2>1. Cardinality(ActiveStreams') = Cardinality(ActiveStreams) + 1
    BY <1>2, ActiveStreamsFinite, FS_AddElement
  <2>2. QED
    BY <2>1, ActiveStreamsFinite DEF IInv, TypeOK, LockCoversStreams
<1>4. LifecycleInv'
  BY DEF IInv, LifecycleInv
<1>5. OwnerInv'
  BY DEF IInv, TypeOK, OwnerInv
<1>6. UsingInv'
  BY DEF IInv, TypeOK, UsingInv, Active
<1>7. ModelsInv' /\ ResultInv'
  BY DEF IInv, ModelsInv, ResultInv
<1>8. QED
  BY <1>1, <1>3, <1>4, <1>5, <1>6, <1>7 DEF IInv

\* A stream leaves its `with` on thread t, to state to.  The release is lost
\* when t is not the owner, and the invariant survives it.
LEMMA LeaveInv ==
  ASSUME IInv, TypeOK', NEW s \in ActiveStreams, NEW t \in Workers \cup {Loop},
         NEW to \in StreamStates \ {"open", "stopped"},
         ReleaseInference(t),
         using' = [using EXCEPT ![s] = None],
         stream' = [stream EXCEPT ![s] = to],
         UNCHANGED <<model, closed, abandoned, lifecycleOwner, callVars>>
  PROVE  IInv'
<1> USE LocalModelAssumption
<1> USE DEF ReleaseInference, callVars
<1>1. s \in Streams /\ ActiveStreams' = ActiveStreams \ {s}
  BY DEF IInv, TypeOK, ActiveStreams, Active
<1>2. Cardinality(ActiveStreams') = Cardinality(ActiveStreams) - 1
  BY <1>1, ActiveStreamsFinite, FS_RemoveElement
<1>3. LockCoversStreams'
  BY <1>2, ActiveStreamsFinite DEF IInv, TypeOK, LockCoversStreams
<1>4. LifecycleInv'
  BY DEF IInv, LifecycleInv
<1>5. inferenceOwner \notin Calls \cup {None}
  <2>1. Cardinality(ActiveStreams) # 0
    BY ActiveStreamsFinite, FS_EmptySet
  <2>2. inferenceOwner # None
    BY <2>1, ActiveStreamsFinite DEF IInv, TypeOK, OwnerInv, LockCoversStreams
  <2>3. inferenceOwner \notin Calls
    BY DEF IInv, OwnerInv
  <2>4. QED
    BY <2>2, <2>3
<1>6. OwnerInv'
  BY <1>5, <1>1 DEF IInv, TypeOK, OwnerInv
<1>7. UsingInv'
  BY <1>1 DEF IInv, TypeOK, UsingInv, Active
<1>8. ModelsInv' /\ ResultInv'
  BY DEF IInv, ModelsInv, ResultInv
<1>9. QED
  BY <1>3, <1>4, <1>6, <1>7, <1>8 DEF IInv

\* A step of a worker.
LEMMA StreamStepInv ==
  ASSUME IInv, NEW s \in Streams, NEW w \in Workers,
         StreamNext(s, w) \/ WorkerStep(s, w)
  PROVE  IInv'
<1> USE LocalModelAssumption
<1>1. TypeOK'
  <2>1. CASE StreamExit(s, w) \/ StreamFail(s, w)
    BY <2>1, ReleaseTypes
    DEF IInv, TypeOK, StreamExit, StreamFail, Suspend, StreamStates, Threads, callVars
  <2>2. CASE StreamEnter(s, w)
    BY <2>2, StreamEnterInv DEF IInv
  <2>3. CASE StreamNext(s, w) \/ StreamRefused(s, w) \/ StreamChunk(s, w) \/ StreamStop(s, w)
    BY <2>3 DEF IInv, TypeOK, StreamNext, StreamRefused, StreamChunk, StreamStop, Suspend,
                StreamStates, callVars, locks
  <2>4. QED
    BY <2>1, <2>2, <2>3 DEF WorkerStep
<1>a. CASE StreamNext(s, w) \/ StreamRefused(s, w) \/ StreamChunk(s, w) \/ StreamStop(s, w)
  <2>1. ActiveStreams' = ActiveStreams
    BY <1>a DEF IInv, TypeOK, StreamNext, StreamRefused, StreamChunk, StreamStop, Suspend,
                ActiveStreams, Active
  <2>2. QED
    BY <1>1, <1>a, <2>1, QuietStepInv
    DEF StreamNext, StreamRefused, StreamChunk, StreamStop
<1>b. CASE StreamEnter(s, w)
  BY <1>b, StreamEnterInv
<1>c. CASE StreamExit(s, w) \/ StreamFail(s, w)
  <2>1. s \in ActiveStreams
    BY <1>c DEF StreamExit, StreamFail, ActiveStreams, Active
  <2>2. PICK to \in {"finished", "failed"} : stream' = [stream EXCEPT ![s] = to]
    BY <1>c DEF StreamExit, StreamFail, Suspend
  <2>3. QED
    BY <1>1, <1>c, <2>1, <2>2, LeaveInv DEF StreamExit, StreamFail, StreamStates
<1>d. QED
  BY <1>a, <1>b, <1>c DEF WorkerStep

\* The event loop finalises a generator.
LEMMA StreamDropInv ==
  ASSUME IInv, NEW s \in Streams, StreamDrop(s)
  PROVE  IInv'
<1> USE LocalModelAssumption
<1>1. TypeOK'
  BY ReleaseTypes DEF IInv, TypeOK, StreamDrop, StreamStates, Threads, callVars
<1>2. CASE Active(s)
  BY <1>1, <1>2, LeaveInv DEF StreamDrop, ActiveStreams, StreamStates
<1>3. CASE ~ Active(s)
  <2>1. ActiveStreams' = ActiveStreams
    BY <1>3 DEF IInv, TypeOK, StreamDrop, ActiveStreams, Active
  <2>2. using' = using
    BY <1>3 DEF IInv, TypeOK, UsingInv, StreamDrop
  <2>3. QED
    BY <1>1, <1>3, <2>1, <2>2, QuietStepInv DEF StreamDrop, locks
<1>4. QED
  BY <1>2, <1>3

\* Every step of a call, a worker or the event loop preserves the invariant.
LEMMA StepInv == IInv /\ [Next]_vars => IInv'
<1> SUFFICES ASSUME IInv, [Next]_vars PROVE IInv'
  OBVIOUS
<1>1. CASE \E c \in Calls : CallStep(c)
  BY <1>1, CallStepInv
<1>2. CASE \E s \in Streams, w \in Workers : StreamNext(s, w) \/ WorkerStep(s, w)
  BY <1>2, StreamStepInv
<1>3. CASE \E s \in Streams : StreamDrop(s)
  BY <1>3, StreamDropInv
<1>4. CASE UNCHANGED vars
  <2>1. ActiveStreams' = ActiveStreams /\ TypeOK'
    BY <1>4 DEF IInv, TypeOK, vars, streamVars, callVars, locks, ActiveStreams, Active
  <2>2. QED
    BY <1>4, <2>1, QuietStepInv DEF vars
<1>5. QED
  BY <1>1, <1>2, <1>3, <1>4 DEF Next
-----------------------------------------------------------------------------
(* The theorems.                                                           *)

\* The inductive invariant holds in every reachable state.
THEOREM Invariance == Spec => []IInv
<1>1. Init => IInv
  BY InitInv
<1>2. IInv /\ [Next]_vars => IInv'
  BY StepInv
<1>3. QED
  BY <1>1, <1>2, PTL DEF Spec

\* Type correctness, for any sets of requests and threads.
THEOREM TypeCorrect == Spec => []TypeOK
<1>1. IInv => TypeOK
  BY DEF IInv
<1>2. QED
  BY <1>1, Invariance, PTL

\* However streams move between worker threads and whenever clients go away, a
\* generation runs on an open, published model until it ends.
THEOREM ModelSafeInUse == Spec => []ModelInUseIsOpen
<1>1. IInv => ModelInUseIsOpen
  <2> SUFFICES ASSUME IInv PROVE ModelInUseIsOpen
    OBVIOUS
  <2>1. \A r \in Calls \cup Streams :
           using[r] # None => using[r] = model /\ model \notin closed
    BY DEF IInv, UsingInv, ModelsInv
  <2>2. \A s \in ActiveStreams : using[s] # None
    BY DEF IInv, UsingInv, ActiveStreams
  <2>3. QED
    BY <2>1, <2>2 DEF ModelInUseIsOpen
<1>2. QED
  BY <1>1, Invariance, PTL

\* Lost releases only ever make the lock count too high.
THEOREM LockCovers == Spec => []LockCoversStreams
<1>1. IInv => LockCoversStreams
  BY DEF IInv
<1>2. QED
  BY <1>1, Invariance, PTL

\* No published model is closed twice, or lost but by a close() that raised, of which the
\* caller of that unload was told.
THEOREM ModelsAccounted == Spec => []ModelsAccountedFor
<1>1. IInv => ModelsAccountedFor
  BY LocalModelAssumption
  DEF IInv, TypeOK, ModelsInv, LifecycleInv, ModelsAccountedFor
<1>2. QED
  BY <1>1, Invariance, PTL

\* Generations overlap only on a worker that has entered the lock for each of them.
THEOREM Overlaps == Spec => []OverlapsAreReentrant
<1>1. ASSUME IInv, Cardinality(InUse) > 1
      PROVE  /\ InUse \subseteq Streams
             /\ inferenceOwner \in Workers
             /\ inferenceCount >= Cardinality(InUse)
  <2>1. ASSUME NEW c \in Calls, using[c] # None
        PROVE  FALSE
    <3>1. inferenceOwner = c /\ ActiveStreams = {}
      BY <1>1, <2>1 DEF IInv, UsingInv, OwnerInv
    <3>2. \A s \in Streams : using[s] = None
      BY <1>1, <3>1 DEF IInv, UsingInv, ActiveStreams
    <3>3. \A d \in Calls : using[d] # None => d = c
      BY <1>1, <3>1 DEF IInv, UsingInv, OwnerInv
    <3>4. InUse = {c}
      BY <2>1, <3>2, <3>3 DEF InUse
    <3>5. Cardinality(InUse) = 1
      BY <3>4, FS_Singleton
    <3>6. QED
      BY <1>1, <3>5
  <2>2. InUse = ActiveStreams
    BY <1>1, <2>1 DEF IInv, UsingInv, InUse, ActiveStreams
  <2>3. inferenceCount >= Cardinality(InUse)
    BY <1>1, <2>2 DEF IInv, LockCoversStreams
  <2>4. inferenceCount # 0
    BY <1>1, <2>2, <2>3, ActiveStreamsFinite DEF IInv, TypeOK
  <2>5. ActiveStreams # {}
    BY <1>1, <2>2, FS_EmptySet
  <2>6. inferenceOwner # None /\ inferenceOwner \notin Calls
    BY <1>1, <2>4, <2>5 DEF IInv, OwnerInv
  <2>7. inferenceOwner \in Workers
    BY <1>1, <2>6 DEF IInv, TypeOK, Threads
  <2>8. QED
    BY <2>2, <2>3, <2>7 DEF ActiveStreams
<1>2. IInv => OverlapsAreReentrant
  BY <1>1 DEF OverlapsAreReentrant
<1>3. QED
  BY <1>2, Invariance, PTL
-----------------------------------------------------------------------------
(* LocalModel implements ModelLifecycle.                                   *)

\* The service starts without a model, as ModelLifecycle does.
LEMMA RefinesInit == Init => Lifecycle!Init
BY LocalModelAssumption
DEF Init, Lifecycle!Init, Lifecycle!Requests, InUse, Outcome, CallOutcome, Answered, StreamOutcome

\* A call moves no other call and no stream.
Alone(c) ==
  /\ \A d \in Calls \ {c} : /\ phase'[d] = phase[d]
                           /\ result'[d] = result[d]
                           /\ victim'[d] = victim[d]
  /\ stream' = stream

LEMMA CallAlone ==
  ASSUME IInv, NEW c \in Calls, CallStep(c)
  PROVE  Alone(c)
<1> USE DEF IInv, TypeOK, Alone, streamVars, callVars
<1>1. CASE Start(c) \/ LoadEnter(c) \/ LoadAlready(c) \/ LoadConstruct(c) \/ LoadFail(c)
  BY <1>1 DEF Start, LoadEnter, LoadAlready, LoadConstruct, LoadFail, EnterLifecycle, Return
<1>2. CASE LoadBuilt(c) \/ LoadPublish(c) \/ UnloadEnter(c) \/ UnloadRead(c)
  BY <1>2 DEF LoadBuilt, LoadPublish, UnloadEnter, UnloadRead, EnterLifecycle, Return
<1>3. CASE UnloadClear(c) \/ UnloadClose(c) \/ UnloadCloseFails(c)
  BY <1>3 DEF UnloadClear, UnloadClose, UnloadCloseFails, Return
<1>4. CASE GenerateRefused(c) \/ GenerateBegin(c) \/ GenerateEnd(c)
  BY <1>4 DEF GenerateRefused, GenerateBegin, GenerateEnd, Return
<1> QED
  BY <1>1, <1>2, <1>3, <1>4 DEF CallStep

\* The answer of call c becomes visible, and no other answer changes.
LEMMA CallAnswers ==
  ASSUME IInv, NEW c \in Calls, NEW a, Alone(c),
         ~ Answered(c), Answered(c)', result'[c] = a
  PROVE  Lifecycle!Answer(c, a)
<1> USE LocalModelAssumption
<1>1. Outcome[c] = "pending"
  BY DEF Outcome, CallOutcome
<1>2. \A r \in Calls : CallOutcome(r)' = IF r = c THEN a ELSE CallOutcome(r)
  BY DEF CallOutcome, Answered, Alone
<1>3. \A r \in Streams : StreamOutcome(r)' = StreamOutcome(r)
  BY DEF StreamOutcome, Alone
<1>4. Outcome' = [Outcome EXCEPT ![c] = a]
  BY <1>2, <1>3 DEF Outcome
<1>5. QED
  BY <1>1, <1>4 DEF Lifecycle!Answer

\* No answer becomes visible.
LEMMA CallSilent ==
  ASSUME IInv, NEW c \in Calls, Alone(c),
         \/ ~ Answered(c) /\ ~ Answered(c)'
         \/ Answered(c) /\ Answered(c)' /\ result'[c] = result[c]
  PROVE  Outcome' = Outcome
<1> USE LocalModelAssumption
<1>1. \A r \in Calls : CallOutcome(r)' = CallOutcome(r)
  BY DEF CallOutcome, Answered, Alone
<1>2. \A r \in Streams : StreamOutcome(r)' = StreamOutcome(r)
  BY DEF StreamOutcome, Alone
<1>3. QED
  BY <1>1, <1>2 DEF Outcome

\* While a call is in the lifecycle lock and closes nothing, nothing is being closed.
LEMMA NobodyCloses ==
  ASSUME IInv, NEW c \in Calls, phase[c] \in LifecyclePhases \ {"closing"}
  PROVE  \A u \in Calls : victim[u] = None
BY DEF IInv, ModelsInv, LifecycleInv, LifecyclePhases

\* A step of a blocking call is a step of ModelLifecycle or changes nothing in it.
LEMMA CallStepRefines ==
  ASSUME IInv, NEW c \in Calls, CallStep(c)
  PROVE  \/ Lifecycle!LoadNew(c) \/ Lifecycle!LoadAgain(c) \/ Lifecycle!LoadFails(c)
         \/ Lifecycle!TakeOut(c) \/ Lifecycle!UnloadNothing(c)
         \/ \E m \in Calls : Lifecycle!Retire(c, m) \/ Lifecycle!RetireFails(c, m)
         \/ Lifecycle!Begin(c) \/ Lifecycle!Refuse(c) \/ Lifecycle!End(c)
         \/ UNCHANGED <<model, victim, closed, InUse, Outcome>>
<1> USE LocalModelAssumption
<1> USE DEF Results, Phases, streamVars, callVars, locks
<1>0. TypeOK /\ Alone(c)
  BY CallAlone DEF IInv
<1>1. inferenceOwner = None => InUse = {}
  BY FreeLockMeansQuiet DEF InUse
<1>2. using' = using => InUse' = InUse
  BY DEF InUse
<1>a. CASE Start(c) \/ LoadEnter(c) \/ LoadConstruct(c) \/ LoadBuilt(c) \/ UnloadEnter(c) \/ UnloadRead(c)
  <2>1. ~ Answered(c) /\ ~ Answered(c)'
    BY <1>0, <1>a DEF Start, LoadEnter, LoadConstruct, LoadBuilt, UnloadEnter, UnloadRead,
                      EnterLifecycle, Answered, TypeOK
  <2>2. UNCHANGED <<model, victim, closed, using>>
    BY <1>a DEF Start, LoadEnter, LoadConstruct, LoadBuilt, UnloadEnter, UnloadRead
  <2>3. QED
    BY <1>0, <1>2, <2>1, <2>2, CallSilent
<1>b. CASE LoadAlready(c)
  <2>1. ~ Answered(c) /\ Answered(c)' /\ result'[c] = "already_loaded"
    BY <1>0, <1>b DEF LoadAlready, Return, Answered, TypeOK
  <2>2. Lifecycle!LoadAgain(c)
    BY <1>0, <1>2, <1>b, <2>1, CallAnswers DEF LoadAlready, Lifecycle!LoadAgain
  <2>3. QED
    BY <2>2
<1>c. CASE LoadFail(c)
  <2>1. ~ Answered(c) /\ Answered(c)' /\ result'[c] = "load_failed"
    BY <1>0, <1>c DEF LoadFail, Return, Answered, TypeOK
  <2>2. model = None
    BY <1>c DEF LoadFail, IInv, LifecycleInv
  <2>3. Lifecycle!LoadFails(c)
    BY <1>0, <1>2, <1>c, <2>1, <2>2, CallAnswers DEF LoadFail, Lifecycle!LoadFails
  <2>4. QED
    BY <2>3
<1>d. CASE LoadPublish(c)
  <2>1. ~ Answered(c) /\ Answered(c)' /\ result'[c] = "loaded"
    BY <1>0, <1>d DEF LoadPublish, Return, Answered, TypeOK
  <2>2. model = None
    BY <1>d DEF LoadPublish, IInv, LifecycleInv
  <2>3. \A u \in Calls : victim[u] = None
    BY <1>d, NobodyCloses DEF LoadPublish, LifecyclePhases
  <2>4. Lifecycle!LoadNew(c)
    BY <1>0, <1>2, <1>d, <2>1, <2>2, <2>3, CallAnswers
    DEF LoadPublish, Lifecycle!LoadNew, Lifecycle!NothingLeaves
  <2>5. QED
    BY <2>4
<1>e. CASE UnloadClear(c)
  <2>1. InUse = {} /\ \A u \in Calls : victim[u] = None
    BY <1>1, <1>e, CallAcquiresFreeLock, NobodyCloses
    DEF UnloadClear, AcquireInference, LifecyclePhases
  <2>2. /\ result[c] = IF model # None THEN "unloaded" ELSE "not_loaded"
        /\ result' = result
    BY <1>e DEF UnloadClear, IInv, ResultInv
  <2>3. /\ ~ Answered(c) /\ Outcome[c] = "pending"
        /\ phase'[c] = "closing" /\ victim'[c] = model
    BY <1>0, <1>e DEF UnloadClear, Answered, TypeOK, Outcome, CallOutcome
  <2>4. CASE model # None
    <3>1. Outcome' = Outcome
      BY <1>0, <2>3, <2>4, CallSilent DEF Answered
    <3>2. Lifecycle!TakeOut(c)
      BY <1>2, <1>e, <2>1, <2>3, <2>4, <3>1
      DEF UnloadClear, Lifecycle!TakeOut, Lifecycle!NothingLeaves
    <3> QED
      BY <3>2
  <2>5. CASE model = None
    <3>1. Lifecycle!Answer(c, "not_loaded")
      BY <1>0, <2>2, <2>3, <2>5, CallAnswers DEF Answered
    <3>2. victim' = victim
      BY <1>0, <1>e, <2>1, <2>5 DEF UnloadClear, TypeOK
    <3>3. Lifecycle!UnloadNothing(c)
      BY <1>2, <1>e, <2>5, <3>1, <3>2 DEF UnloadClear, Lifecycle!UnloadNothing
    <3> QED
      BY <3>3
  <2>6. QED
    BY <2>4, <2>5
<1>f. CASE UnloadClose(c) /\ victim[c] = None
  <2>1. Answered(c) /\ Answered(c)' /\ result'[c] = result[c]
    BY <1>0, <1>f DEF UnloadClose, Answered, TypeOK
  <2>2. Outcome' = Outcome
    BY <1>0, <2>1, CallSilent
  <2>3. UNCHANGED <<model, victim, closed, using>>
    BY <1>0, <1>f DEF UnloadClose, TypeOK
  <2>4. QED
    BY <1>2, <2>2, <2>3
<1>g. CASE (UnloadClose(c) \/ UnloadCloseFails(c)) /\ victim[c] # None
  <2>1. phase[c] = "closing" /\ phase'[c] = "returned" /\ ~ Answered(c) /\ Answered(c)'
    BY <1>0, <1>g DEF UnloadClose, UnloadCloseFails, Return, Answered, TypeOK
  <2>2. /\ victim[c] \in Calls \ closed
        /\ Outcome[victim[c]] = "loaded"
    BY <1>0, <1>g DEF IInv, TypeOK, ModelsInv, ResultInv, Outcome, CallOutcome, Answered
  <2>3. model = None /\ InUse = {}
    BY <2>1 DEF IInv, LifecycleInv, UsingInv, InUse
  <2>4. /\ UNCHANGED <<model, using>>
        /\ victim' = [victim EXCEPT ![c] = None]
    BY <1>g DEF UnloadClose, UnloadCloseFails
  <2>5. Lifecycle!Leaves(c, victim[c])
    BY <1>2, <2>2, <2>3, <2>4 DEF Lifecycle!Leaves
  <2>6. CASE UnloadClose(c)
    <3>1. result'[c] = "unloaded" /\ closed' = closed \cup {victim[c]}
      BY <1>g, <2>6, <2>1 DEF UnloadClose, IInv, ResultInv
    <3>2. Lifecycle!Retire(c, victim[c])
      BY <1>0, <2>1, <2>5, <3>1, CallAnswers DEF Lifecycle!Retire
    <3> QED
      BY <2>2, <3>2
  <2>7. CASE UnloadCloseFails(c)
    <3>1. result'[c] = "unload_failed" /\ closed' = closed
      BY <1>0, <2>7 DEF UnloadCloseFails, Return, TypeOK
    <3>2. Lifecycle!RetireFails(c, victim[c])
      BY <1>0, <2>1, <2>5, <3>1, CallAnswers DEF Lifecycle!RetireFails
    <3> QED
      BY <2>2, <3>2
  <2>8. QED
    BY <1>g, <2>6, <2>7
<1>h. CASE GenerateRefused(c)
  <2>1. ~ Answered(c) /\ Answered(c)' /\ result'[c] = "refused"
    BY <1>0, <1>h DEF GenerateRefused, Return, Answered, TypeOK
  <2>2. Lifecycle!Refuse(c)
    BY <1>0, <1>2, <1>h, <2>1, CallAnswers DEF GenerateRefused, Lifecycle!Refuse
  <2>3. QED
    BY <2>2
<1>i. CASE GenerateBegin(c)
  <2>1. ~ Answered(c) /\ ~ Answered(c)'
    BY <1>0, <1>i DEF GenerateBegin, Answered, TypeOK
  <2>2. Outcome' = Outcome
    BY <1>0, <2>1, CallSilent
  <2>3. c \notin InUse /\ Outcome[c] = "pending"
    BY <1>0, <1>i, <2>1 DEF GenerateBegin, IInv, UsingInv, InUse, Outcome, CallOutcome
  <2>4. InUse' = InUse \cup {c}
    BY <1>0, <1>i DEF GenerateBegin, InUse, TypeOK
  <2>5. Lifecycle!Begin(c)
    BY <1>i, <2>2, <2>3, <2>4 DEF GenerateBegin, Lifecycle!Begin
  <2>6. QED
    BY <2>5
<1>j. CASE GenerateEnd(c)
  <2>1. ~ Answered(c) /\ Answered(c)' /\ result'[c] = "ended"
    BY <1>0, <1>j DEF GenerateEnd, Return, Answered, TypeOK
  <2>2. InUse' = InUse \ {c}
    BY <1>0, <1>j DEF GenerateEnd, InUse, TypeOK
  <2>3. Lifecycle!End(c)
    BY <1>0, <1>j, <2>1, <2>2, CallAnswers DEF GenerateEnd, Lifecycle!End
  <2>4. QED
    BY <2>3
<1>k. QED
  BY <1>a, <1>b, <1>c, <1>d, <1>e, <1>f, <1>g, <1>h, <1>i, <1>j
  DEF CallStep, UnloadCloseFails

\* Stream s moves to state to, and no call changes.
LEMMA StreamAnswers ==
  ASSUME IInv, NEW s \in Streams, NEW to \in StreamStates, UNCHANGED callVars,
         stream' = [stream EXCEPT ![s] = to]
  PROVE  Outcome' = [Outcome EXCEPT ![s] =
           IF to = "refused" THEN "refused"
           ELSE IF to \in {"finished", "failed", "dropped"} THEN "ended" ELSE "pending"]
<1> USE LocalModelAssumption DEF IInv, TypeOK, callVars
<1>1. \A r \in Calls : CallOutcome(r)' = CallOutcome(r)
  BY DEF CallOutcome, Answered
<1>2. \A r \in Streams \ {s} : StreamOutcome(r)' = StreamOutcome(r)
  BY DEF StreamOutcome
<1>3. StreamOutcome(s)' = IF to = "refused" THEN "refused"
           ELSE IF to \in {"finished", "failed", "dropped"} THEN "ended" ELSE "pending"
  BY DEF StreamOutcome
<1>4. QED
  BY <1>1, <1>2, <1>3 DEF Outcome

\* A stream that is still alive has no answer yet.
LEMMA StreamPending ==
  ASSUME NEW s \in Streams, stream[s] \in {"new", "open", "stopped"}
  PROVE  Outcome[s] = "pending"
BY LocalModelAssumption DEF Outcome, StreamOutcome

\* A worker's step of a generator is a step of ModelLifecycle or changes nothing in it.
LEMMA StreamStepRefines ==
  ASSUME IInv, NEW s \in Streams,
         StreamDrop(s) \/ \E w \in Workers : StreamNext(s, w) \/ WorkerStep(s, w)
  PROVE  \/ Lifecycle!Begin(s) \/ Lifecycle!Refuse(s) \/ Lifecycle!End(s)
         \/ UNCHANGED <<model, victim, closed, InUse, Outcome>>
<1> USE LocalModelAssumption DEF StreamStates, callVars
<1>0. TypeOK
  BY DEF IInv
<1>1. using' = using => InUse' = InUse
  BY DEF InUse
<1>2. stream[s] \in {"new", "open", "stopped"}
  BY DEF StreamNext, WorkerStep, StreamRefused, StreamEnter, StreamChunk, StreamStop,
         StreamExit, StreamFail, StreamDrop
<1>3. Outcome[s] = "pending"
  BY <1>2, StreamPending
<1>4. [Outcome EXCEPT ![s] = "pending"] = Outcome
  BY <1>3 DEF Outcome
<1>a. CASE \E w \in Workers : StreamNext(s, w)
  BY <1>1, <1>a DEF StreamNext, Outcome, CallOutcome, Answered, StreamOutcome
<1>b. CASE \E w \in Workers : StreamRefused(s, w)
  <2>1. Lifecycle!Refuse(s)
    BY <1>1, <1>3, <1>b, StreamAnswers
    DEF StreamRefused, Suspend, Lifecycle!Refuse, Lifecycle!Answer
  <2>2. QED
    BY <2>1
<1>c. CASE \E w \in Workers : StreamEnter(s, w)
  <2>1. Outcome' = Outcome
    BY <1>4, <1>c, StreamAnswers DEF StreamEnter
  <2>2. s \notin InUse
    BY <1>c DEF StreamEnter, IInv, UsingInv, Active, InUse
  <2>3. InUse' = InUse \cup {s}
    BY <1>0, <1>c DEF StreamEnter, InUse, TypeOK
  <2>4. Lifecycle!Begin(s)
    BY <1>3, <1>c, <2>1, <2>2, <2>3 DEF StreamEnter, Lifecycle!Begin
  <2>5. QED
    BY <2>4
<1>d. CASE \E w \in Workers : StreamChunk(s, w) \/ StreamStop(s, w)
  <2>1. Outcome' = Outcome
    BY <1>4, <1>d, StreamAnswers DEF StreamChunk, StreamStop, Suspend
  <2>2. QED
    BY <1>1, <1>d, <2>1 DEF StreamChunk, StreamStop
<1>e. CASE StreamDrop(s) \/ \E w \in Workers : StreamExit(s, w) \/ StreamFail(s, w)
  <2>1. PICK to \in {"finished", "failed", "dropped"} : stream' = [stream EXCEPT ![s] = to]
    BY <1>e DEF StreamExit, StreamFail, StreamDrop, Suspend
  <2>2. Outcome' = [Outcome EXCEPT ![s] = "ended"]
    BY <1>e, <2>1, StreamAnswers DEF StreamExit, StreamFail, StreamDrop
  <2>3. InUse' = InUse \ {s}
    BY <1>0, <1>e DEF StreamExit, StreamFail, StreamDrop, InUse, TypeOK
  <2>4. Lifecycle!End(s)
    BY <1>3, <1>e, <2>2, <2>3
    DEF StreamExit, StreamFail, StreamDrop, Lifecycle!End, Lifecycle!Answer
  <2>5. QED
    BY <2>4
<1>f. QED
  BY <1>a, <1>b, <1>c, <1>d, <1>e DEF WorkerStep

\* Every operation of LLMService takes effect atomically: the threads and
\* locks of LocalModel implement ModelLifecycle.
THEOREM Refinement == Spec => LifecycleIsAtomic
<1>1. Init => Lifecycle!Init
  BY RefinesInit
<1>2. IInv /\ [Next]_vars => [Lifecycle!Next]_(Lifecycle!lifecycleVars)
  <2> SUFFICES ASSUME IInv, [Next]_vars
               PROVE  [Lifecycle!Next]_(Lifecycle!lifecycleVars)
    OBVIOUS
  <2>1. CASE \E c \in Calls : CallStep(c)
    BY <2>1, CallStepRefines
    DEF Lifecycle!Next, Lifecycle!Requests, Lifecycle!lifecycleVars
  <2>2. CASE \E s \in Streams : \/ StreamDrop(s)
                               \/ \E w \in Workers : StreamNext(s, w) \/ WorkerStep(s, w)
    BY <2>2, StreamStepRefines
    DEF Lifecycle!Next, Lifecycle!Requests, Lifecycle!lifecycleVars
  <2>3. CASE UNCHANGED vars
    BY <2>3 DEF vars, callVars, streamVars, InUse, Outcome, CallOutcome, Answered, StreamOutcome,
                Lifecycle!lifecycleVars
  <2>4. QED
    BY <2>1, <2>2, <2>3 DEF Next
<1>3. QED
  BY <1>1, <1>2, Invariance, PTL DEF Spec, LifecycleIsAtomic, Lifecycle!Spec

-----------------------------------------------------------------------------
(* What the releases by the wrong thread cost.                             *)

\* The streams that ended badly: those whose release may have been lost.
Lost == {s \in Streams : stream[s] \in {"failed", "dropped"}}

\* At most one entry of the lock is left behind by each of them.
LeaksCounted ==
  inferenceOwner \notin Calls =>
    inferenceCount <= Cardinality(ActiveStreams) + Cardinality(Lost)

LEMMA LostFinite ==
  IsFiniteSet(Lost) /\ Cardinality(Lost) \in Nat
<1>1. Lost \subseteq Streams
  BY DEF Lost
<1> QED
  BY <1>1, FS_Subset, FS_CardinalityType, LocalModelAssumption

\* A stream that leaves its `with` takes its entry along, or is counted as lost.
LEMMA LeaveCounts ==
  ASSUME IInv, LeaksCounted, NEW s \in ActiveStreams, NEW t \in Workers \cup {Loop},
         NEW to \in {"finished", "failed", "dropped"},
         stream' = [stream EXCEPT ![s] = to],
         ReleaseInference(t),
         to = "finished" => inferenceOwner = t
  PROVE  LeaksCounted'
<1> USE LocalModelAssumption
<1>1. /\ s \in Streams /\ ActiveStreams' = ActiveStreams \ {s}
      /\ Lost' = IF to = "finished" THEN Lost ELSE Lost \cup {s}
      /\ s \notin Lost
  BY DEF IInv, TypeOK, ActiveStreams, Active, Lost
<1>2. /\ Cardinality(ActiveStreams') = Cardinality(ActiveStreams) - 1
      /\ Cardinality(ActiveStreams) \in Nat
  BY <1>1, ActiveStreamsFinite, FS_RemoveElement
<1>3. /\ Cardinality(Lost') = Cardinality(Lost) + (IF to = "finished" THEN 0 ELSE 1)
      /\ Cardinality(Lost) \in Nat
  <2>1. Cardinality(Lost \cup {s}) = Cardinality(Lost) + 1 /\ Cardinality(Lost) \in Nat
    BY <1>1, LostFinite, FS_AddElement
  <2> QED
    BY <1>1, <2>1
<1>4. inferenceOwner \notin Calls /\ inferenceCount \in Nat
  BY DEF IInv, TypeOK, OwnerInv
<1>5. CASE inferenceOwner = t
  <2>1. inferenceCount' = inferenceCount - 1
    BY <1>5 DEF ReleaseInference
  <2>2. inferenceCount - 1 <= (Cardinality(ActiveStreams) - 1) + Cardinality(Lost)
    BY <1>2, <1>3, <1>4 DEF LeaksCounted
  <2> QED
    BY <1>2, <1>3, <1>4, <2>1, <2>2 DEF LeaksCounted
<1>6. CASE inferenceOwner # t
  <2>1. inferenceCount' = inferenceCount /\ to # "finished"
    BY <1>6 DEF ReleaseInference
  <2> QED
    BY <1>2, <1>3, <1>4, <2>1 DEF LeaksCounted
<1> QED
  BY <1>5, <1>6

\* A step of a call takes a free lock, gives up one that it holds alone, or leaves it.
LEMMA CallCounts ==
  ASSUME IInv, LeaksCounted, NEW c \in Calls, CallStep(c)
  PROVE  LeaksCounted'
<1> USE LocalModelAssumption
<1>1. UNCHANGED streamVars
  BY DEF CallStep, Start, LoadEnter, LoadAlready, LoadConstruct, LoadFail, LoadBuilt,
         LoadPublish, UnloadEnter, UnloadRead, UnloadClear, UnloadClose, UnloadCloseFails,
         GenerateRefused, GenerateBegin, GenerateEnd
<1>2. Lost' = Lost /\ ActiveStreams' = ActiveStreams
  BY <1>1 DEF Lost, ActiveStreams, Active, streamVars
<1>3. \/ UNCHANGED <<inferenceOwner, inferenceCount>>
      \/ inferenceOwner' = c
      \/ ReleaseInference(c)
  BY DEF CallStep, Start, LoadEnter, LoadAlready, LoadConstruct, LoadFail, LoadBuilt,
         LoadPublish, UnloadEnter, UnloadRead, UnloadClear, UnloadClose, UnloadCloseFails,
         GenerateRefused, GenerateBegin, GenerateEnd, AcquireInference, EnterLifecycle, locks
<1>4. CASE UNCHANGED <<inferenceOwner, inferenceCount>>
  BY <1>2, <1>4 DEF LeaksCounted
<1>5. CASE inferenceOwner' = c
  BY <1>5 DEF LeaksCounted
<1>6. CASE ReleaseInference(c)
  <2>1. CASE inferenceOwner = c
    <3>1. inferenceCount' = 0
      BY <1>6, <2>1 DEF ReleaseInference, IInv, OwnerInv
    <3> QED
      BY <1>2, <3>1, ActiveStreamsFinite, LostFinite DEF LeaksCounted
  <2>2. CASE inferenceOwner # c
    BY <1>2, <1>6, <2>2 DEF ReleaseInference, LeaksCounted
  <2> QED
    BY <2>1, <2>2
<1> QED
  BY <1>3, <1>4, <1>5, <1>6

\* A step of a worker, or of the event loop.
LEMMA StreamCounts ==
  ASSUME IInv, LeaksCounted, NEW s \in Streams,
         \/ \E w \in Workers : StreamNext(s, w) \/ WorkerStep(s, w)
         \/ StreamDrop(s)
  PROVE  LeaksCounted'
<1> USE LocalModelAssumption
<1>1. ASSUME NEW w \in Workers, StreamExit(s, w) \/ StreamFail(s, w)
      PROVE  LeaksCounted'
  <2>1. s \in ActiveStreams /\ ReleaseInference(w)
    BY <1>1 DEF StreamExit, StreamFail, ActiveStreams, Active
  <2>2. \E to \in {"finished", "failed"} : /\ stream' = [stream EXCEPT ![s] = to]
                                           /\ to = "finished" => inferenceOwner = w
    BY <1>1 DEF StreamExit, StreamFail, Suspend
  <2> QED
    BY <2>1, <2>2, LeaveCounts
<1>2. CASE StreamDrop(s) /\ Active(s)
  BY <1>2, LeaveCounts DEF StreamDrop, ActiveStreams
<1>3. ASSUME NEW w \in Workers, StreamEnter(s, w)
      PROVE  LeaksCounted'
  <2>1. /\ s \notin ActiveStreams /\ ActiveStreams' = ActiveStreams \cup {s}
        /\ Lost' = Lost
    BY <1>3 DEF IInv, TypeOK, StreamEnter, ActiveStreams, Active, Lost
  <2>2. Cardinality(ActiveStreams') = Cardinality(ActiveStreams) + 1
    BY <2>1, ActiveStreamsFinite, FS_AddElement
  <2>3. inferenceCount' = inferenceCount + 1 /\ inferenceOwner \notin Calls
    BY <1>3 DEF StreamEnter, AcquireInference, InferenceFree
  <2> QED
    BY <2>1, <2>2, <2>3, ActiveStreamsFinite, LostFinite DEF LeaksCounted, IInv, TypeOK
<1>4. CASE \/ \E w \in Workers : \/ StreamNext(s, w) \/ StreamRefused(s, w)
                                 \/ StreamChunk(s, w) \/ StreamStop(s, w)
           \/ StreamDrop(s) /\ ~ Active(s)
  <2>1. UNCHANGED <<inferenceOwner, inferenceCount>>
    BY <1>4 DEF StreamNext, StreamRefused, StreamChunk, StreamStop, StreamDrop, locks
  <2>2. ActiveStreams' = ActiveStreams /\ Lost \subseteq Lost'
    BY <1>4 DEF IInv, TypeOK, StreamNext, StreamRefused, StreamChunk, StreamStop, StreamDrop,
       Suspend, ActiveStreams, Active, Lost
  <2>3. IsFiniteSet(Lost')
    <3>1. Lost' \subseteq Streams
      BY DEF Lost
    <3> QED
      BY <3>1, FS_Subset
  <2>4. /\ Cardinality(Lost) <= Cardinality(Lost')
        /\ Cardinality(Lost) \in Nat /\ Cardinality(Lost') \in Nat
    BY <2>2, <2>3, LostFinite, FS_Subset, FS_CardinalityType
  <2> QED
    BY <2>1, <2>2, <2>4, ActiveStreamsFinite DEF LeaksCounted, IInv, TypeOK
<1> QED
  BY <1>1, <1>2, <1>3, <1>4 DEF WorkerStep

\* The lock is held at most once more for every stream that failed or was dropped:
\* with LockCovers, its count is exact while none has.
THEOREM LeaksAreCounted == Spec => []LeaksCounted
<1>1. Init => LeaksCounted
  BY ActiveStreamsFinite, LostFinite DEF Init, LeaksCounted
<1>2. IInv /\ LeaksCounted /\ [Next]_vars => LeaksCounted'
  <2> SUFFICES ASSUME IInv, LeaksCounted, [Next]_vars PROVE LeaksCounted'
    OBVIOUS
  <2>1. CASE UNCHANGED vars
    BY <2>1 DEF vars, locks, streamVars, LeaksCounted, ActiveStreams, Active, Lost
  <2>2. CASE Next
    BY <2>2, CallCounts, StreamCounts DEF Next
  <2> QED
    BY <2>1, <2>2
<1> QED
  BY <1>1, <1>2, Invariance, PTL DEF Spec

\* What llm_service.py:265 promises holds as long as no stream has failed or lost its
\* client: then an unload that waits, waits for a generation that is under way.
THEOREM WaitsAreHonest == Spec => [](Lost = {} => UnloadWaitsForGenerationOnly)
<1>1. IInv /\ LeaksCounted => (Lost = {} => UnloadWaitsForGenerationOnly)
  <2> SUFFICES ASSUME IInv, LeaksCounted, Lost = {}, NEW c \in Calls,
                      phase[c] = "draining", inferenceOwner # None
               PROVE  InUse # {}
    BY DEF UnloadWaitsForGenerationOnly
  <2>1. CASE inferenceOwner \in Calls
    <3>1. PICK d \in Calls : inferenceOwner = d
      BY <2>1
    <3>2. phase[d] \in {"closing", "generating"}
      BY <3>1 DEF IInv, OwnerInv
    <3>3. phase[d] # "closing"
      BY <3>2 DEF IInv, LifecycleInv, LifecyclePhases
    <3>4. using[d] # None
      BY <3>2, <3>3 DEF IInv, UsingInv
    <3> QED
      BY <3>4 DEF InUse
  <2>2. CASE inferenceOwner \notin Calls
    <3>1. inferenceCount # 0 /\ inferenceCount \in Nat
      BY DEF IInv, OwnerInv, TypeOK
    <3>2. Cardinality(Lost) = 0
      BY FS_EmptySet
    <3>3. Cardinality(ActiveStreams) # 0
      BY <2>2, <3>1, <3>2, ActiveStreamsFinite DEF LeaksCounted
    <3>4. PICK s \in ActiveStreams : TRUE
      BY <3>3, FS_EmptySet
    <3>5. s \in Streams /\ using[s] # None
      BY DEF IInv, UsingInv, ActiveStreams
    <3> QED
      BY <3>5 DEF InUse
  <2> QED
    BY <2>1, <2>2
<1> QED
  BY <1>1, LeaksAreCounted, Invariance, PTL

-----------------------------------------------------------------------------
(* Who waits for whom.                                                     *)

\* A call that has been asked and not answered.
Pending(c) == phase[c] \notin {"new", "returned"}

\* A pending call has a step to take unless it waits for a lock: the guards of its
\* actions.
CallCanMove(c) ==
  \/ phase[c] \in {"load_check", "constructing", "unload_read", "closing", "generating"}
  \/ phase[c] \in {"load_wait", "unload_wait"} /\ lifecycleOwner = None
  \/ phase[c] \in {"publishing", "draining", "generate_wait"} /\ InferenceFree(c)

\* A generator can be advanced by the worker that runs it, or handed to one that is free.
StreamCanMove(s) ==
  /\ stream[s] \in {"new", "open", "stopped"}
  /\ \/ \E w \in Workers : runs[w] = s /\ (Active(s) \/ InferenceFree(w))
     \/ ~ Executing(s) /\ \E w \in Workers : runs[w] = None

\* A generator that is inside the lock, or that a worker runs.
UnderWay(s) == Active(s) \/ Executing(s)

\* The lifecycle lock is held by a call that is in it, and a worker runs a generator
\* that has not ended, of its own.
HeldInv ==
  /\ \A c \in Calls : lifecycleOwner = c => phase[c] \in LifecyclePhases
  /\ \A w \in Workers : runs[w] # None => stream[runs[w]] \in {"new", "open", "stopped"}
  /\ \A v, w \in Workers : runs[v] = runs[w] /\ runs[w] # None => v = w

\* As long as something is under way somebody can move, or a release was lost and a
\* worker holds the inference lock for nobody.
SomebodyMoves ==
  (\E c \in Calls : Pending(c)) \/ (\E s \in Streams : UnderWay(s)) =>
    \/ \E c \in Calls : CallCanMove(c)
    \/ \E s \in Streams : UnderWay(s) /\ StreamCanMove(s)
    \/ inferenceOwner \in Workers /\ ActiveStreams = {} /\ Lost # {}

LEMMA HeldStep ==
  ASSUME IInv, HeldInv, [Next]_vars
  PROVE  HeldInv'
<1> USE LocalModelAssumption
<1>1. CASE UNCHANGED vars
  BY <1>1 DEF vars, locks, callVars, streamVars, HeldInv
<1>2. ASSUME NEW c \in Calls, CallStep(c)
      PROVE  HeldInv'
  <2>1. UNCHANGED <<stream, runs>>
    BY <1>2 DEF CallStep, Start, LoadEnter, LoadAlready, LoadConstruct, LoadFail, LoadBuilt,
       LoadPublish, UnloadEnter, UnloadRead, UnloadClear, UnloadClose, UnloadCloseFails,
       GenerateRefused, GenerateBegin, GenerateEnd, streamVars
  <2>2. /\ \A d \in Calls \ {c} : phase'[d] = phase[d]
        /\ \/ lifecycleOwner' = None
           \/ lifecycleOwner' = c /\ phase'[c] \in LifecyclePhases
           \/ /\ lifecycleOwner' = lifecycleOwner
              /\ phase[c] \in LifecyclePhases => phase'[c] \in LifecyclePhases
    BY <1>2 DEF CallStep, Start, LoadEnter, LoadAlready, LoadConstruct, LoadFail, LoadBuilt,
       LoadPublish, UnloadEnter, UnloadRead, UnloadClear, UnloadClose, UnloadCloseFails,
       GenerateRefused, GenerateBegin, GenerateEnd, EnterLifecycle, Return, locks, LifecyclePhases, IInv, TypeOK
  <2> QED
    BY <2>1, <2>2 DEF HeldInv
<1>3. ASSUME NEW s \in Streams, NEW w \in Workers, StreamNext(s, w)
      PROVE  HeldInv'
  BY <1>3 DEF StreamNext, Executing, locks, callVars, HeldInv, IInv, TypeOK
<1>4. ASSUME NEW s \in Streams, NEW w \in Workers, StreamEnter(s, w)
      PROVE  HeldInv'
  BY <1>4 DEF StreamEnter, locks, callVars, HeldInv, IInv, TypeOK
<1>5. ASSUME NEW s \in Streams, NEW w \in Workers,
             \/ StreamRefused(s, w) \/ StreamChunk(s, w) \/ StreamStop(s, w)
             \/ StreamExit(s, w) \/ StreamFail(s, w)
      PROVE  HeldInv'
  <2>1. /\ runs[w] = s /\ runs' = [runs EXCEPT ![w] = None]
        /\ \E to \in StreamStates : stream' = [stream EXCEPT ![s] = to]
        /\ UNCHANGED <<lifecycleOwner, phase>>
    BY <1>5 DEF StreamRefused, StreamChunk, StreamStop, StreamExit, StreamFail, Suspend,
       StreamStates, locks, callVars
  <2> QED
    BY <2>1 DEF HeldInv, IInv, TypeOK
<1>6. ASSUME NEW s \in Streams, StreamDrop(s)
      PROVE  HeldInv'
  BY <1>6 DEF StreamDrop, Executing, callVars, HeldInv, IInv, TypeOK
<1> QED
  BY <1>1, <1>2, <1>3, <1>4, <1>5, <1>6 DEF Next, WorkerStep

\* Two locks that are always taken in one order, one of them re-entrant: neither
\* calls nor generators, on however few workers, can all wait for each other.
THEOREM NoCyclicWait == Spec => []SomebodyMoves
<1> USE LocalModelAssumption
<1>1. Init => HeldInv
  BY DEF Init, HeldInv
<1>2. IInv /\ HeldInv /\ [Next]_vars => HeldInv'
  BY HeldStep
<1>3. ASSUME IInv, HeldInv, LeaksCounted,
             (\E c \in Calls : Pending(c)) \/ (\E s \in Streams : UnderWay(s))
      PROVE  \/ \E c \in Calls : CallCanMove(c)
             \/ \E s \in Streams : UnderWay(s) /\ StreamCanMove(s)
             \/ inferenceOwner \in Workers /\ ActiveStreams = {} /\ Lost # {}
  <2>1. CASE ActiveStreams # {}
    <3>1. PICK s \in Streams : Active(s)
      BY <2>1 DEF ActiveStreams
    <3>2. inferenceOwner \in Workers
      BY <1>3, <2>1, FreeLockMeansQuiet DEF IInv, TypeOK, OwnerInv, Threads
    <3>3. PICK w \in Workers : inferenceOwner = w
      BY <3>2
    <3>4. CASE runs[w] = None
      BY <3>1, <3>4 DEF StreamCanMove, Executing, Active, UnderWay
    <3>5. CASE runs[w] # None
      <4>1. /\ runs[w] \in Streams
            /\ stream[runs[w]] \in {"new", "open", "stopped"}
        BY <1>3, <3>5 DEF IInv, TypeOK, HeldInv
      <4>2. InferenceFree(w)
        BY <3>3 DEF InferenceFree
      <4>3. StreamCanMove(runs[w]) /\ UnderWay(runs[w])
        BY <4>1, <4>2 DEF StreamCanMove, Executing, UnderWay
      <4> QED
        BY <4>1, <4>3
    <3> QED
      BY <3>4, <3>5
  <2>2. CASE ActiveStreams = {} /\ inferenceOwner \in Workers
    <3>1. inferenceCount \in Nat /\ inferenceCount # 0 /\ inferenceOwner \notin Calls
      BY <1>3, <2>2 DEF IInv, TypeOK, OwnerInv
    <3>2. Cardinality(ActiveStreams) = 0
      BY <2>2, FS_EmptySet
    <3>3. Cardinality(Lost) # 0
      BY <1>3, <3>1, <3>2, LostFinite DEF LeaksCounted
    <3>4. Lost # {}
      BY <3>3, FS_EmptySet
    <3> QED
      BY <2>2, <3>4
  <2>3. CASE inferenceOwner \in Calls
    <3>1. PICK c \in Calls : inferenceOwner = c
      BY <2>3
    <3>2. phase[c] \in {"closing", "generating"}
      BY <1>3, <3>1 DEF IInv, OwnerInv
    <3> QED
      BY <3>2 DEF CallCanMove
  <2>4. CASE ActiveStreams = {} /\ inferenceOwner = None
    <3>1. \A t \in Threads : InferenceFree(t)
      BY <2>4 DEF InferenceFree
    <3>2. ASSUME NEW c \in Calls, Pending(c)
          PROVE  \E d \in Calls : CallCanMove(d)
      <4>1. CASE phase[c] \in {"load_wait", "unload_wait"}
        <5>1. CASE lifecycleOwner = None
          BY <4>1, <5>1 DEF CallCanMove
        <5>2. CASE lifecycleOwner # None
          <6>1. PICK d \in Calls : lifecycleOwner = d
            BY <1>3, <5>2 DEF IInv, TypeOK
          <6>2. phase[d] \in LifecyclePhases
            BY <1>3, <6>1 DEF HeldInv
          <6> QED
            BY <3>1, <6>2 DEF LifecyclePhases, CallCanMove, Threads
        <5> QED
          BY <5>1, <5>2
      <4>2. CASE phase[c] \notin {"load_wait", "unload_wait"}
        <5>1. phase[c] \in Phases
          BY <1>3 DEF IInv, TypeOK
        <5> QED
          BY <3>1, <3>2, <4>2, <5>1 DEF Phases, Pending, CallCanMove, Threads
      <4> QED
        BY <4>1, <4>2
    <3>3. ASSUME NEW s \in Streams, UnderWay(s)
          PROVE  StreamCanMove(s)
      <4>1. PICK w \in Workers : runs[w] = s
        BY <2>4, <3>3 DEF ActiveStreams, Executing, UnderWay
      <4>2. stream[s] \in {"new", "open", "stopped"}
        BY <1>3, <4>1 DEF HeldInv
      <4> QED
        BY <3>1, <4>1, <4>2 DEF StreamCanMove, Threads
    <3> QED
      BY <1>3, <3>2, <3>3
  <2> QED
    BY <1>3, <2>1, <2>2, <2>3, <2>4 DEF IInv, TypeOK, Threads
<1>4. IInv /\ HeldInv /\ LeaksCounted => SomebodyMoves
  BY <1>3 DEF SomebodyMoves
<1> QED
  BY <1>1, <1>2, <1>4, Invariance, LeaksAreCounted, PTL DEF Spec

-----------------------------------------------------------------------------
(* How much work there is.                                                 *)

\* The most steps that a call in phase p has left.
CallWork(p) ==
  CASE p = "new" -> 5
    [] p \in {"load_wait", "unload_wait"} -> 4
    [] p \in {"load_check", "unload_read"} -> 3
    [] p \in {"constructing", "draining", "generate_wait"} -> 2
    [] p \in {"publishing", "closing", "generating"} -> 1
    [] OTHER -> 0

\* The most steps that a generator in state q has left, of which n chunks are: each one
\* takes a worker, and is made by it.
StreamWork(q, n, idle) ==
  CASE q = "new"     -> 2 * n + 5 + idle
    [] q = "open"    -> 2 * n + 4 + idle
    [] q = "stopped" -> 2 + idle
    [] OTHER         -> 0

CallLeft(c) == CallWork(phase[c])
StreamLeft(s) == StreamWork(stream[s], left[s], IF Executing(s) THEN 0 ELSE 1)

StreamStep(s) ==
  \/ \E w \in Workers : StreamNext(s, w) \/ WorkerStep(s, w)
  \/ StreamDrop(s)

\* Every step of a call or of a generator leaves it with less work, and nobody else
\* with more.
WorkShrinks ==
  /\ \A c \in Calls : /\ CallLeft(c)' <= CallLeft(c)
                      /\ CallStep(c) => CallLeft(c)' < CallLeft(c)
  /\ \A s \in Streams : /\ StreamLeft(s)' <= StreamLeft(s)
                        /\ StreamStep(s) => StreamLeft(s)' < StreamLeft(s)

\* One call has a step less to take.
LEMMA CallWorkShrinks ==
  ASSUME IInv, NEW c \in Calls, CallStep(c)
  PROVE  /\ CallLeft(c)' < CallLeft(c)
         /\ \A d \in Calls \ {c} : CallLeft(d)' = CallLeft(d)
         /\ \A s \in Streams : StreamLeft(s)' = StreamLeft(s)
<1>1. /\ phase[c] # "returned"
      /\ \E p \in Phases : phase' = [phase EXCEPT ![c] = p] /\ CallWork(p) < CallWork(phase[c])
  <2>1. CASE Start(c) \/ LoadEnter(c) \/ LoadAlready(c) \/ LoadConstruct(c)
    BY <2>1 DEF Start, LoadEnter, LoadAlready, LoadConstruct, EnterLifecycle, Return,
                CallWork, Phases
  <2>2. CASE LoadFail(c) \/ LoadBuilt(c) \/ LoadPublish(c) \/ UnloadEnter(c) \/ UnloadRead(c)
    BY <2>2 DEF LoadFail, LoadBuilt, LoadPublish, UnloadEnter, UnloadRead, EnterLifecycle,
                Return, CallWork, Phases
  <2>3. CASE UnloadClear(c) \/ UnloadClose(c) \/ UnloadCloseFails(c)
    BY <2>3 DEF UnloadClear, UnloadClose, UnloadCloseFails, Return, CallWork, Phases
  <2>4. CASE GenerateRefused(c) \/ GenerateBegin(c) \/ GenerateEnd(c)
    BY <2>4 DEF GenerateRefused, GenerateBegin, GenerateEnd, Return, CallWork, Phases
  <2> QED
    BY <2>1, <2>2, <2>3, <2>4 DEF CallStep
<1>2. UNCHANGED streamVars
  BY DEF CallStep, Start, LoadEnter, LoadAlready, LoadConstruct, LoadFail, LoadBuilt,
         LoadPublish, UnloadEnter, UnloadRead, UnloadClear, UnloadClose, UnloadCloseFails,
         GenerateRefused, GenerateBegin, GenerateEnd
<1> QED
  BY <1>1, <1>2 DEF IInv, TypeOK, CallLeft, StreamLeft, Executing, streamVars

\* One generator has a step less to take.
LEMMA StreamWorkShrinks ==
  ASSUME IInv, NEW s \in Streams, StreamStep(s)
  PROVE  /\ StreamLeft(s)' < StreamLeft(s)
         /\ \A t \in Streams \ {s} : StreamLeft(t)' = StreamLeft(t)
         /\ phase' = phase
<1> DEFINE Others(w) == \A v \in Workers \ {w} : runs'[v] = runs[v]
<1>1. ASSUME NEW w \in Workers, StreamNext(s, w) \/ WorkerStep(s, w)
      PROVE  /\ Others(w) /\ runs[w] \in {None, s} /\ runs'[w] \in {None, s}
             /\ \A t \in Streams \ {s} : stream'[t] = stream[t] /\ left'[t] = left[t]
             /\ phase' = phase
  <2>1. CASE StreamNext(s, w) \/ StreamEnter(s, w) \/ StreamChunk(s, w) \/ StreamStop(s, w)
    BY <2>1 DEF StreamNext, StreamEnter, StreamChunk, StreamStop, Suspend, callVars, IInv, TypeOK
  <2>2. CASE StreamRefused(s, w) \/ StreamExit(s, w) \/ StreamFail(s, w)
    BY <2>2 DEF StreamRefused, StreamExit, StreamFail, Suspend, callVars, IInv, TypeOK
  <2> QED
    BY <1>1, <2>1, <2>2 DEF WorkerStep
<1>2. ASSUME NEW w \in Workers, StreamNext(s, w) \/ WorkerStep(s, w), NEW t \in Streams \ {s}
      PROVE  StreamLeft(t)' = StreamLeft(t)
  <2>1. Executing(t)' <=> Executing(t)
    BY <1>1, <1>2, LocalModelAssumption DEF Executing
  <2> QED
    BY <1>1, <1>2, <2>1 DEF StreamLeft
<1>3. CASE \E w \in Workers : StreamNext(s, w)
  <2>1. PICK w \in Workers : StreamNext(s, w)
    BY <1>3
  <2>2. /\ stream[s] \in {"new", "open", "stopped"} /\ stream' = stream /\ left' = left
        /\ ~ Executing(s) /\ Executing(s)'
    BY <2>1 DEF StreamNext, Executing, IInv, TypeOK
  <2>3. left[s] \in Nat
    BY DEF IInv, TypeOK
  <2>4. StreamLeft(s)' < StreamLeft(s)
    BY <2>2, <2>3 DEF StreamLeft, StreamWork
  <2> QED
    BY <1>1, <1>2, <2>1, <2>4
<1>4. CASE \E w \in Workers : WorkerStep(s, w)
  <2>1. PICK w \in Workers : WorkerStep(s, w)
    BY <1>4
  <2> SUFFICES StreamLeft(s)' < StreamLeft(s)
    BY <1>1, <1>2, <2>1
  <2>2. Executing(s) /\ left[s] \in Nat
    BY <2>1 DEF WorkerStep, StreamRefused, StreamEnter, StreamChunk, StreamStop, StreamExit,
                StreamFail, Executing, IInv, TypeOK
  <2>3. CASE StreamEnter(s, w)
    <3>1. /\ stream[s] = "new" /\ stream'[s] = "open" /\ left'[s] = left[s]
          /\ Executing(s)'
      BY <2>3 DEF StreamEnter, Executing, IInv, TypeOK
    <3> QED
      BY <2>2, <3>1 DEF StreamLeft, StreamWork
  <2>4. CASE StreamChunk(s, w)
    <3>1. /\ stream[s] = "open" /\ stream'[s] = "open"
          /\ left[s] > 0 /\ left'[s] = left[s] - 1
      BY <2>4 DEF StreamChunk, Suspend, IInv, TypeOK
    <3> QED
      BY <2>2, <3>1 DEF StreamLeft, StreamWork
  <2>5. CASE StreamStop(s, w)
    <3>1. stream[s] = "open" /\ stream'[s] = "stopped"
      BY <2>5 DEF StreamStop, Suspend, IInv, TypeOK
    <3> QED
      BY <2>2, <3>1 DEF StreamLeft, StreamWork
  <2>6. CASE StreamRefused(s, w) \/ StreamExit(s, w) \/ StreamFail(s, w)
    <3>1. /\ stream[s] \in {"new", "open", "stopped"}
          /\ stream'[s] \in {"refused", "finished", "failed"}
      BY <2>6 DEF StreamRefused, StreamExit, StreamFail, Suspend, IInv, TypeOK
    <3> QED
      BY <2>2, <3>1 DEF StreamLeft, StreamWork
  <2> QED
    BY <2>1, <2>3, <2>4, <2>5, <2>6 DEF WorkerStep
<1>5. CASE StreamDrop(s)
  <2>1. /\ stream[s] \in {"new", "open", "stopped"} /\ ~ Executing(s)
        /\ stream' = [stream EXCEPT ![s] = "dropped"]
        /\ UNCHANGED <<phase, left, runs>> /\ left[s] \in Nat
    BY <1>5 DEF StreamDrop, callVars, IInv, TypeOK
  <2> QED
    BY <2>1 DEF StreamLeft, StreamWork, Executing, IInv, TypeOK
<1> QED
  BY <1>3, <1>4, <1>5 DEF StreamStep

\* At most five steps to a call and 2 * MaxChunks + 6 to a stream, on any number of
\* workers and whatever fails: with NoCyclicWait, what can keep a request from its
\* end is a thread that does not run, or a release that was lost.
THEOREM WorkIsBounded ==
  Spec => /\ \A c \in Calls : CallLeft(c) <= 5
          /\ \A s \in Streams : StreamLeft(s) <= 2 * MaxChunks + 6
          /\ [][WorkShrinks]_vars
<1>1. ASSUME NEW c \in Calls
      PROVE  IInv => CallLeft(c) \in 0..5
  BY DEF CallLeft, CallWork
<1>2. ASSUME NEW s \in Streams
      PROVE  IInv => StreamLeft(s) \in Nat
  BY DEF StreamLeft, StreamWork, IInv, TypeOK
<1>3. IInv /\ [Next]_vars => [WorkShrinks]_vars
  <2> SUFFICES ASSUME IInv, Next PROVE WorkShrinks
    OBVIOUS
  <2>1. ASSUME NEW c \in Calls
        PROVE  /\ CallLeft(c)' <= CallLeft(c)
               /\ CallStep(c) => CallLeft(c)' < CallLeft(c)
    <3>1. CASE CallStep(c)
      <4>1. CallLeft(c)' < CallLeft(c) /\ CallLeft(c) \in Nat /\ CallLeft(c)' \in Nat
        BY <1>1, <3>1, CallWorkShrinks DEF CallLeft, CallWork
      <4> QED
        BY <4>1
    <3>2. CASE ~ CallStep(c)
      <4>1. CallLeft(c)' = CallLeft(c)
        BY <3>2, CallWorkShrinks, StreamWorkShrinks DEF Next, StreamStep, CallLeft
      <4> QED
        BY <1>1, <3>2, <4>1
    <3> QED
      BY <3>1, <3>2
  <2>2. ASSUME NEW s \in Streams
        PROVE  /\ StreamLeft(s)' <= StreamLeft(s)
               /\ StreamStep(s) => StreamLeft(s)' < StreamLeft(s)
    <3>1. CASE StreamStep(s)
      <4>1. StreamLeft(s)' < StreamLeft(s)
        BY <3>1, StreamWorkShrinks
      <4>2. StreamLeft(s) \in Nat /\ StreamLeft(s)' \in Nat
        <5>1. StreamLeft(s) \in Nat
          BY <1>2
        <5>2. left'[s] \in Nat
          BY <3>1 DEF StreamStep, StreamNext, WorkerStep, StreamRefused, StreamEnter, StreamChunk,
                      StreamStop, StreamExit, StreamFail, StreamDrop, IInv, TypeOK
        <5> QED
          BY <5>1, <5>2 DEF StreamLeft, StreamWork
      <4> QED
        BY <4>1, <4>2
    <3>2. CASE ~ StreamStep(s)
      <4>1. StreamLeft(s)' = StreamLeft(s)
        BY <3>2, CallWorkShrinks, StreamWorkShrinks DEF Next, StreamStep
      <4> QED
        BY <1>2, <3>2, <4>1
    <3> QED
      BY <3>1, <3>2
  <2> QED
    BY <2>1, <2>2 DEF WorkShrinks
<1> DEFINE AtFirst == /\ \A c \in Calls : CallLeft(c) <= 5
                      /\ \A s \in Streams : StreamLeft(s) <= 2 * MaxChunks + 6
<1>4. Init => AtFirst
  BY LocalModelAssumption DEF Init, CallLeft, CallWork, StreamLeft, StreamWork, Executing
<1> HIDE DEF AtFirst
<1>5. Spec => AtFirst /\ [][WorkShrinks]_vars
  BY <1>3, <1>4, Invariance, PTL DEF Spec
<1> QED
  BY <1>5 DEF AtFirst
=============================================================================
