--------------------------- MODULE LifespanProofs ---------------------------
(***************************************************************************)
(* That an orderly stop leaves nothing open, for any requests, streams and *)
(* workers, with clients that go away and releases that are lost.          *)
(*                                                                         *)
(* The lifespan only restricts when requests begin, so each of its steps   *)
(* is a step of LocalModel or leaves it alone, and LocalModel's inductive  *)
(* invariant holds (LocalModelProofs).  From the drained server on, the    *)
(* only call that runs is the lifespan's own unload: what it reads and     *)
(* closes stays as it left it.  If its close() raised there is no orderly  *)
(* stop; a model whose close() raised before is what that leaves open.     *)
(*                                                                         *)
(* Nor does a stop get stuck: LocalModel's calls and generators never wait *)
(* in a circle, and what the lifespan waits for is one of them or a        *)
(* request that runs, unless a release of the inference lock was lost.     *)
(***************************************************************************)
EXTENDS Lifespan, LocalModelProofs

Before == {"serving", "draining"}
Closing == {"closing documents", "closing conversations", "stopped", "failed"}

\* How far the shutdown has come, and what is already closed.
ProgressInv ==
  /\ server \in Before \cup {"checking", "unloading"} \cup Closing
  /\ server \notin Before => Quiet
  /\ server \in Before \cup {"checking"} => phase[Shutdown] = "new"
  /\ server = "unloading" =>
       phase[Shutdown] \in {"unload_wait", "unload_read", "draining", "closing", "returned"}
  /\ server = "unloading" /\ phase[Shutdown] = "returned" => model = None
  /\ server \in Closing => model = None /\ ~ CallRuns(Shutdown)
  /\ server \in Closing \ {"failed"} => result[Shutdown] # "unload_failed"
  /\ server \in {"closing conversations", "stopped"} => ~ rag
  /\ server = "stopped" => ~ cowork

ShutdownInv == IInv /\ ProgressInv

\* create_app and an empty service.
LEMMA ShutdownInit == LifespanInit => ShutdownInv
<1> SUFFICES ASSUME LifespanInit PROVE ShutdownInv
  OBVIOUS
<1>1. IInv
  BY InitInv DEF LifespanInit
<1>2. ProgressInv
  BY LifespanAssumption DEF LifespanInit, Init, ProgressInv, Before, Closing
<1>3. QED
  BY <1>1, <1>2 DEF ShutdownInv

\* A step of a call is a step of one that runs, and only of that one.
LEMMA CallStepLocal ==
  ASSUME IInv, NEW c \in Calls, CallStep(c)
  PROVE  /\ phase[c] # "returned"
         /\ phase' = [phase EXCEPT ![c] = phase'[c]]
         /\ stream' = stream
BY DEF IInv, TypeOK, CallStep, Start, EnterLifecycle, Return,
       LoadEnter, LoadAlready, LoadConstruct, LoadFail, LoadBuilt, LoadPublish,
       UnloadEnter, UnloadRead, UnloadClear, UnloadClose, UnloadCloseFails,
       GenerateRefused, GenerateBegin, GenerateEnd, callVars, streamVars

\* The steps of the lifespan's unload, and the model they leave.
LEMMA UnloadSteps ==
  ASSUME IInv, NEW c \in Calls, CallStep(c),
         phase[c] \in {"unload_wait", "unload_read", "draining", "closing"}
  PROVE  /\ phase'[c] \in {"unload_read", "draining", "closing", "returned"}
         /\ phase'[c] = "returned" => model' = None
BY DEF IInv, TypeOK, LifecycleInv, CallStep, Start, EnterLifecycle, Return,
       LoadEnter, LoadAlready, LoadConstruct, LoadFail, LoadBuilt, LoadPublish,
       UnloadEnter, UnloadRead, UnloadClear, UnloadClose, UnloadCloseFails,
       GenerateRefused, GenerateBegin, GenerateEnd

\* A step of a stream, or its end, is one of a stream that runs, and moves no call.
LEMMA StreamStepLocal ==
  ASSUME NEW s \in Streams,
         \/ \E w \in Workers : StreamNext(s, w) \/ WorkerStep(s, w)
         \/ StreamDrop(s)
  PROVE  stream[s] \in {"new", "open", "stopped"} /\ phase' = phase
BY DEF StreamNext, WorkerStep, StreamDrop, StreamRefused, StreamEnter, StreamChunk,
       StreamStop, StreamExit, StreamFail, callVars

\* Every step of the process is a step of LocalModel, or leaves it alone.
LEMMA StepsModel == ShutdownInv /\ [LifespanNext]_allVars => [Next]_vars
<1> SUFFICES ASSUME ShutdownInv, [LifespanNext]_allVars PROVE [Next]_vars
  OBVIOUS
<1>1. CASE \E c \in Calls : AskModel(c) \/ RunCall(c)
  BY <1>1 DEF AskModel, RunCall, Next, CallStep
<1>2. CASE \E s \in Streams : RunStream(s) \/ LoseStream(s)
  BY <1>2 DEF RunStream, LoseStream, Next
<1>3. CASE BeginUnload
  <2>1. phase[Shutdown] = "new"
    BY <1>3 DEF ShutdownInv, ProgressInv, BeginUnload
  <2>2. Start(Shutdown)
    BY <1>3, <2>1 DEF BeginUnload, Start
  <2>3. QED
    BY <2>2, LifespanAssumption DEF Next, CallStep
<1>4. CASE \/ Signal \/ Drained \/ SkipUnload \/ EndUnload
           \/ CloseDocuments \/ CloseConversations \/ CloseFails
           \/ \E s \in Streams : AskStream(s)
           \/ \E o \in Others : AskOther(o) \/ UseDocuments(o) \/ AnswerOther(o)
           \/ UNCHANGED allVars
  BY <1>4 DEF Signal, Drained, SkipUnload, EndUnload, CloseDocuments, CloseConversations,
              CloseFails, AskStream, AskOther, UseDocuments, AnswerOther, allVars
<1>5. QED
  BY <1>1, <1>2, <1>3, <1>4 DEF LifespanNext, ShutdownStep

\* The steps of requests: none of them is possible once the server has drained.
LEMMA RequestSteps ==
  ASSUME ShutdownInv,
         \/ \E c \in Calls : AskModel(c) \/ (RunCall(c) /\ c # Shutdown)
         \/ \E s \in Streams : AskStream(s) \/ RunStream(s) \/ LoseStream(s)
         \/ \E o \in Others : AskOther(o) \/ UseDocuments(o) \/ AnswerOther(o)
  PROVE  ProgressInv'
<1> USE LifespanAssumption DEF ShutdownInv, ProgressInv
<1>1. server \in Before
  <2>1. ASSUME NEW c \in Calls, RunCall(c), c # Shutdown
        PROVE  server \in Before
    <3>1. CallRuns(c)
      BY <2>1, CallStepLocal DEF RunCall, CallRuns
    <3>2. QED
      BY <2>1, <3>1 DEF Quiet
  <2>2. ASSUME NEW s \in Streams, RunStream(s) \/ LoseStream(s)
        PROVE  server \in Before
    <3>1. StreamRuns(s)
      BY <2>2, StreamStepLocal DEF RunStream, LoseStream, StreamRuns
    <3>2. QED
      BY <3>1 DEF Quiet
  <2>3. QED
    BY <2>1, <2>2 DEF Quiet, AskModel, AskStream, AskOther, UseDocuments, AnswerOther, Before
<1>2. server' = server
  BY DEF AskModel, RunCall, AskStream, RunStream, LoseStream, AskOther, UseDocuments,
         AnswerOther
<1>3. phase'[Shutdown] = phase[Shutdown]
  <2>1. ASSUME NEW c \in Calls, AskModel(c) \/ RunCall(c), c # Shutdown
        PROVE  phase'[Shutdown] = phase[Shutdown]
    <3>1. CallStep(c)
      BY <2>1 DEF AskModel, RunCall, CallStep
    <3>2. QED
      BY <2>1, <3>1, CallStepLocal DEF IInv, TypeOK
  <2>2. QED
    BY <2>1, StreamStepLocal DEF AskModel, AskStream, RunStream, LoseStream, AskOther,
       UseDocuments, AnswerOther, vars, callVars
<1>4. QED
  BY <1>1, <1>2, <1>3 DEF Before, Closing

\* The lifespan's own steps.
LEMMA ShutdownSteps ==
  ASSUME ShutdownInv, Signal \/ ShutdownStep
  PROVE  ProgressInv'
<1> USE LifespanAssumption
    DEF ShutdownInv, ProgressInv, Before, Closing, Quiet, CallRuns, StreamRuns
<1>1. CASE Signal \/ Drained \/ SkipUnload
  BY <1>1 DEF IInv, ResultInv, Signal, Drained, SkipUnload, services, vars, callVars, streamVars
<1>2. CASE BeginUnload
  BY <1>2 DEF BeginUnload, services, streamVars, IInv, TypeOK
<1>3. CASE EndUnload
  BY <1>3 DEF EndUnload, services, vars, callVars, streamVars
<1>4. CASE CloseDocuments
  BY <1>4 DEF CloseDocuments, vars, callVars, streamVars
<1>5. CASE CloseConversations
  BY <1>5 DEF CloseConversations, vars, callVars, streamVars
<1>6. CASE CloseFails
  BY <1>6 DEF IInv, ResultInv, CloseFails, services, vars, callVars, streamVars
<1>7. QED
  BY <1>1, <1>2, <1>3, <1>4, <1>5, <1>6 DEF ShutdownStep

\* The unload in its thread, while the lifespan waits for it.
LEMMA UnloadKeeps ==
  ASSUME ShutdownInv, RunCall(Shutdown)
  PROVE  ProgressInv'
<1> USE LifespanAssumption DEF ShutdownInv, ProgressInv
<1>1. CallStep(Shutdown) /\ UNCHANGED <<server, asked, services>>
  BY DEF RunCall
<1>2. phase[Shutdown] \notin {"new", "returned"}
  BY <1>1, CallStepLocal DEF RunCall
<1>3. server = "unloading"
  BY <1>2 DEF CallRuns, Before, Closing
<1>4. \A c \in Calls \ {Shutdown} : phase'[c] = phase[c]
  BY <1>1, CallStepLocal DEF IInv, TypeOK
<1>5. Quiet'
  BY <1>1, <1>3, <1>4, CallStepLocal
  DEF Quiet, CallRuns, StreamRuns, services, Before
<1>6. /\ phase'[Shutdown] \in {"unload_read", "draining", "closing", "returned"}
      /\ phase'[Shutdown] = "returned" => model' = None
  BY <1>1, <1>2, <1>3, UnloadSteps
<1>7. QED
  BY <1>1, <1>3, <1>5, <1>6 DEF Before, Closing

LEMMA ShutdownInductive == ShutdownInv /\ [LifespanNext]_allVars => ShutdownInv'
<1> SUFFICES ASSUME ShutdownInv, [LifespanNext]_allVars PROVE ShutdownInv'
  OBVIOUS
<1>1. IInv'
  BY StepsModel, StepInv DEF ShutdownInv
<1>2. ProgressInv'
  <2>1. CASE UNCHANGED allVars
    BY <2>1 DEF ShutdownInv, ProgressInv, allVars, services, vars, callVars, streamVars,
                Quiet, CallRuns, StreamRuns
  <2>2. CASE Signal \/ ShutdownStep
    BY <2>2, ShutdownSteps
  <2>3. CASE RunCall(Shutdown)
    BY <2>3, UnloadKeeps
  <2>4. QED
    BY <2>1, <2>2, <2>3, RequestSteps DEF LifespanNext
<1>3. QED
  BY <1>1, <1>2 DEF ShutdownInv

\* The invariant of the whole process.
THEOREM ShutdownInvariance == LifespanSpec => []ShutdownInv
BY ShutdownInit, ShutdownInductive, PTL DEF LifespanSpec

\* After an orderly stop no document store, no conversation store and no model is left
\* open, but one whose close() had already raised in the unload of a request.
THEOREM NothingStaysOpen == LifespanSpec => []NothingLeftOpen
<1>1. ASSUME ShutdownInv, server = "stopped"
      PROVE  /\ model = None
             /\ \A c \in Calls :
                  /\ victim[c] = None
                  /\ result[c] = "loaded" =>
                       \/ c \in closed
                       \/ \E u \in Calls \ {Shutdown} :
                            abandoned[u] = c /\ result[u] = "unload_failed"
             /\ ~ rag
             /\ ~ cowork
  <2>1. Quiet /\ model = None /\ ~ CallRuns(Shutdown) /\ ~ rag /\ ~ cowork
    BY <1>1 DEF ShutdownInv, ProgressInv, Before, Closing
  <2>2. \A c \in Calls : ~ CallRuns(c)
    BY <2>1 DEF Quiet
  <2>3. \A c \in Calls : victim[c] = None
    BY <1>1, <2>2 DEF ShutdownInv, IInv, ModelsInv, CallRuns
  <2>4. result[Shutdown] # "unload_failed"
    BY <1>1 DEF ShutdownInv, ProgressInv, Closing
  <2>5. ASSUME NEW c \in Calls, result[c] = "loaded", c \notin closed
        PROVE  \E u \in Calls \ {Shutdown} : abandoned[u] = c /\ result[u] = "unload_failed"
    <3>1. PICK u \in Calls : abandoned[u] = c
      BY <1>1, <2>1, <2>3, <2>5, LocalModelAssumption DEF ShutdownInv, IInv, ModelsInv
    <3>2. result[u] = "unload_failed"
      BY <1>1, <2>5, <3>1, LocalModelAssumption DEF ShutdownInv, IInv, ModelsInv
    <3> QED
      BY <2>4, <3>1, <3>2
  <2>6. QED
    BY <2>1, <2>3, <2>5
<1>2. ShutdownInv => NothingLeftOpen
  BY <1>1 DEF NothingLeftOpen
<1>3. QED
  BY <1>2, ShutdownInvariance, PTL

-----------------------------------------------------------------------------
(* That a stop is never stuck.                                             *)

\* The process runs LLMService as LocalModel has it: what LocalModelProofs shows of the
\* service alone, ModelLifecycle included, is true inside it, through the shutdown too.
THEOREM RunsTheService == LifespanSpec => Spec
<1>1. LifespanInit => Init
  BY DEF LifespanInit
<1> QED
  BY <1>1, StepsModel, ShutdownInvariance, PTL DEF LifespanSpec, Spec

\* A generator is under way only for a request that has arrived.
AskedInv == \A s \in Streams : UnderWay(s) => s \in asked

LEMMA AskedStep ==
  ASSUME ShutdownInv, AskedInv, [LifespanNext]_allVars
  PROVE  AskedInv'
<1>1. ASSUME NEW s \in Streams, RunStream(s) \/ LoseStream(s)
      PROVE  AskedInv'
  <2>1. s \in asked /\ asked' = asked
    BY <1>1 DEF RunStream, LoseStream
  <2>2. ASSUME NEW t \in Streams \ {s}
        PROVE  stream'[t] = stream[t] /\ \A w \in Workers : runs'[w] = t => runs[w] = t
    <3>1. CASE StreamDrop(s)
      BY <3>1 DEF StreamDrop, ShutdownInv, IInv, TypeOK
    <3>2. CASE \E w \in Workers : StreamNext(s, w) \/ StreamEnter(s, w)
      BY <3>2 DEF StreamNext, StreamEnter, ShutdownInv, IInv, TypeOK
    <3>3. CASE \E w \in Workers : \/ StreamRefused(s, w) \/ StreamChunk(s, w) \/ StreamStop(s, w)
                                  \/ StreamExit(s, w) \/ StreamFail(s, w)
      <4>1. PICK w \in Workers : /\ runs' = [runs EXCEPT ![w] = None]
                                 /\ \E to \in StreamStates : stream' = [stream EXCEPT ![s] = to]
        BY <3>3 DEF StreamRefused, StreamChunk, StreamStop, StreamExit, StreamFail, Suspend,
                    StreamStates
      <4> QED
        BY <4>1, LocalModelAssumption DEF ShutdownInv, IInv, TypeOK
    <3> QED
      BY <1>1, <3>1, <3>2, <3>3 DEF RunStream, LoseStream, WorkerStep
  <2> QED
    BY <2>1, <2>2 DEF AskedInv, UnderWay, Active, Executing
<1>2. CASE \E c \in Calls : AskModel(c) \/ RunCall(c)
  BY <1>2 DEF AskModel, RunCall, CallStep, Start, LoadEnter, LoadAlready, LoadConstruct,
              LoadFail, LoadBuilt, LoadPublish, UnloadEnter, UnloadRead, UnloadClear,
              UnloadClose, UnloadCloseFails, GenerateRefused, GenerateBegin, GenerateEnd, streamVars,
              AskedInv, UnderWay, Active, Executing
<1>3. CASE \/ Signal \/ ShutdownStep \/ UNCHANGED allVars
           \/ \E s \in Streams : AskStream(s)
           \/ \E o \in Others : AskOther(o) \/ UseDocuments(o) \/ AnswerOther(o)
  BY <1>3 DEF Signal, ShutdownStep, Drained, BeginUnload, SkipUnload, EndUnload, CloseDocuments,
              CloseConversations, CloseFails, AskStream, AskOther, UseDocuments, AnswerOther,
              allVars, vars, streamVars, AskedInv, UnderWay, Active, Executing
<1> QED
  BY <1>1, <1>2, <1>3 DEF LifespanNext

\* The lifespan has its own step to take: there is nothing left that it waits for.
ShutdownCanMove ==
  \/ server = "draining" /\ Quiet
  \/ server = "unloading" /\ phase[Shutdown] = "returned"
  \/ server \in {"checking", "closing documents", "closing conversations"}

\* After a signal the process stops or somebody in it can move: the lifespan, a call,
\* a generator that a client reads, a request to the stores; unless a release was lost.
StopIsNeverStuck ==
  server \notin {"serving", "stopped", "failed"} =>
    \/ ShutdownCanMove
    \/ \E c \in Calls : CallCanMove(c)
    \/ \E s \in asked \cap Streams : StreamCanMove(s)
    \/ \E o \in Others : other[o] = "running"
    \/ ReleaseLost

\* The state in which nobody can move but by a lost release is not reached, for any
\* requests and workers: what ShutdownEnds needs beside fairness.
THEOREM NeverStuck == LifespanSpec => []StopIsNeverStuck
<1>1. LifespanInit => AskedInv
  BY LocalModelAssumption DEF LifespanInit, Init, AskedInv, UnderWay, Active, Executing
<1>2. ASSUME ShutdownInv, AskedInv, SomebodyMoves, server \notin {"serving", "stopped", "failed"},
             ~ ShutdownCanMove
      PROVE  \/ \E c \in Calls : CallCanMove(c)
             \/ \E s \in asked \cap Streams : StreamCanMove(s)
             \/ \E o \in Others : other[o] = "running"
             \/ ReleaseLost
  <2>1. CASE (\E c \in Calls : Pending(c)) \/ (\E s \in Streams : UnderWay(s))
    BY <1>2, <2>1 DEF SomebodyMoves, AskedInv, Lost, ReleaseLost
  <2>2. CASE ~ \E c \in Calls : Pending(c)
    <3>1. server = "draining"
      BY <1>2, <2>2, LifespanAssumption
      DEF ShutdownInv, ProgressInv, ShutdownCanMove, Before, Closing, Pending
    <3>2. ~ Quiet
      BY <1>2, <3>1 DEF ShutdownCanMove
    <3>3. CASE \E s \in Streams : StreamRuns(s)
      <4>1. PICK s \in asked \cap Streams : stream[s] \in {"new", "open", "stopped"}
        BY <3>3 DEF StreamRuns
      <4>2. CASE \E w \in Workers : runs[w] = None
        <5>1. CASE Executing(s)
          BY <2>1, <5>1 DEF UnderWay
        <5>2. CASE ~ Executing(s)
          BY <4>1, <4>2, <5>2 DEF StreamCanMove
        <5> QED
          BY <5>1, <5>2
      <4>3. CASE \A w \in Workers : runs[w] # None
        <5>1. PICK w \in Workers : runs[w] \in Streams
          BY <1>2, <4>3, LifespanAssumption DEF ShutdownInv, IInv, TypeOK
        <5>2. UnderWay(runs[w])
          BY <5>1 DEF UnderWay, Executing
        <5> QED
          BY <2>1, <5>1, <5>2
      <4> QED
        BY <4>2, <4>3
    <3>4. CASE ~ \E s \in Streams : StreamRuns(s)
      BY <2>2, <3>2, <3>4 DEF Quiet, CallRuns, Pending
    <3> QED
      BY <3>3, <3>4
  <2> QED
    BY <2>1, <2>2
<1>3. ShutdownInv /\ AskedInv /\ SomebodyMoves => StopIsNeverStuck
  BY <1>2 DEF StopIsNeverStuck
<1> QED
  BY <1>1, <1>3, AskedStep, ShutdownInvariance, RunsTheService, NoCyclicWait, PTL DEF LifespanSpec
=============================================================================
