------------------------------ MODULE Lifespan ------------------------------
(***************************************************************************)
(* The life of the process: create_app and the lifespan of main.py around  *)
(* the local model (LocalModel) and the two stores.                        *)
(*                                                                         *)
(* uvicorn runs without a graceful timeout: at a signal it takes no more   *)
(* requests, waits for those it has, and only then leaves the lifespan.    *)
(* Its finally block unloads the model when is_loaded says that there is   *)
(* one, closes the document store, and closes the conversations' shared    *)
(* connection, which no lock protects.  An error in one of the three       *)
(* leaves out the rest.                                                    *)
(*                                                                         *)
(* The stores are as open or closed as RagStore and Cowork leave them: a   *)
(* request to them is one that runs, uses both, and is answered.           *)
(***************************************************************************)
EXTENDS LocalModel

CONSTANTS Shutdown,   \* the call of unload_model that the lifespan makes
          Others      \* requests that use the two stores

ASSUME LifespanAssumption ==
  /\ Shutdown \in Calls
  /\ Workers # {}   \* the pool of Starlette has threads

VARIABLES server,   \* "serving", "draining", then the steps of the finally block
          asked,    \* the streams whose request has arrived
          other,    \* "new", "running" or "answered", for each of Others
          rag,      \* whether the document store holds a connection
          cowork    \* whether the connection of the conversations is open

services == <<other, rag, cowork>>
allVars == <<vars, server, asked, services>>

LifespanInit ==
  /\ Init
  /\ server = "serving"
  /\ asked = {}
  /\ other = [o \in Others |-> "new"]
  /\ rag = FALSE
  /\ cowork = TRUE

-----------------------------------------------------------------------------
(* Requests.                                                               *)

\* While the server is serving, requests arrive.
AskModel(c) ==
  /\ server = "serving"
  /\ c # Shutdown
  /\ Start(c)
  /\ UNCHANGED <<server, asked, services>>

AskStream(s) ==
  /\ server = "serving"
  /\ asked' = asked \cup {s}
  /\ UNCHANGED <<vars, server, services>>

AskOther(o) ==
  /\ server = "serving"
  /\ other[o] = "new"
  /\ other' = [other EXCEPT ![o] = "running"]
  /\ UNCHANGED <<vars, server, asked, rag, cowork>>

\* The document store is opened by its first use, and again after a close.
UseDocuments(o) ==
  /\ other[o] = "running"
  /\ rag' = TRUE
  /\ UNCHANGED <<vars, server, asked, other, cowork>>

AnswerOther(o) ==
  /\ other[o] = "running"
  /\ other' = [other EXCEPT ![o] = "answered"]
  /\ UNCHANGED <<vars, server, asked, rag, cowork>>

\* A call in its thread, the lifespan's own among them.
RunCall(c) ==
  /\ phase[c] # "new"
  /\ CallStep(c)
  /\ UNCHANGED <<server, asked, services>>

RunStream(s) ==
  /\ s \in asked
  /\ \E w \in Workers : StreamNext(s, w) \/ WorkerStep(s, w)
  /\ UNCHANGED <<server, asked, services>>

LoseStream(s) ==
  /\ s \in asked
  /\ StreamDrop(s)
  /\ UNCHANGED <<server, asked, services>>

-----------------------------------------------------------------------------
(* The shutdown.                                                           *)

\* SIGTERM: sockets are closed, requests go on.
Signal ==
  /\ server = "serving"
  /\ server' = "draining"
  /\ UNCHANGED <<vars, asked, services>>

CallRuns(c) == phase[c] \notin {"new", "returned"}
StreamRuns(s) == s \in asked /\ stream[s] \in {"new", "open", "stopped"}

\* No request is left: what uvicorn waits for.
Quiet ==
  /\ \A c \in Calls \ {Shutdown} : ~ CallRuns(c)
  /\ \A s \in Streams : ~ StreamRuns(s)
  /\ \A o \in Others : other[o] # "running"

Drained ==
  /\ server = "draining"
  /\ Quiet
  /\ server' = "checking"
  /\ UNCHANGED <<vars, asked, services>>

\* is_loaded, then a thread for unload_model: its steps are those of RunCall.
BeginUnload ==
  /\ server = "checking"
  /\ model # None
  /\ server' = "unloading"
  /\ phase' = [phase EXCEPT ![Shutdown] = "unload_wait"]
  /\ UNCHANGED <<model, closed, abandoned, locks, result, victim, streamVars, using, asked,
                 services>>

SkipUnload ==
  /\ server = "checking"
  /\ model = None
  /\ server' = "closing documents"
  /\ UNCHANGED <<vars, asked, services>>

\* Mutant: the lifespan goes on whatever its unload has raised.
EndUnloadRegardless ==
  /\ server = "unloading"
  /\ phase[Shutdown] = "returned"
  /\ server' = "closing documents"
  /\ UNCHANGED <<vars, asked, services>>

EndUnload ==
  /\ server = "unloading"
  /\ phase[Shutdown] = "returned"
  /\ result[Shutdown] # "unload_failed"
  /\ server' = "closing documents"
  /\ UNCHANGED <<vars, asked, services>>

CloseDocuments ==
  /\ server = "closing documents"
  /\ rag' = FALSE
  /\ server' = "closing conversations"
  /\ UNCHANGED <<vars, asked, other, cowork>>

CloseConversations ==
  /\ server = "closing conversations"
  /\ cowork' = FALSE
  /\ server' = "stopped"
  /\ UNCHANGED <<vars, asked, other, rag>>

\* The unload or a close raises: the rest of the finally block is not run.
CloseFails ==
  /\ \/ server = "unloading" /\ result[Shutdown] = "unload_failed"
     \/ server \in {"closing documents", "closing conversations"}
  /\ server' = "failed"
  /\ UNCHANGED <<vars, asked, services>>

ShutdownStep ==
  \/ Drained \/ BeginUnload \/ SkipUnload \/ EndUnload
  \/ CloseDocuments \/ CloseConversations \/ CloseFails

LifespanNext ==
  \/ Signal
  \/ ShutdownStep
  \/ \E c \in Calls : AskModel(c) \/ RunCall(c)
  \/ \E s \in Streams : AskStream(s) \/ RunStream(s) \/ LoseStream(s)
  \/ \E o \in Others : AskOther(o) \/ UseDocuments(o) \/ AnswerOther(o)

LifespanSpec == LifespanInit /\ [][LifespanNext]_allVars

\* Threads that can run do run, clients read their streams or go away, requests to
\* the stores end.  A signal need not come, and requests need not be made.
LifespanFairness ==
  /\ WF_allVars(ShutdownStep)
  /\ \A c \in Calls : WF_allVars(RunCall(c))
  /\ \A s \in Streams : WF_allVars(RunStream(s))
  /\ \A o \in Others : WF_allVars(AnswerOther(o))

FairLifespan == LifespanSpec /\ LifespanFairness
-----------------------------------------------------------------------------
(* Properties.                                                             *)

\* After an orderly stop nothing is left open: no model, current or in somebody's
\* hands, without its close(), no connection of either store.  The exception is a model
\* that a request had tried to unload before: its close() raised, that request got the
\* error, and the lifespan, which asks is_loaded, does not know of it.  is_loaded is
\* read without the lifecycle lock, and a load or an upload after it would undo this.
NothingLeftOpen ==
  server = "stopped" =>
    /\ model = None
    /\ \A c \in Calls :
         /\ victim[c] = None
         /\ result[c] = "loaded" =>
              \/ c \in closed
              \/ \E u \in Calls \ {Shutdown} : abandoned[u] = c /\ result[u] = "unload_failed"
    /\ ~ rag
    /\ ~ cowork

\* A release of the inference lock was lost: a worker holds it and no stream is in it.
\* A stream was dropped by its client, or its last next() ran on another worker and failed.
ReleaseLost ==
  /\ inferenceOwner \in Workers
  /\ ActiveStreams = {}
  /\ \E s \in Streams : stream[s] \in {"dropped", "failed"}

\* Every request to the local model is answered, through the shutdown too, and every
\* stream comes to an end: the lifecycle and the inference lock do not deadlock, and
\* the only thing that can keep a request waiting for ever is a release that was lost.
EveryRequestIsAnswered ==
  /\ \A c \in Calls : CallRuns(c) ~> phase[c] = "returned" \/ ReleaseLost
  /\ \A s \in Streams : StreamRuns(s) ~> ~ StreamRuns(s) \/ ReleaseLost

\* A shutdown that has begun ends: the unload waits for the inference lock and gets it,
\* unless a release was lost.
ShutdownEnds == server = "draining" ~> server \in {"stopped", "failed"} \/ ReleaseLost
=============================================================================
