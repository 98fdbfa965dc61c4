----------------------------- MODULE RemoteCalls -----------------------------
(***************************************************************************)
(* Chat requests and the bounded remote capacity they share:               *)
(* routers/chat.py (chat_completions, _stream_completion), the routing     *)
(* loops of ModelRouter (complete, stream) and RemoteCallLease.            *)
(*                                                                         *)
(* A stream reserves a slot before its response is opened and hands it to  *)
(* its first remote attempt; later attempts, and blocking completions,     *)
(* take one of their own.  Nobody ever waits for a slot.  The client of a  *)
(* stream may go away at any point, also before the body has started.      *)
(*                                                                         *)
(* Which remote models are eligible is decided by the catalogs at each     *)
(* evaluation (_selection runs twice for a stream): any subset, each time. *)
(* `loaded` is the unlocked read of LLMService.is_loaded.                  *)
(***************************************************************************)
EXTENDS Naturals, FiniteSets, Sequences, Functions

CONSTANTS Requests,
          Order,       \* the configured remote providers in FREE_PROVIDER_ORDER
          Local,       \* the local service, last in every automatic selection
          Limit,       \* REMOTE_MAX_CONCURRENT_REQUESTS
          None

Providers == Range(Order)

\* schemas/config.py:106-116 and REMOTE_MAX_CONCURRENT_REQUESTS in 1..32.
ASSUME RemoteCallsAssumption ==
  /\ IsFiniteSet(Requests)
  /\ Order \in Seq(Providers)
  /\ Local \notin Providers
  /\ None \notin Providers \cup {Local}
  /\ Limit \in Nat \ {0}

VARIABLES loaded,    \* whether the local model is loaded
          permits,   \* free slots of the remote semaphore
          kind,      \* "stream" or "complete"
          phase,     \* where each request is
          wants,     \* what the request names: see Wants
          needs,     \* the streams for which validate_request answered True
          lease,     \* the slot reserved for a stream: "none", "held", "released"
          own,       \* requests whose remote attempt holds a slot of its own
          queue,     \* the selections not yet tried; the head is being tried
          emitted,   \* the provider whose content the client has seen, or None
          refused,   \* the requests refused for lack of remote capacity
          outcome    \* the status of the response, or how the stream ended

requestVars == <<kind, wants, needs, lease, own, queue, emitted, refused, outcome>>
vars == <<loaded, permits, phase, requestVars>>

Phases == {"new", "validated", "ready", "routing", "remote", "local", "finishing", "done"}
Outcomes == {"none", "200", "400", "429", "500", "503", "completed", "error", "gone", "abandoned"}

\* Nothing; a model of some remote provider; the local model by its name; what no
\* provider offers (another model of "local" among them); or a provider.
Wants == {"auto", "model", "local model", "nobody"} \cup Providers \cup {Local}

Init ==
  /\ loaded \in BOOLEAN
  /\ permits = Limit
  /\ kind \in [Requests -> {"stream", "complete"}]
  /\ phase = [r \in Requests |-> "new"]
  /\ wants \in [Requests -> Wants]
  /\ needs = {}
  /\ lease = [r \in Requests |-> "none"]
  /\ own = {}
  /\ queue = [r \in Requests |-> <<>>]
  /\ emitted = [r \in Requests |-> None]
  /\ refused = {}
  /\ outcome = [r \in Requests |-> "none"]

-----------------------------------------------------------------------------
(* Selections and the ends of a request.                                   *)

\* The loop over free_provider_order: the eligible remote providers, in that order.
Eligible(e) ==
  LET selections[n \in 0..Len(Order)] ==
        IF n = 0 THEN <<>>
        ELSE IF Order[n] \in e THEN Append(selections[n - 1], Order[n]) ELSE selections[n - 1]
  IN  selections[Len(Order)]

\* _selection with the eligible remote providers e: the empty set is a ValueError.
\* A model goes to the first remote provider that has it, and the local model's own
\* name to the local service if none has.
Selection(want, e) ==
  CASE want = Local    -> {<<Local>>}
    [] want = "nobody" -> {}
    [] want = "auto"   -> {Eligible(e) \o <<Local>>}
    [] want \in {"model", "local model"} ->
         IF Eligible(e) # <<>> THEN {<<Head(Eligible(e))>>}
         ELSE IF want = "local model" THEN {<<Local>>} ELSE {}
    [] OTHER           -> IF want \in e THEN {<<want>>} ELSE {}

End(r, o) ==
  /\ phase' = [phase EXCEPT ![r] = "done"]
  /\ outcome' = [outcome EXCEPT ![r] = o]

\* The routing loop is over: a blocking completion is answered, a stream goes
\* on to event_stream's finally.
Leave(r, ifComplete, ifStream) ==
  /\ phase' = [phase EXCEPT ![r] = IF kind[r] = "stream" THEN "finishing" ELSE "done"]
  /\ outcome' = [outcome EXCEPT ![r] = IF kind[r] = "stream" THEN ifStream ELSE ifComplete]

\* Leaving `with remote_context`: the stream's reserved slot or the attempt's own.
ReleaseAttempt(r) ==
  /\ own' = own \ {r}
  /\ lease' = [lease EXCEPT ![r] =
       IF phase[r] = "remote" /\ lease[r] = "held" THEN "released" ELSE @]
  /\ permits' = IF phase[r] = "remote" THEN permits + 1 ELSE permits

-----------------------------------------------------------------------------
(* Before the routing loop.                                                *)

\* validate_request; then _inject_rag_context, which may fail with 503.
StreamValidate(r) ==
  /\ phase[r] = "new"
  /\ kind[r] = "stream"
  /\ \E e \in SUBSET Providers :
       LET s == Selection(wants[r], e) IN
       \/ /\ s = {}
          /\ End(r, "400")
          /\ UNCHANGED needs
       \/ \E q \in s :
            IF q = <<Local>> /\ ~ loaded
            THEN End(r, "400") /\ UNCHANGED needs
            ELSE /\ needs' = IF Head(q) # Local THEN needs \cup {r} ELSE needs
                 /\ phase' = [phase EXCEPT ![r] = "validated"]
                 /\ UNCHANGED outcome
  /\ UNCHANGED <<loaded, permits, kind, wants, lease, own, queue, emitted, refused>>

RagFails(r) ==
  /\ \/ phase[r] = "validated"
     \/ phase[r] = "new" /\ kind[r] = "complete"
  /\ End(r, "503")
  /\ UNCHANGED <<loaded, permits, kind, wants, needs, lease, own, queue, emitted, refused>>

\* Mutant: a reservation that does not look at the free slots.
ReserveBlind(r) ==
  /\ phase[r] = "validated"
  /\ permits' = permits - 1
  /\ lease' = [lease EXCEPT ![r] = "held"]
  /\ phase' = [phase EXCEPT ![r] = "ready"]
  /\ UNCHANGED <<loaded, kind, wants, needs, own, queue, emitted, refused, outcome>>

\* Mutant: a reservation that waits for a slot.
ReserveWaiting(r) ==
  /\ phase[r] = "validated"
  /\ IF r \notin needs
     THEN UNCHANGED <<permits, lease>>
     ELSE /\ permits > 0
          /\ permits' = permits - 1
          /\ lease' = [lease EXCEPT ![r] = "held"]
  /\ phase' = [phase EXCEPT ![r] = "ready"]
  /\ UNCHANGED <<loaded, kind, wants, needs, own, queue, emitted, refused, outcome>>

\* reserve_remote_call, immediately before StreamingResponse is returned.
Reserve(r) ==
  /\ phase[r] = "validated"
  /\ IF r \notin needs
     THEN /\ phase' = [phase EXCEPT ![r] = "ready"]
          /\ UNCHANGED <<permits, lease, refused, outcome>>
     ELSE IF permits > 0
     THEN /\ permits' = permits - 1
          /\ lease' = [lease EXCEPT ![r] = "held"]
          /\ phase' = [phase EXCEPT ![r] = "ready"]
          /\ UNCHANGED <<refused, outcome>>
     ELSE /\ refused' = refused \cup {r}
          /\ End(r, "429")
          /\ UNCHANGED <<permits, lease>>
  /\ UNCHANGED <<loaded, kind, wants, needs, own, queue, emitted>>

\* The first next() of event_stream: stream() makes its own selection.
BodyStart(r) ==
  /\ phase[r] = "ready"
  /\ \E e \in SUBSET Providers :
       LET s == Selection(wants[r], e) IN
       \/ /\ s = {}
          /\ Leave(r, "400", "error")
          /\ UNCHANGED queue
       \/ \E q \in s : /\ queue' = [queue EXCEPT ![r] = q]
                       /\ phase' = [phase EXCEPT ![r] = "routing"]
                       /\ UNCHANGED outcome
  /\ UNCHANGED <<loaded, permits, kind, wants, needs, lease, own, emitted, refused>>

\* The client goes away before the body has started: the generator is dropped
\* unstarted, so its finally does not run.
DropUnstarted(r) ==
  /\ phase[r] = "ready"
  /\ End(r, "abandoned")
  /\ UNCHANGED <<loaded, permits, kind, wants, needs, lease, own, queue, emitted, refused>>

CompleteStart(r) ==
  /\ phase[r] = "new"
  /\ kind[r] = "complete"
  /\ \E e \in SUBSET Providers :
       LET s == Selection(wants[r], e) IN
       \/ /\ s = {}
          /\ End(r, "400")
          /\ UNCHANGED queue
       \/ \E q \in s : /\ queue' = [queue EXCEPT ![r] = q]
                       /\ phase' = [phase EXCEPT ![r] = "routing"]
                       /\ UNCHANGED outcome
  /\ UNCHANGED <<loaded, permits, kind, wants, needs, lease, own, emitted, refused>>

-----------------------------------------------------------------------------
(* The routing loop of complete() and stream().                            *)

Trying(r, names) == /\ phase[r] = "routing"
                    /\ queue[r] # <<>>
                    /\ Head(queue[r]) \in names

SkipLocal(r) ==
  /\ Trying(r, {Local})
  /\ ~ loaded
  /\ queue' = [queue EXCEPT ![r] = Tail(@)]
  /\ UNCHANGED <<loaded, permits, phase, kind, wants, needs, lease, own, emitted,
                 refused, outcome>>

LocalBegin(r) ==
  /\ Trying(r, {Local})
  /\ loaded
  /\ phase' = [phase EXCEPT ![r] = "local"]
  /\ UNCHANGED <<loaded, permits, requestVars>>

\* The first remote attempt of a stream uses the slot reserved for it.
RemoteBegin(r) ==
  /\ Trying(r, Providers)
  /\ IF lease[r] = "held"
     THEN UNCHANGED <<permits, own>>
     ELSE /\ permits > 0
          /\ permits' = permits - 1
          /\ own' = own \cup {r}
  /\ phase' = [phase EXCEPT ![r] = "remote"]
  /\ UNCHANGED <<loaded, kind, wants, needs, lease, queue, emitted, refused, outcome>>

\* The HTTPException leaves the loop: chat_completions answers 500, a stream
\* emits its error chunk.  Selections behind this one are not tried.
RemoteRefused(r) ==
  /\ Trying(r, Providers)
  /\ lease[r] # "held"
  /\ permits = 0
  /\ refused' = refused \cup {r}
  /\ Leave(r, "500", "error")
  /\ UNCHANGED <<loaded, permits, kind, wants, needs, lease, own, queue, emitted>>

\* A content chunk reaches the client.
Chunk(r) ==
  /\ phase[r] \in {"remote", "local"}
  /\ kind[r] = "stream"
  /\ emitted' = [emitted EXCEPT ![r] = Head(queue[r])]
  /\ UNCHANGED <<loaded, permits, phase, kind, wants, needs, lease, own, queue,
                 refused, outcome>>

Succeed(r) ==
  /\ phase[r] \in {"remote", "local"}
  /\ ReleaseAttempt(r)
  /\ Leave(r, "200", "completed")
  /\ UNCHANGED <<loaded, kind, wants, needs, queue, emitted, refused>>

\* Mutant: fallback also after content has been emitted.
FailAlwaysOver(r) ==
  /\ phase[r] \in {"remote", "local"}
  /\ ReleaseAttempt(r)
  /\ phase' = [phase EXCEPT ![r] = "routing"]
  /\ queue' = [queue EXCEPT ![r] = Tail(@)]
  /\ UNCHANGED <<loaded, kind, wants, needs, emitted, refused, outcome>>

\* Mutant: an error that would not pass on a retry ends the chain.
FailFinal(r) ==
  /\ phase[r] \in {"remote", "local"}
  /\ ReleaseAttempt(r)
  /\ \/ emitted[r] # None /\ Leave(r, "503", "error") /\ UNCHANGED queue
     \/ Head(queue[r]) # Local /\ Leave(r, "503", "error") /\ UNCHANGED queue
     \/ /\ emitted[r] = None
        /\ phase' = [phase EXCEPT ![r] = "routing"]
        /\ queue' = [queue EXCEPT ![r] = Tail(@)]
        /\ UNCHANGED outcome
  /\ UNCHANGED <<loaded, kind, wants, needs, emitted, refused>>

\* An attempt fails, for good or not: the next selection, unless the client has
\* seen content.
Fail(r) ==
  /\ phase[r] \in {"remote", "local"}
  /\ ReleaseAttempt(r)
  /\ IF emitted[r] # None
     THEN /\ Leave(r, "503", "error")
          /\ UNCHANGED queue
     ELSE /\ phase' = [phase EXCEPT ![r] = "routing"]
          /\ queue' = [queue EXCEPT ![r] = Tail(@)]
          /\ UNCHANGED outcome
  /\ UNCHANGED <<loaded, kind, wants, needs, emitted, refused>>

\* Nothing left to try: RuntimeError (400) without a local model, else 503.
Exhaust(r) ==
  /\ phase[r] = "routing"
  /\ queue[r] = <<>>
  /\ Leave(r, IF loaded THEN "503" ELSE "400", "error")
  /\ UNCHANGED <<loaded, permits, kind, wants, needs, lease, own, queue, emitted, refused>>

-----------------------------------------------------------------------------
(* The end of a stream's body.                                             *)

\* Mutant: a release that is not idempotent.
ReleaseLeaseAgain(r) ==
  IF lease[r] # "none"
  THEN /\ lease' = [lease EXCEPT ![r] = "released"]
       /\ permits' = permits + 1
  ELSE UNCHANGED <<lease, permits>>

\* event_stream's finally: the reserved slot, if no attempt has used it.
\* RemoteCallLease.release does nothing the second time.
ReleaseLease(r) ==
  IF lease[r] = "held"
  THEN /\ lease' = [lease EXCEPT ![r] = "released"]
       /\ permits' = permits + 1
  ELSE UNCHANGED <<lease, permits>>

\* Mutant: no finally around the body.
FinishKeeping(r) ==
  /\ phase[r] = "finishing"
  /\ phase' = [phase EXCEPT ![r] = "done"]
  /\ UNCHANGED <<loaded, permits, kind, wants, needs, lease, own, queue, emitted, refused,
                 outcome>>

Finish(r) ==
  /\ phase[r] = "finishing"
  /\ ReleaseLease(r)
  /\ phase' = [phase EXCEPT ![r] = "done"]
  /\ UNCHANGED <<loaded, kind, wants, needs, own, queue, emitted, refused, outcome>>

\* The client goes away while the body is suspended at a yield: GeneratorExit
\* unwinds the attempt's `with` and then event_stream's finally.
Drop(r) ==
  /\ kind[r] = "stream"
  /\ phase[r] \in {"remote", "local", "finishing"}
  /\ IF r \in own
     THEN /\ own' = own \ {r}
          /\ permits' = permits + 1
          /\ UNCHANGED lease
     ELSE ReleaseLease(r) /\ UNCHANGED own
  /\ End(r, "gone")
  /\ UNCHANGED <<loaded, kind, wants, needs, queue, emitted, refused>>

\* Another request loads or unloads the local model.
LoadOrUnload ==
  /\ loaded' = ~ loaded
  /\ UNCHANGED <<permits, phase, requestVars>>

\* The steps of a request outside its attempts, errors of the document store aside:
\* the ones that decide about capacity.
Advance(r) ==
  \/ StreamValidate(r) \/ Reserve(r) \/ BodyStart(r) \/ CompleteStart(r)
  \/ SkipLocal(r) \/ LocalBegin(r) \/ RemoteBegin(r) \/ RemoteRefused(r) \/ Exhaust(r)

Serve(r) == Advance(r) \/ RagFails(r) \/ Succeed(r) \/ Fail(r) \/ Finish(r)

Next ==
  \/ LoadOrUnload
  \/ \E r \in Requests : Serve(r) \/ Chunk(r) \/ DropUnstarted(r) \/ Drop(r)

Spec == Init /\ [][Next]_vars

-----------------------------------------------------------------------------
(* Properties.                                                             *)

\* The requests that hold a slot of the semaphore.
Holders == {r \in Requests : lease[r] = "held" \/ r \in own}

\* The requests that are calling a remote provider.
Remote == {r \in Requests : phase[r] = "remote"}

\* The streams that were dropped before their body started.
Unstarted == {r \in Requests : outcome[r] = "abandoned"}

\* The type of the variables that the accounting of slots depends on.
SlotTypes ==
  /\ permits \in Nat
  /\ kind \in [Requests -> {"stream", "complete"}]
  /\ phase \in [Requests -> Phases]
  /\ lease \in [Requests -> {"none", "held", "released"}]
  /\ own \subseteq Requests
  /\ outcome \in [Requests -> Outcomes]

\* The type of every variable.
TypeOK ==
  /\ SlotTypes
  /\ loaded \in BOOLEAN
  /\ wants \in [Requests -> Wants]
  /\ needs \subseteq Requests
  /\ queue \in [Requests -> Seq(Providers \cup {Local})]
  /\ emitted \in [Requests -> Providers \cup {Local, None}]
  /\ refused \subseteq Requests

\* Every slot is free or held by one request: release is idempotent along all
\* the paths that end an attempt and a body, no request takes two slots, and none
\* calls a remote provider without one.
SlotsConserved ==
  /\ permits + Cardinality(Holders) = Limit
  /\ \A r \in Requests : ~ (lease[r] = "held" /\ r \in own)
  /\ Remote \subseteq Holders

\* No more than REMOTE_MAX_CONCURRENT_REQUESTS remote calls at once, whatever
\* mixture of reserved and own slots they use (docs/security/overview.md:65):
\* what follows from SlotsConserved.
RemoteCallsBounded == Cardinality(Remote) <= Limit

\* Once its body has started, a stream that is over holds no slot, on success,
\* failure and disconnect alike, so that a client which has got [DONE] or an answer
\* is not refused a slot because of it; a completion never keeps one.
SlotsReturned ==
  \A r \in Holders : phase[r] = "done" => r \in Unstarted

\* A chain that fails has been tried to its end, with two exceptions: its client has
\* seen content, or the capacity of a later attempt was refused (model_router.py:311,
\* 371).  The second is not what the documents say: RefusalIsAsDocumented.
OnlyContentOrRefusalCutsChain ==
  \A r \in Requests :
    outcome[r] \in {"400", "500", "503", "error"} =>
      queue[r] = <<>> \/ emitted[r] # None \/ r \in refused

\* A client that has seen content of one provider never gets content of another
\* (README.md:149, "only falls back before the first content chunk").
NoFallbackAfterContent ==
  [][\A r \in Requests : emitted[r] # None => emitted'[r] = emitted[r]]_vars

\* Requests never wait for capacity: however long the attempts of the others last,
\* and whatever the limit leaves, a request that is in no attempt of its own can go
\* on without any error, be it to an attempt or to a refusal.
NobodyWaitsForCapacity ==
  \A r \in Requests :
    phase[r] \in {"new", "validated", "ready", "routing"} => ENABLED Advance(r)

\* docs/superpowers/specs/2026-09-12-production-readiness-design.md:67,
\* "Streaming must release remote capacity on success, failure, and disconnect."
StreamReleasesCapacity ==
  \A r \in Requests : phase[r] = "done" => lease[r] # "held"

\* What becomes of an automatic completion for which there is no slot, with the local
\* model loaded.  docs/api/README.md:232: "429 Too Many Requests - Access or remote
\* concurrency limit exceeded"; docs/user-guide/chat-usage.md:82-83: "Automatic
\* routing follows `FREE_PROVIDER_ORDER` and ends with the local fallback."
RefusalIsAsDocumented ==
  \A r \in refused :
    kind[r] = "complete" /\ wants[r] = "auto" /\ loaded =>
      outcome[r] = "429" \/ queue[r] = <<>>
=============================================================================
