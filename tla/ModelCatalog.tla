---------------------------- MODULE ModelCatalog ----------------------------
(***************************************************************************)
(* The free-model catalog of one remote provider and who may use it:       *)
(* ModelRouter.list_models, _is_eligible and _catalog_for                  *)
(* (services/model_router.py) over the two caches, and                     *)
(* OpenAICompatibleProvider.list_models and _resolve_model                 *)
(* (services/remote_provider.py).                                          *)
(*                                                                         *)
(* The router's cache lives _CATALOG_TTL_SECONDS, the provider's own       *)
(* catalog until somebody refreshes it.  Neither has a lock: threads meet  *)
(* between the reading of a cache, the answer over HTTP and the writing of *)
(* either cache.  The 30 seconds are a step that may come at any time.     *)
(***************************************************************************)
EXTENDS Naturals

CONSTANTS Threads,      \* executor threads that serve requests
          Models,       \* the models the provider may list
          Routes,       \* ids that are always eligible: _ROUTE_ALIASES, configured ids
          None,
          MaxTrouble    \* bound on the price changes and failed answers

ASSUME ModelCatalogAssumption ==
  /\ Models \cap Routes = {}
  /\ None \notin Models \cup Routes
  /\ \A s \in SUBSET (Models \cup Routes) : s # None
  /\ MaxTrouble \in Nat

VARIABLES offered,   \* the provider's price list: "free", "paid" or "absent"
          catalog,   \* provider._catalog, or None
          cached,    \* the router's entry: the models, or None
          fresh,     \* whether that entry is within its time to live
          phase,     \* where each thread is
          op,        \* what it does: "list", "refresh", "resolve" or a model to check
          forced,    \* whether it calls provider.list_models(refresh=True)
          got,       \* the list of models it has in hand, or None
          chosen,    \* the model it sends its request to, or None
          trouble,   \* price changes and failed answers so far
          lists,     \* history: the lists a refresh or a resolution may answer with
          everFree   \* history: the models that were free in an answer

vars == <<offered, catalog, cached, fresh, phase, op, forced, got, chosen, trouble,
          lists, everFree>>

Operations == {"list", "refresh", "resolve"} \cup Models \cup Routes

\* Mutant: an entry without a price of zero passes.
NormalizeAny(o) == {m \in Models : o[m] # "absent"}

\* _normalize_model keeps the free text models of an answer.
Normalize(o) == {m \in Models : o[m] = "free"}

Init ==
  /\ offered \in [Models -> {"free", "paid", "absent"}]
  /\ catalog = None
  /\ cached = None
  /\ fresh = FALSE
  /\ phase = [t \in Threads |-> "idle"]
  /\ op = [t \in Threads |-> "list"]
  /\ forced = [t \in Threads |-> FALSE]
  /\ got = [t \in Threads |-> None]
  /\ chosen = [t \in Threads |-> None]
  /\ trouble = 0
  /\ lists = [t \in Threads |-> {}]
  /\ everFree = {}

-----------------------------------------------------------------------------
(* The provider and the clock.                                             *)

\* The provider changes the price of a model, adds it or removes it.
Reprice(m) ==
  /\ trouble < MaxTrouble
  /\ trouble' = trouble + 1
  /\ \E p \in {"free", "paid", "absent"} \ {offered[m]} : offered' = [offered EXCEPT ![m] = p]
  /\ lists' = [t \in Threads |->
       IF phase[t] = "idle" \/ lists[t] = {} THEN lists[t]
       ELSE lists[t] \cup {Normalize(offered')}]
  /\ UNCHANGED <<catalog, cached, fresh, phase, op, forced, got, chosen, everFree>>

\* _CATALOG_TTL_SECONDS have passed.
Expire ==
  /\ fresh
  /\ fresh' = FALSE
  /\ UNCHANGED <<offered, catalog, cached, phase, op, forced, got, chosen, trouble,
                 lists, everFree>>

-----------------------------------------------------------------------------
(* The steps of an operation.                                              *)

Begin(t, o) ==
  /\ phase[t] = "idle"
  /\ op' = [op EXCEPT ![t] = o]
  /\ phase' = [phase EXCEPT ![t] = CASE o \in {"list", "refresh"} -> "looking"
                                     [] o = "resolve"             -> "asking"
                                     [] OTHER                     -> "checking"]
  /\ forced' = [forced EXCEPT ![t] = FALSE]
  /\ got' = [got EXCEPT ![t] = None]
  /\ chosen' = [chosen EXCEPT ![t] = None]
  /\ lists' = [lists EXCEPT ![t] =
       IF o \in {"refresh", "resolve"} THEN {Normalize(offered)} ELSE {}]
  /\ UNCHANGED <<offered, catalog, cached, fresh, trouble, everFree>>

\* The models of list s that an operation may use: _resolve_model takes any of
\* them, a check the one it is about, a listing none.
Choices(t, s) == {m \in s : op[t] \in {"resolve", m}}

\* The operation ends with list s in hand, with a model or, raising, without one.
Finish(t, s) ==
  /\ phase' = [phase EXCEPT ![t] = "idle"]
  /\ got' = [got EXCEPT ![t] = s]
  /\ \E c \in IF Choices(t, s) = {} THEN {None} ELSE Choices(t, s) :
       chosen' = [chosen EXCEPT ![t] = c]

\* provider.free_model_ids: the fixed routes and the provider's own catalog.
FreeModelIds == Routes \cup (IF catalog = None THEN {} ELSE catalog)

\* _is_eligible accepts a model of these ids; for another one it looks for
\* the list that _catalog_for returns.
Check(t) ==
  /\ phase[t] = "checking"
  /\ IF op[t] \in FreeModelIds
     THEN Finish(t, FreeModelIds)
     ELSE /\ phase' = [phase EXCEPT ![t] = "looking"]
          /\ UNCHANGED <<got, chosen>>
  /\ UNCHANGED <<offered, catalog, cached, fresh, op, forced, trouble, lists, everFree>>

UseCache(t) ==
  /\ phase[t] = "looking"
  /\ op[t] # "refresh"
  /\ cached # None
  /\ fresh
  /\ Finish(t, cached)
  /\ UNCHANGED <<offered, catalog, cached, fresh, op, forced, trouble, lists, everFree>>

\* Mutant: refresh=refresh in the place of refresh or cached is not None.
MissKeeping(t) ==
  /\ phase[t] = "looking"
  /\ op[t] = "refresh" \/ ~ fresh
  /\ forced' = [forced EXCEPT ![t] = op[t] = "refresh"]
  /\ phase' = [phase EXCEPT ![t] = "asking"]
  /\ UNCHANGED <<offered, catalog, cached, fresh, op, got, chosen, trouble, lists, everFree>>

\* An expired entry is fetched anew; without one the provider's catalog will do.
Miss(t) ==
  /\ phase[t] = "looking"
  /\ op[t] = "refresh" \/ ~ fresh
  /\ forced' = [forced EXCEPT ![t] = op[t] = "refresh" \/ cached # None]
  /\ phase' = [phase EXCEPT ![t] = "asking"]
  /\ UNCHANGED <<offered, catalog, cached, fresh, op, got, chosen, trouble, lists, everFree>>

\* A list is in hand: _catalog_for stores it, _resolve_model chooses from it.
Deliver(t, s) ==
  IF op[t] = "resolve"
  THEN Finish(t, s)
  ELSE /\ got' = [got EXCEPT ![t] = s]
       /\ phase' = [phase EXCEPT ![t] = "storing"]
       /\ UNCHANGED chosen

\* Mutant: the provider's catalog is used although a refresh is asked for.
UseCatalogAlways(t) ==
  /\ phase[t] = "asking"
  /\ catalog # None
  /\ Deliver(t, catalog)
  /\ UNCHANGED <<offered, catalog, cached, fresh, op, forced, trouble, lists, everFree>>

UseCatalog(t) ==
  /\ phase[t] = "asking"
  /\ catalog # None
  /\ ~ forced[t]
  /\ Deliver(t, catalog)
  /\ UNCHANGED <<offered, catalog, cached, fresh, op, forced, trouble, lists, everFree>>

\* A failed request may answer with no model at all.
WithFailure(t) == [lists EXCEPT ![t] = IF @ = {} THEN {} ELSE @ \cup {{}}]

\* GET /models is answered; the answer is normalised and on its way.
Answer(t) ==
  /\ phase[t] = "asking"
  /\ catalog = None \/ forced[t]
  /\ got' = [got EXCEPT ![t] = Normalize(offered)]
  /\ phase' = [phase EXCEPT ![t] = "answered"]
  /\ everFree' = everFree \cup {m \in Models : offered[m] = "free"}
  /\ UNCHANGED <<offered, catalog, cached, fresh, op, forced, chosen, trouble, lists>>

StoreCatalog(t) ==
  /\ phase[t] = "answered"
  /\ catalog' = got[t]
  /\ Deliver(t, got[t])
  /\ UNCHANGED <<offered, cached, fresh, op, forced, trouble, lists, everFree>>

\* An answer that is not a catalog empties the provider's catalog.
Malformed(t) ==
  /\ phase[t] = "asking"
  /\ catalog = None \/ forced[t]
  /\ trouble < MaxTrouble
  /\ trouble' = trouble + 1
  /\ catalog' = {}
  /\ Deliver(t, {})
  /\ lists' = WithFailure(t)
  /\ UNCHANGED <<offered, cached, fresh, op, forced, everFree>>

\* Mutant: nothing is listed after an HTTP error.
FailUnset(t) ==
  /\ phase[t] = "asking"
  /\ catalog = None \/ forced[t]
  /\ trouble < MaxTrouble
  /\ trouble' = trouble + 1
  /\ phase' = [phase EXCEPT ![t] = "storing"]
  /\ lists' = WithFailure(t)
  /\ UNCHANGED <<offered, catalog, cached, fresh, op, forced, got, chosen, everFree>>

\* An HTTP error leaves the provider's catalog alone; _catalog_for takes the
\* empty list for the answer, and _resolve_model raises.
Fail(t) ==
  /\ phase[t] = "asking"
  /\ catalog = None \/ forced[t]
  /\ trouble < MaxTrouble
  /\ trouble' = trouble + 1
  /\ Deliver(t, {})
  /\ lists' = WithFailure(t)
  /\ UNCHANGED <<offered, catalog, cached, fresh, op, forced, everFree>>

\* _catalog_cache[provider.name] = (time.monotonic(), list(models))
StoreCache(t) ==
  /\ phase[t] = "storing"
  /\ cached' = got[t]
  /\ fresh' = TRUE
  /\ Finish(t, got[t])
  /\ UNCHANGED <<offered, catalog, op, forced, trouble, lists, everFree>>

Work(t) ==
  \/ Check(t) \/ UseCache(t) \/ Miss(t) \/ UseCatalog(t)
  \/ Answer(t) \/ StoreCatalog(t) \/ Malformed(t) \/ Fail(t) \/ StoreCache(t)

Next ==
  \/ \E m \in Models : Reprice(m)
  \/ Expire
  \/ \E t \in Threads : Work(t) \/ \E o \in Operations : Begin(t, o)

Spec == Init /\ [][Next]_vars

\* Threads run, time passes, and clients go on listing the models.
FairSpec ==
  /\ Spec
  /\ \A t \in Threads : WF_vars(Work(t))
  /\ WF_vars(Expire)
  /\ SF_vars(\E t \in Threads : Begin(t, "list"))

-----------------------------------------------------------------------------
(* Properties.                                                             *)

Lists == SUBSET Models

\* What a thread may have in hand.
Hands == (SUBSET (Models \cup Routes)) \cup {None}

\* The type of every variable; a thread that has an answer to store has a list.
TypeOK ==
  /\ offered \in [Models -> {"free", "paid", "absent"}]
  /\ catalog \in Lists \cup {None}
  /\ cached \in Lists \cup {None}
  /\ fresh \in BOOLEAN
  /\ phase \in [Threads -> {"idle", "checking", "looking", "asking", "answered", "storing"}]
  /\ op \in [Threads -> Operations]
  /\ forced \in [Threads -> BOOLEAN]
  /\ got \in [Threads -> Hands]
  /\ \A t \in Threads : phase[t] \in {"answered", "storing"} => got[t] # None /\ got[t] \in Lists
  /\ chosen \in [Threads -> Models \cup Routes \cup {None}]
  /\ trouble \in 0..MaxTrouble
  /\ lists \in [Threads -> SUBSET Lists]
  /\ everFree \in Lists

\* No request goes to a model that is not a fixed route and that no answer of the
\* provider ever had as free, whichever threads overwrite each other's caches.  A
\* model that was free once and is paid now may still be chosen, out of the router's
\* cache until it expires and out of the provider's catalog for as long as nobody
\* refreshes it: that is RemovedNotSelected.
OnlyOnceFree ==
  \A t \in Threads : chosen[t] \in everFree \cup Routes \cup {None}

\* POST /models/refresh answers with a list the provider had while the request
\* was served, or with none when the provider failed: never with what another
\* thread found in a cache.
RefreshIsHonest ==
  \A t \in Threads :
    op[t] = "refresh" /\ phase[t] = "idle" /\ got[t] # None => got[t] \in lists[t]

\* Slow answers may overwrite newer ones and failures may empty a cache, but
\* when the provider is quiet both caches come to agree with it for good.
CatalogSettles ==
  <>[](catalog = Normalize(offered) /\ cached = Normalize(offered))

\* docs/superpowers/specs/2026-09-09-free-model-routing-and-theme-design.md:121-122, "The catalog
\* is still checked at runtime so removed entries are not selected"; :267, "No paid
\* model is selected by automatic free mode.": a model that is resolved was offered,
\* and for nothing, at some time while the request was served.
RemovedNotSelected ==
  \A t \in Threads :
    op[t] = "resolve" /\ chosen[t] # None => chosen[t] \in UNION lists[t]
=============================================================================
