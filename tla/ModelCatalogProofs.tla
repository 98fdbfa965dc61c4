------------------------- MODULE ModelCatalogProofs -------------------------
(***************************************************************************)
(* What no order of listings, refreshes, resolutions and late answers can  *)
(* do to the catalogs of ModelCatalog, for any threads, models and routes. *)
(*                                                                         *)
(* OnlyOnceFree alone is not inductive: a check may accept a model that an *)
(* earlier thread left in a cache.  What every step preserves is that each *)
(* list in the system, cached or in a thread's hands, holds only models    *)
(* that the provider once offered for nothing.                             *)
(***************************************************************************)
EXTENDS ModelCatalog, TLAPS

\* Every list of models in the system is of models that were free in an answer.
CachesFree ==
  /\ catalog # None => catalog \subseteq everFree
  /\ cached # None => cached \subseteq everFree

HandsFree ==
  \A t \in Threads : got[t] # None => got[t] \subseteq everFree \cup Routes

CatalogInv == TypeOK /\ CachesFree /\ HandsFree /\ OnlyOnceFree

-----------------------------------------------------------------------------

\* None is no list.
LEMMA ListIsSome == \A s \in Lists : s # None
BY ModelCatalogAssumption DEF Lists

\* The end of an operation leaves the thread with the list it ended with, and
\* with no model that is not in it.
LEMMA FinishChoice ==
  ASSUME NEW t \in Threads, NEW s, s \subseteq everFree \cup Routes, Finish(t, s)
  PROVE  /\ phase' = [phase EXCEPT ![t] = "idle"]
         /\ got' = [got EXCEPT ![t] = s]
         /\ \E c \in everFree \cup Routes \cup {None} : chosen' = [chosen EXCEPT ![t] = c]
<1>1. PICK c \in s \cup {None} : chosen' = [chosen EXCEPT ![t] = c]
  BY DEF Finish, Choices
<1>2. QED
  BY <1>1 DEF Finish

\* Whoever ends with a list of models that were free keeps the invariant.
LEMMA FinishInv ==
  ASSUME CatalogInv, NEW t \in Threads, NEW s, s \subseteq everFree \cup Routes,
         Finish(t, s),
         UNCHANGED <<offered, catalog, op, forced, everFree>>, fresh' \in BOOLEAN,
         cached' = cached \/ (cached' \in Lists /\ cached' \subseteq everFree),
         trouble' \in 0..MaxTrouble, lists' \in [Threads -> SUBSET Lists]
  PROVE  CatalogInv'
<1>1. PICK c \in everFree \cup Routes \cup {None} : chosen' = [chosen EXCEPT ![t] = c]
  BY FinishChoice
<1>2. phase' = [phase EXCEPT ![t] = "idle"] /\ got' = [got EXCEPT ![t] = s]
  BY FinishChoice
<1>3. TypeOK'
  BY <1>1, <1>2 DEF CatalogInv, TypeOK, Lists, Hands
<1>4. CachesFree'
  BY DEF CatalogInv, CachesFree
<1>5. HandsFree'
  BY <1>2 DEF CatalogInv, HandsFree, TypeOK
<1>6. OnlyOnceFree'
  BY <1>1 DEF CatalogInv, OnlyOnceFree, TypeOK
<1>7. QED
  BY <1>3, <1>4, <1>5, <1>6 DEF CatalogInv
\* Nothing is cached or chosen before the first request.
LEMMA InitCatalog == Init => CatalogInv
<1> SUFFICES ASSUME Init PROVE CatalogInv
  OBVIOUS
<1>1. TypeOK
  <2>1. trouble \in 0..MaxTrouble
    BY ModelCatalogAssumption DEF Init
  <2>2. op \in [Threads -> Operations]
    BY DEF Init, Operations
  <2>3. lists \in [Threads -> SUBSET Lists] /\ everFree \in Lists
    BY DEF Init, Lists
  <2>4. \A t \in Threads : phase[t] \notin {"answered", "storing"}
    BY DEF Init
  <2>5. got \in [Threads -> Hands]
    <3>1. None \in Hands
      BY DEF Hands
    <3>2. QED
      BY <3>1 DEF Init
  <2>6. chosen \in [Threads -> Models \cup Routes \cup {None}]
    BY DEF Init
  <2>7. phase \in [Threads -> {"idle", "checking", "looking", "asking", "answered", "storing"}]
    BY DEF Init
  <2>8. forced \in [Threads -> BOOLEAN]
    BY DEF Init
  <2>9. /\ offered \in [Models -> {"free", "paid", "absent"}]
        /\ catalog \in Lists \cup {None} /\ cached \in Lists \cup {None}
        /\ fresh \in BOOLEAN
    BY DEF Init
  <2>10. QED
    BY <2>1, <2>2, <2>3, <2>4, <2>5, <2>6, <2>7, <2>8, <2>9 DEF TypeOK
<1>2. CachesFree /\ HandsFree /\ OnlyOnceFree
  BY DEF Init, CachesFree, HandsFree, OnlyOnceFree
<1>3. QED
  BY <1>1, <1>2 DEF CatalogInv

\* The provider, the clock and the beginning of an operation put no list anywhere.
LEMMA QuietInv ==
  ASSUME CatalogInv,
         \/ \E m \in Models : Reprice(m)
         \/ Expire
         \/ \E t \in Threads, o \in Operations : Begin(t, o)
         \/ UNCHANGED vars
  PROVE  CatalogInv'
<1>1. CASE \E m \in Models : Reprice(m)
  <2>1. PICK m \in Models : Reprice(m)
    BY <1>1
  <2>2. TypeOK'
    BY <2>1, ModelCatalogAssumption DEF Reprice, CatalogInv, TypeOK, Lists, Normalize
  <2>3. CachesFree' /\ HandsFree' /\ OnlyOnceFree'
    BY <2>1 DEF Reprice, CatalogInv, CachesFree, HandsFree, OnlyOnceFree
  <2>4. QED
    BY <2>2, <2>3 DEF CatalogInv
<1>2. CASE Expire \/ UNCHANGED vars
  <2>1. TypeOK'
    BY <1>2 DEF Expire, vars, CatalogInv, TypeOK, Lists
  <2>2. CachesFree' /\ HandsFree' /\ OnlyOnceFree'
    BY <1>2 DEF Expire, vars, CatalogInv, CachesFree, HandsFree, OnlyOnceFree
  <2>3. QED
    BY <2>1, <2>2 DEF CatalogInv
<1>3. CASE \E t \in Threads, o \in Operations : Begin(t, o)
  <2>1. PICK t \in Threads, o \in Operations : Begin(t, o)
    BY <1>3
  <2>2. PICK p \in {"looking", "asking", "checking"} : phase' = [phase EXCEPT ![t] = p]
    BY <2>1 DEF Begin
  <2>3. lists' \in [Threads -> SUBSET Lists]
    BY <2>1 DEF Begin, CatalogInv, TypeOK, Lists, Normalize
  <2>4. TypeOK'
    <3>1. UNCHANGED <<offered, catalog, cached, fresh, trouble, everFree>>
      BY <2>1 DEF Begin
    <3>2. op' \in [Threads -> Operations] /\ forced' \in [Threads -> BOOLEAN]
      BY <2>1 DEF Begin, CatalogInv, TypeOK
    <3>3. got' \in [Threads -> Hands]
      <4>1. None \in Hands
        BY DEF Hands
      <4>2. QED
        BY <2>1, <4>1 DEF Begin, CatalogInv, TypeOK
    <3>4. chosen' \in [Threads -> Models \cup Routes \cup {None}]
      BY <2>1 DEF Begin, CatalogInv, TypeOK
    <3>5. phase' \in [Threads -> {"idle", "checking", "looking", "asking", "answered", "storing"}]
      BY <2>2 DEF CatalogInv, TypeOK
    <3>6. \A u \in Threads : phase'[u] \in {"answered", "storing"} => got'[u] # None /\ got'[u] \in Lists
      BY <2>1, <2>2 DEF Begin, CatalogInv, TypeOK
    <3>7. QED
      BY <2>3, <3>1, <3>2, <3>3, <3>4, <3>5, <3>6 DEF CatalogInv, TypeOK
  <2>5. CachesFree' /\ HandsFree' /\ OnlyOnceFree'
    BY <2>1 DEF Begin, CatalogInv, TypeOK, CachesFree, HandsFree, OnlyOnceFree
  <2>6. QED
    BY <2>4, <2>5 DEF CatalogInv
<1>4. QED
  BY <1>1, <1>2, <1>3

\* The two lists that a thread may find without asking are of free models.
LEMMA FoundLists ==
  ASSUME CatalogInv
  PROVE  /\ FreeModelIds \subseteq everFree \cup Routes
         /\ catalog # None => catalog \in Lists /\ catalog \subseteq everFree
         /\ cached # None => cached \subseteq everFree
BY DEF CatalogInv, TypeOK, CachesFree, FreeModelIds

\* A list that is delivered is on its way to the router's cache or the end of a
\* resolution.
LEMMA DeliverInv ==
  ASSUME CatalogInv, NEW t \in Threads, NEW s \in Lists, s \subseteq everFree,
         Deliver(t, s),
         UNCHANGED <<offered, cached, fresh, op, forced, everFree>>,
         catalog' = catalog \/ catalog' = s,
         trouble' \in 0..MaxTrouble, lists' \in [Threads -> SUBSET Lists]
  PROVE  CatalogInv'
<1>1. PICK c \in everFree \cup Routes \cup {None} : chosen' = [chosen EXCEPT ![t] = c]
  <2>1. CASE op[t] = "resolve"
    BY <2>1, FinishChoice DEF Deliver
  <2>2. CASE op[t] # "resolve"
    <3>1. chosen' = [chosen EXCEPT ![t] = chosen[t]]
      BY <2>2 DEF Deliver, CatalogInv, TypeOK
    <3>2. chosen[t] \in everFree \cup Routes \cup {None}
      BY DEF CatalogInv, OnlyOnceFree
    <3>3. QED
      BY <3>1, <3>2
  <2>3. QED
    BY <2>1, <2>2
<1>2. PICK p \in {"idle", "storing"} : phase' = [phase EXCEPT ![t] = p]
  BY DEF Deliver, Finish
<1>3. got' = [got EXCEPT ![t] = s]
  BY DEF Deliver, Finish
<1>4. TypeOK'
  BY <1>1, <1>2, <1>3, ListIsSome DEF CatalogInv, TypeOK, Lists, Hands
<1>5. CachesFree'
  BY DEF CatalogInv, CachesFree
<1>6. HandsFree'
  BY <1>3 DEF CatalogInv, HandsFree, TypeOK
<1>7. OnlyOnceFree'
  BY <1>1 DEF CatalogInv, OnlyOnceFree, TypeOK
<1>8. QED
  BY <1>4, <1>5, <1>6, <1>7 DEF CatalogInv

\* Every step of an operation.
LEMMA WorkInv ==
  ASSUME CatalogInv, NEW t \in Threads, Work(t)
  PROVE  CatalogInv'
<1>0. fresh \in BOOLEAN /\ trouble \in 0..MaxTrouble /\ lists \in [Threads -> SUBSET Lists]
  BY DEF CatalogInv, TypeOK
<1>1. CASE Check(t)
  <2>1. CASE op[t] \in FreeModelIds
    BY <1>0, <1>1, <2>1, FoundLists, FinishInv DEF Check
  <2>2. CASE op[t] \notin FreeModelIds
    <3>1. TypeOK'
      BY <1>1, <2>2 DEF Check, CatalogInv, TypeOK, Lists
    <3>2. CachesFree' /\ HandsFree' /\ OnlyOnceFree'
      BY <1>1, <2>2 DEF Check, CatalogInv, CachesFree, HandsFree, OnlyOnceFree
    <3>3. QED
      BY <3>1, <3>2 DEF CatalogInv
  <2>3. QED
    BY <2>1, <2>2
<1>2. CASE UseCache(t)
  BY <1>0, <1>2, FoundLists, FinishInv DEF UseCache
<1>3. CASE Miss(t)
  <2>1. TypeOK'
    BY <1>3 DEF Miss, CatalogInv, TypeOK, Lists
  <2>2. CachesFree' /\ HandsFree' /\ OnlyOnceFree'
    BY <1>3 DEF Miss, CatalogInv, CachesFree, HandsFree, OnlyOnceFree
  <2>3. QED
    BY <2>1, <2>2 DEF CatalogInv
<1>4. CASE UseCatalog(t)
  BY <1>0, <1>4, FoundLists, DeliverInv DEF UseCatalog
<1>5. CASE Answer(t)
  <2>1. TypeOK'
    BY <1>5, ListIsSome DEF Answer, Normalize, CatalogInv, TypeOK, Lists, Hands
  <2>2. everFree \subseteq everFree' /\ Normalize(offered) \subseteq everFree'
    BY <1>5 DEF Answer, Normalize
  <2>3. CachesFree' /\ HandsFree' /\ OnlyOnceFree'
    BY <1>5, <2>2 DEF Answer, CatalogInv, TypeOK, CachesFree, HandsFree, OnlyOnceFree
  <2>4. QED
    BY <2>1, <2>3 DEF CatalogInv
<1>6. ASSUME phase[t] \in {"answered", "storing"}
      PROVE  got[t] \in Lists /\ got[t] \subseteq everFree
  BY <1>6, ModelCatalogAssumption DEF CatalogInv, TypeOK, HandsFree, Lists
<1>7. CASE StoreCatalog(t)
  BY <1>0, <1>6, <1>7, DeliverInv DEF StoreCatalog
<1>8. CASE Malformed(t) \/ Fail(t)
  <2>1. trouble' \in 0..MaxTrouble
    BY <1>0, <1>8, ModelCatalogAssumption DEF Malformed, Fail
  <2>2. lists' \in [Threads -> SUBSET Lists]
    BY <1>0, <1>8 DEF Malformed, Fail, WithFailure, Lists
  <2>3. QED
    BY <1>8, <2>1, <2>2, DeliverInv DEF Malformed, Fail, Lists
<1>9. CASE StoreCache(t)
  <2>1. got[t] \in Lists /\ got[t] \subseteq everFree
    BY <1>6, <1>9 DEF StoreCache
  <2>2. QED
    BY <1>0, <1>9, <2>1, FinishInv DEF StoreCache
<1>10. QED
  BY <1>1, <1>2, <1>3, <1>4, <1>5, <1>7, <1>8, <1>9 DEF Work

\* No step puts a model into a cache or a request that was never free.
LEMMA CatalogStep == CatalogInv /\ [Next]_vars => CatalogInv'
BY QuietInv, WorkInv DEF Next

-----------------------------------------------------------------------------
(* The theorems.                                                           *)

\* Caches and threads only ever hold models that were free in some answer.
THEOREM CatalogInvariance == Spec => []CatalogInv
<1>1. QED
  BY InitCatalog, CatalogStep, PTL DEF Spec

\* Type correctness, and a thread that is about to store a list has one.
THEOREM CatalogTypes == Spec => []TypeOK
<1>1. CatalogInv => TypeOK
  BY DEF CatalogInv
<1>2. QED
  BY <1>1, CatalogInvariance, PTL

\* No request is sent to a model that no answer ever had as free, whatever the
\* threads, the failures and the order in which the caches are written.
THEOREM OnlyFreeModels == Spec => []OnlyOnceFree
<1>1. CatalogInv => OnlyOnceFree
  BY DEF CatalogInv
<1>2. QED
  BY <1>1, CatalogInvariance, PTL

\* What a refresh has in hand, the provider had while the refresh was served.
HonestAt(t) ==
  op[t] = "refresh" =>
    /\ phase[t] # "checking"
    /\ phase[t] = "asking" => forced[t]
    /\ phase[t] # "idle" => Normalize(offered) \in lists[t]
    /\ got[t] # None => got[t] \in lists[t]

Honest == \A t \in Threads : HonestAt(t)

\* A new price is in the lists of every refresh that is being served.
LEMMA RepriceHonest ==
  ASSUME TypeOK, Honest, NEW m \in Models, Reprice(m)
  PROVE  Honest'
<1>1. ASSUME NEW t \in Threads, op[t] = "refresh"
      PROVE  HonestAt(t)'
  <2>1. /\ UNCHANGED <<op, phase, forced, got>>
        /\ lists' = [q \in Threads |->
             IF phase[q] = "idle" \/ lists[q] = {} THEN lists[q]
             ELSE lists[q] \cup {Normalize(offered')}]
    BY DEF Reprice
  <2>2. HonestAt(t)
    BY DEF Honest
  <2>3. lists[t] \subseteq lists'[t]
    BY <2>1
  <2>4. phase[t] # "idle" => Normalize(offered') \in lists'[t]
    BY <1>1, <2>1, <2>2 DEF HonestAt
  <2>5. Normalize(offered)' = Normalize(offered')
    BY DEF Normalize
  <2>6. QED
    BY <2>1, <2>2, <2>3, <2>4, <2>5 DEF HonestAt
<1>2. op' = op
  BY DEF Reprice
<1>3. QED
  BY <1>1, <1>2 DEF Honest, HonestAt

\* A thread's step keeps what the others have.
LEMMA WorkHonest ==
  ASSUME TypeOK, Honest, NEW t \in Threads, Work(t)
  PROVE  Honest'
<1>1. /\ UNCHANGED <<offered, op>>
      /\ \A q \in Threads \ {t} : /\ phase'[q] = phase[q] /\ forced'[q] = forced[q]
                                  /\ got'[q] = got[q] /\ lists'[q] = lists[q]
  BY DEF TypeOK, Work, Check, UseCache, Miss, UseCatalog, Answer, StoreCatalog, Malformed, Fail,
         StoreCache, Deliver, Finish, WithFailure
<1>2. ASSUME op[t] = "refresh"
      PROVE  HonestAt(t)'
  <2> USE <1>1, <1>2 DEF HonestAt
  <2>1. HonestAt(t) /\ Normalize(offered)' = Normalize(offered)
    BY DEF Honest, Normalize
  <2>2. CASE Miss(t)
    BY <2>1, <2>2 DEF Miss, TypeOK
  <2>3. CASE Answer(t)
    BY <2>1, <2>3 DEF Answer, TypeOK
  <2>4. CASE StoreCatalog(t)
    BY <2>1, <2>4 DEF StoreCatalog, Deliver, TypeOK
  <2>5. CASE Malformed(t) \/ Fail(t)
    BY <2>1, <2>5 DEF Malformed, Fail, Deliver, WithFailure, TypeOK
  <2>6. CASE StoreCache(t)
    <3>1. phase' = [phase EXCEPT ![t] = "idle"] /\ got' = [got EXCEPT ![t] = got[t]]
      BY <2>6 DEF StoreCache, Finish
    <3>2. UNCHANGED <<lists, forced>>
      BY <2>6 DEF StoreCache
    <3>3. QED
      BY <2>1, <3>1, <3>2 DEF TypeOK
  <2>7. CASE Check(t) \/ UseCache(t) \/ UseCatalog(t)
    BY <2>1, <2>7 DEF Check, UseCache, UseCatalog
  <2>8. QED
    BY <2>2, <2>3, <2>4, <2>5, <2>6, <2>7 DEF Work
<1>3. ASSUME NEW q \in Threads, q # t
      PROVE  HonestAt(q)'
  BY <1>1, <1>3 DEF Honest, HonestAt, Normalize
<1>4. QED
  BY <1>1, <1>2, <1>3 DEF Honest, HonestAt

\* A refresh answers with what the provider had while it was served, or, when the
\* provider fails, with nothing.
THEOREM HonestRefresh == Spec => []RefreshIsHonest
<1>1. Init => Honest
  BY DEF Init, Honest, HonestAt
<1>2. CatalogInv /\ Honest /\ [Next]_vars => Honest'
  <2> SUFFICES ASSUME CatalogInv, Honest, [Next]_vars PROVE Honest'
    OBVIOUS
  <2>1. ASSUME NEW t \in Threads, NEW o \in Operations, Begin(t, o)
        PROVE  Honest'
    <3>1. /\ UNCHANGED offered
          /\ \A q \in Threads \ {t} : /\ phase'[q] = phase[q] /\ forced'[q] = forced[q]
                                      /\ got'[q] = got[q] /\ lists'[q] = lists[q]
                                      /\ op'[q] = op[q]
      BY <2>1 DEF CatalogInv, TypeOK, Begin
    <3>2. /\ op'[t] = o /\ got'[t] = None
          /\ o = "refresh" => phase'[t] = "looking" /\ lists'[t] = {Normalize(offered)}
      BY <2>1 DEF CatalogInv, TypeOK, Begin
    <3>3. \A q \in Threads : HonestAt(q)'
      BY <3>1, <3>2 DEF Honest, HonestAt, Normalize
    <3>4. QED
      BY <3>3 DEF Honest
  <2>2. CASE Expire
    BY <2>2 DEF Expire, Honest, HonestAt, Normalize
  <2>3. CASE UNCHANGED vars
    BY <2>3 DEF vars, Honest, HonestAt, Normalize
  <2>4. QED
    BY <2>1, <2>2, <2>3, RepriceHonest, WorkHonest DEF Next, CatalogInv
<1>3. Honest => RefreshIsHonest
  BY DEF Honest, HonestAt, RefreshIsHonest
<1>4. QED
  BY <1>1, <1>2, <1>3, CatalogInvariance, PTL DEF Spec
=============================================================================
