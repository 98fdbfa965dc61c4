-------------------------- MODULE RemoteCallsProofs --------------------------
(***************************************************************************)
(* Proofs about RemoteCalls for any number of requests, any providers and  *)
(* any limit.  The argument counts holders: a request holds at most one    *)
(* slot, every step that moves a request in or out of Holders changes      *)
(* permits by one the other way, and a request calls a remote provider     *)
(* only while it is a holder.                                              *)
(*                                                                         *)
(* That a request need not wait for capacity is TLC's to check; proved is  *)
(* that its steps are counted: a chain is never longer than the order, and *)
(* each step leaves fewer.                                                 *)
(***************************************************************************)
EXTENDS RemoteCalls, WellFoundedInduction, FiniteSetTheorems, SequenceTheorems, TLAPS

\* Which phases hold a slot, and as what.
HoldInv ==
  /\ \A r \in Requests : r \in own => phase[r] = "remote" /\ lease[r] # "held"
  /\ \A r \in Requests : phase[r] = "remote" => r \in own \/ lease[r] = "held"
  /\ \A r \in Requests : phase[r] \in {"new", "validated"} => lease[r] = "none"
  /\ \A r \in Requests : kind[r] = "complete" => lease[r] = "none"
  /\ \A r \in Requests :
       phase[r] \in {"validated", "ready", "finishing"} => kind[r] = "stream"
  /\ \A r \in Requests :
       phase[r] = "done" /\ lease[r] = "held" => outcome[r] = "abandoned"

\* What the client has seen is from the attempt under way, or the stream is ending.
EmittedInv ==
  \A r \in Requests :
    emitted[r] # None => \/ /\ phase[r] \in {"remote", "local"}
                            /\ emitted[r] = Head(queue[r])
                         \/ phase[r] \in {"finishing", "done"}

\* Enough of the types of emitted and queue to update them.
Domains == DOMAIN emitted = Requests /\ DOMAIN queue = Requests

SlotInv ==
  /\ SlotTypes
  /\ Domains
  /\ HoldInv
  /\ EmittedInv
  /\ permits + Cardinality(Holders) = Limit

-----------------------------------------------------------------------------

\* The requests that hold a slot can be counted.
LEMMA HoldersFinite ==
  IsFiniteSet(Holders) /\ Cardinality(Holders) \in Nat
<1>1. Holders \subseteq Requests
  BY DEF Holders
<1>2. QED
  BY <1>1, FS_Subset, FS_CardinalityType, RemoteCallsAssumption

\* Before any request the semaphore is full.
LEMMA InitSlots == Init => SlotInv
<1> SUFFICES ASSUME Init PROVE SlotInv
  OBVIOUS
<1>1. Holders = {}
  BY DEF Init, Holders
<1>2. permits + Cardinality(Holders) = Limit
  BY <1>1, FS_EmptySet, RemoteCallsAssumption DEF Init
<1>3. SlotTypes
  BY RemoteCallsAssumption DEF Init, SlotTypes, Phases, Outcomes
<1>4. HoldInv /\ EmittedInv /\ Domains
  BY DEF Init, HoldInv, EmittedInv, Domains
<1>5. QED
  BY <1>2, <1>3, <1>4 DEF SlotInv

\* The three ways a step can move the slots.
LEMMA NoSlotMoves ==
  ASSUME SlotInv, Holders' = Holders, permits' = permits
  PROVE  permits' + Cardinality(Holders') = Limit
BY DEF SlotInv

\* A request that held no slot takes one from the semaphore.
LEMMA SlotTaken ==
  ASSUME SlotInv, NEW r \in Requests, r \notin Holders,
         Holders' = Holders \cup {r}, permits > 0, permits' = permits - 1
  PROVE  permits' \in Nat /\ permits' + Cardinality(Holders') = Limit
<1>1. Cardinality(Holders') = Cardinality(Holders) + 1
  BY HoldersFinite, FS_AddElement
<1>2. QED
  BY <1>1, HoldersFinite, RemoteCallsAssumption DEF SlotInv, SlotTypes

\* A request that held a slot puts it back.
LEMMA SlotReturned ==
  ASSUME SlotInv, NEW r \in Holders,
         Holders' = Holders \ {r}, permits' = permits + 1
  PROVE  permits' \in Nat /\ permits' + Cardinality(Holders') = Limit
<1>1. Cardinality(Holders') = Cardinality(Holders) - 1
  BY HoldersFinite, FS_RemoveElement
<1>2. QED
  BY <1>1, HoldersFinite, RemoteCallsAssumption DEF SlotInv, SlotTypes

\* A step of one request r that touches the slots of no other: it takes one,
\* returns one, or moves none.
LEMMA SlotsAccounted ==
  ASSUME SlotInv, SlotTypes', NEW r \in Requests,
         \A q \in Requests \ {r} : lease'[q] = lease[q] /\ (q \in own' <=> q \in own),
         \/ r \notin Holders /\ r \in Holders' /\ permits > 0 /\ permits' = permits - 1
         \/ r \in Holders /\ r \notin Holders' /\ permits' = permits + 1
         \/ (r \in Holders <=> r \in Holders') /\ permits' = permits
  PROVE  permits' + Cardinality(Holders') = Limit
<1>1. \A q \in Requests \ {r} : q \in Holders' <=> q \in Holders
  BY DEF Holders
<1>2. Holders \subseteq Requests /\ Holders' \subseteq Requests
  BY DEF Holders
<1>a. CASE r \notin Holders /\ r \in Holders' /\ permits > 0 /\ permits' = permits - 1
  <2>1. Holders' = Holders \cup {r}
    BY <1>1, <1>2, <1>a
  <2>2. QED
    BY <1>a, <2>1, SlotTaken
<1>b. CASE r \in Holders /\ r \notin Holders' /\ permits' = permits + 1
  <2>1. Holders' = Holders \ {r}
    BY <1>1, <1>2, <1>b
  <2>2. QED
    BY <1>b, <2>1, SlotReturned
<1>c. CASE (r \in Holders <=> r \in Holders') /\ permits' = permits
  <2>1. Holders' = Holders
    BY <1>1, <1>2, <1>c
  <2>2. QED
    BY <1>c, <2>1, NoSlotMoves
<1>d. QED
  BY <1>a, <1>b, <1>c
-----------------------------------------------------------------------------
(* The steps.                                                              *)

\* Steps that neither take nor return a slot.
LEMMA QuietSteps ==
  ASSUME SlotInv, NEW r \in Requests,
         \/ StreamValidate(r) \/ RagFails(r) \/ BodyStart(r) \/ DropUnstarted(r)
         \/ CompleteStart(r) \/ SkipLocal(r) \/ LocalBegin(r) \/ RemoteRefused(r)
         \/ Chunk(r) \/ Exhaust(r)
  PROVE  SlotInv'
<1> USE RemoteCallsAssumption
<1>1. UNCHANGED <<permits, lease, own, kind>>
  BY DEF StreamValidate, RagFails, BodyStart, DropUnstarted, CompleteStart, SkipLocal,
         LocalBegin, RemoteRefused, Chunk, Exhaust, requestVars
<1>2. permits' + Cardinality(Holders') = Limit
  BY <1>1, NoSlotMoves DEF Holders
<1>3. SlotTypes'
  BY <1>1 DEF SlotInv, SlotTypes, StreamValidate, RagFails, BodyStart, DropUnstarted,
              CompleteStart, SkipLocal, LocalBegin, RemoteRefused, Chunk, Exhaust, End,
              Leave, Phases, Outcomes, requestVars
<1>4. Domains'
  BY DEF SlotInv, Domains, StreamValidate, RagFails, BodyStart, DropUnstarted,
         CompleteStart, SkipLocal, LocalBegin, RemoteRefused, Chunk, Exhaust, requestVars
<1>5. HoldInv'
  BY <1>1 DEF SlotInv, SlotTypes, HoldInv, StreamValidate, RagFails, BodyStart,
              DropUnstarted, CompleteStart, SkipLocal, LocalBegin, RemoteRefused, Chunk,
              Exhaust, End, Leave, Trying, requestVars
<1>6. EmittedInv'
  BY DEF SlotInv, SlotTypes, Domains, EmittedInv, StreamValidate, RagFails, BodyStart,
         DropUnstarted, CompleteStart, SkipLocal, LocalBegin, RemoteRefused, Chunk,
         Exhaust, End, Leave, Trying, requestVars
<1>7. QED
  BY <1>2, <1>3, <1>4, <1>5, <1>6 DEF SlotInv

\* A stream reserves a slot, or an attempt takes one.
LEMMA TakingSteps ==
  ASSUME SlotInv, NEW r \in Requests, Reserve(r) \/ RemoteBegin(r)
  PROVE  SlotInv'
<1> USE RemoteCallsAssumption
<1>1. SlotTypes'
  <2>1. CASE Reserve(r)
    BY <2>1 DEF Reserve, SlotInv, SlotTypes, End, Phases, Outcomes
  <2>2. CASE RemoteBegin(r)
    BY <2>2 DEF RemoteBegin, SlotInv, SlotTypes, End, Phases, Outcomes
  <2>3. QED
    BY <2>1, <2>2
<1>2. HoldInv'
  <2>1. CASE Reserve(r)
    BY <2>1 DEF Reserve, SlotInv, SlotTypes, HoldInv, Trying, End
  <2>2. CASE RemoteBegin(r)
    BY <2>2 DEF RemoteBegin, SlotInv, SlotTypes, HoldInv, Trying, End
  <2>3. QED
    BY <2>1, <2>2
<1>3. EmittedInv'
  BY DEF SlotInv, SlotTypes, Domains, EmittedInv, Reserve, RemoteBegin, Trying, End
<1>4. \A q \in Requests \ {r} : lease'[q] = lease[q] /\ (q \in own' <=> q \in own)
  BY DEF SlotInv, SlotTypes, Reserve, RemoteBegin
<1>5. \/ r \notin Holders /\ r \in Holders' /\ permits > 0 /\ permits' = permits - 1
      \/ (r \in Holders <=> r \in Holders') /\ permits' = permits
  BY DEF SlotInv, SlotTypes, HoldInv, Reserve, RemoteBegin, Trying, Holders
<1>6. Domains'
  BY DEF SlotInv, Domains, Reserve, RemoteBegin
<1>7. QED
  BY <1>1, <1>2, <1>3, <1>4, <1>5, <1>6, SlotsAccounted DEF SlotInv

\* An attempt ends.
LEMMA AttemptEnds ==
  ASSUME SlotInv, NEW r \in Requests, Succeed(r) \/ Fail(r)
  PROVE  SlotInv'
<1> USE RemoteCallsAssumption DEF ReleaseAttempt
<1>1. SlotTypes'
  <2>1. CASE Succeed(r)
    BY <2>1 DEF Succeed, SlotInv, SlotTypes, Leave, Phases, Outcomes
  <2>2. CASE Fail(r)
    BY <2>2 DEF Fail, SlotInv, SlotTypes, Leave, Phases, Outcomes
  <2>3. QED
    BY <2>1, <2>2
<1>2. HoldInv'
  BY DEF SlotInv, SlotTypes, HoldInv, Succeed, Fail, Leave
<1>3. EmittedInv'
  BY DEF SlotInv, SlotTypes, Domains, EmittedInv, Succeed, Fail, Leave
<1>4. \A q \in Requests \ {r} : lease'[q] = lease[q] /\ (q \in own' <=> q \in own)
  BY DEF SlotInv, SlotTypes, Succeed, Fail
<1>5. \/ r \in Holders /\ r \notin Holders' /\ permits' = permits + 1
      \/ (r \in Holders <=> r \in Holders') /\ permits' = permits
  BY DEF SlotInv, SlotTypes, HoldInv, Succeed, Fail, Holders
<1>6. Domains'
  BY DEF SlotInv, Domains, Succeed, Fail
<1>7. QED
  BY <1>1, <1>2, <1>3, <1>4, <1>5, <1>6, SlotsAccounted DEF SlotInv

\* A body ends, or is dropped by its client.
LEMMA BodyEnds ==
  ASSUME SlotInv, NEW r \in Requests, Finish(r) \/ Drop(r)
  PROVE  SlotInv'
<1> USE RemoteCallsAssumption DEF ReleaseLease
<1>1. SlotTypes'
  <2>1. CASE Finish(r)
    BY <2>1 DEF Finish, SlotInv, SlotTypes, End, Phases, Outcomes
  <2>2. CASE Drop(r)
    BY <2>2 DEF Drop, SlotInv, SlotTypes, End, Phases, Outcomes
  <2>3. QED
    BY <2>1, <2>2
<1>2. HoldInv'
  BY DEF SlotInv, SlotTypes, HoldInv, Finish, Drop, End
<1>3. EmittedInv'
  BY DEF SlotInv, SlotTypes, Domains, EmittedInv, Finish, Drop, End
<1>4. \A q \in Requests \ {r} : lease'[q] = lease[q] /\ (q \in own' <=> q \in own)
  BY DEF SlotInv, SlotTypes, Finish, Drop
<1>5. \/ r \in Holders /\ r \notin Holders' /\ permits' = permits + 1
      \/ (r \in Holders <=> r \in Holders') /\ permits' = permits
  BY DEF SlotInv, SlotTypes, HoldInv, Finish, Drop, Holders
<1>6. Domains'
  BY DEF SlotInv, Domains, Finish, Drop
<1>7. QED
  BY <1>1, <1>2, <1>3, <1>4, <1>5, <1>6, SlotsAccounted DEF SlotInv

\* Every step of the routing loops and of the body preserves the invariant.
LEMMA SlotStep == SlotInv /\ [Next]_vars => SlotInv'
<1> SUFFICES ASSUME SlotInv, [Next]_vars PROVE SlotInv'
  OBVIOUS
<1>1. CASE LoadOrUnload \/ UNCHANGED vars
  <2>1. UNCHANGED <<permits, phase, requestVars>>
    BY <1>1 DEF LoadOrUnload, vars
  <2>2. permits' + Cardinality(Holders') = Limit
    BY <2>1, NoSlotMoves DEF requestVars, Holders
  <2>3. SlotTypes' /\ Domains' /\ HoldInv' /\ EmittedInv'
    BY <2>1 DEF requestVars, SlotInv, SlotTypes, Domains, HoldInv, EmittedInv
  <2>4. QED
    BY <2>2, <2>3 DEF SlotInv
<1>2. CASE \E r \in Requests : Serve(r) \/ Chunk(r) \/ DropUnstarted(r) \/ Drop(r)
  BY <1>2, QuietSteps, TakingSteps, AttemptEnds, BodyEnds DEF Serve, Advance
<1>3. QED
  BY <1>1, <1>2 DEF Next

-----------------------------------------------------------------------------
(* The theorems.                                                           *)

\* The inductive invariant holds in every reachable state: slots are accounted for
\* whatever the providers, the clients and the local model do.
THEOREM SlotInvariance == Spec => []SlotInv
<1>1. QED
  BY InitSlots, SlotStep, PTL DEF Spec

\* No slot is lost or made, and no request ever holds two.
THEOREM Conservation == Spec => []SlotsConserved
<1>1. SlotInv => SlotsConserved
  BY DEF SlotInv, HoldInv, SlotsConserved, Remote, Holders
<1>2. QED
  BY <1>1, SlotInvariance, PTL

\* The remote concurrency limit holds for every limit and number of requests.
THEOREM Bounded == Spec => []RemoteCallsBounded
<1>1. SlotInv => RemoteCallsBounded
  <2> SUFFICES ASSUME SlotInv PROVE RemoteCallsBounded
    OBVIOUS
  <2>1. Remote \subseteq Holders
    BY DEF SlotInv, HoldInv, Remote, Holders
  <2>2. Cardinality(Remote) \in Nat /\ Cardinality(Remote) <= Cardinality(Holders)
    BY <2>1, HoldersFinite, FS_Subset, FS_CardinalityType
  <2>3. QED
    BY <2>2, HoldersFinite, RemoteCallsAssumption
    DEF SlotInv, SlotTypes, RemoteCallsBounded
<1>2. QED
  BY <1>1, SlotInvariance, PTL

\* Success, failure and disconnect of a body that has started return its slot.
THEOREM Returned == Spec => []SlotsReturned
<1>1. SlotInv => SlotsReturned
  BY DEF SlotInv, HoldInv, SlotsReturned, Holders, Unstarted
<1>2. QED
  BY <1>1, SlotInvariance, PTL

\* No client sees content of two providers in one stream.
THEOREM OneProviderPerStream == Spec => NoFallbackAfterContent
<1>1. SlotInv /\ [Next]_vars =>
        [\A r \in Requests : emitted[r] # None => emitted'[r] = emitted[r]]_vars
  <2> SUFFICES ASSUME SlotInv, Next, NEW r \in Requests, emitted[r] # None
               PROVE  emitted'[r] = emitted[r]
    BY DEF vars
  <2>1. CASE \E q \in Requests : Chunk(q)
    BY <2>1 DEF Chunk, SlotInv, Domains, EmittedInv
  <2>2. CASE UNCHANGED emitted
    BY <2>2
  <2>3. QED
    BY <2>1, <2>2
    DEF Next, LoadOrUnload, requestVars, Serve, Advance, StreamValidate, RagFails, Reserve,
        BodyStart, DropUnstarted, CompleteStart, SkipLocal, LocalBegin, RemoteBegin,
        RemoteRefused, Succeed, Fail, Exhaust, Finish, Drop
<1>2. QED
  BY <1>1, SlotInvariance, PTL DEF Spec, NoFallbackAfterContent

\* A request has no result before its end, and a chain only once it has begun.
ChainInv ==
  /\ OnlyContentOrRefusalCutsChain
  /\ \A r \in Requests :
       /\ phase[r] \in {"new", "validated", "ready"} => queue[r] = <<>>
       /\ phase[r] \notin {"finishing", "done"} => outcome[r] = "none"

\* What a step of one request must do to keep the chains.
LEMMA ChainKept ==
  ASSUME ChainInv, NEW r \in Requests, refused \subseteq refused',
         \A q \in Requests \ {r} : /\ phase'[q] = phase[q] /\ outcome'[q] = outcome[q]
                                   /\ queue'[q] = queue[q] /\ emitted'[q] = emitted[q],
         phase'[r] \in {"new", "validated", "ready"} => queue'[r] = <<>>,
         phase'[r] \notin {"finishing", "done"} => outcome'[r] = "none",
         outcome'[r] \in {"400", "500", "503", "error"} =>
           queue'[r] = <<>> \/ emitted'[r] # None \/ r \in refused'
  PROVE  ChainInv'
BY DEF ChainInv, OnlyContentOrRefusalCutsChain

\* No step tells of a failure before the chain is exhausted.
LEMMA ChainStep ==
  ASSUME SlotInv, ChainInv, [Next]_vars
  PROVE  ChainInv'
<1> USE DEF SlotInv, SlotTypes, Domains, ChainInv, OnlyContentOrRefusalCutsChain
<1>1. ASSUME NEW r \in Requests,
             \/ StreamValidate(r) \/ RagFails(r) \/ Reserve(r) \/ DropUnstarted(r)
             \/ BodyStart(r) \/ CompleteStart(r)
      PROVE  ChainInv'
  <2>1. queue[r] = <<>>
    BY <1>1 DEF StreamValidate, RagFails, Reserve, DropUnstarted, BodyStart, CompleteStart
  <2>2. /\ refused \subseteq refused'
        /\ \A q \in Requests \ {r} : /\ phase'[q] = phase[q] /\ outcome'[q] = outcome[q]
                                     /\ queue'[q] = queue[q] /\ emitted'[q] = emitted[q]
        /\ phase'[r] \in {"new", "validated", "ready"} => queue'[r] = queue[r]
        /\ phase'[r] \notin {"finishing", "done"} => outcome'[r] = outcome[r]
        /\ phase'[r] # "routing" => queue'[r] = queue[r]
        /\ phase[r] \in {"new", "validated", "ready"}
    BY <1>1 DEF StreamValidate, RagFails, Reserve, DropUnstarted, BodyStart, CompleteStart,
                End, Leave
  <2>3. QED
    BY <2>1, <2>2, ChainKept
<1>2. ASSUME NEW r \in Requests,
             \/ SkipLocal(r) \/ LocalBegin(r) \/ RemoteBegin(r) \/ RemoteRefused(r)
             \/ Chunk(r) \/ Succeed(r) \/ Fail(r) \/ Exhaust(r) \/ Finish(r) \/ Drop(r)
      PROVE  ChainInv'
  <2>1. /\ refused \subseteq refused'
        /\ \A q \in Requests \ {r} : /\ phase'[q] = phase[q] /\ outcome'[q] = outcome[q]
                                     /\ queue'[q] = queue[q] /\ emitted'[q] = emitted[q]
    BY <1>2 DEF SkipLocal, LocalBegin, RemoteBegin, RemoteRefused, Chunk, Succeed, Fail,
                Exhaust, Finish, Drop, End, Leave, requestVars
  <2>2. phase'[r] \in {"routing", "remote", "local", "finishing", "done"}
    BY <1>2 DEF SkipLocal, LocalBegin, RemoteBegin, RemoteRefused, Chunk, Succeed, Fail,
                Exhaust, Finish, Drop, End, Leave, Trying, requestVars
  <2>3. phase'[r] \notin {"finishing", "done"} => outcome'[r] = "none"
    BY <1>2 DEF SkipLocal, LocalBegin, RemoteBegin, RemoteRefused, Chunk, Succeed, Fail,
                Exhaust, Finish, Drop, End, Leave, Trying, requestVars
  <2>4. outcome'[r] \in {"400", "500", "503", "error"} =>
          queue'[r] = <<>> \/ emitted'[r] # None \/ r \in refused'
    BY <1>2 DEF SkipLocal, LocalBegin, RemoteBegin, RemoteRefused, Chunk, Succeed, Fail,
                Exhaust, Finish, Drop, End, Leave, Trying, requestVars
  <2>5. QED
    BY <2>1, <2>2, <2>3, <2>4, ChainKept
<1>3. CASE LoadOrUnload \/ UNCHANGED vars
  BY <1>3 DEF LoadOrUnload, vars, requestVars
<1>4. QED
  BY <1>1, <1>2, <1>3 DEF Next, Serve, Advance

\* A chain is cut short by content that the client has seen or by the refusal of a
\* slot, and by nothing else that a provider, the local model or a client does.
THEOREM Exhausted == Spec => []OnlyContentOrRefusalCutsChain
<1>1. Init => ChainInv
  BY DEF Init, ChainInv, OnlyContentOrRefusalCutsChain
<1>2. SlotInv /\ ChainInv /\ [Next]_vars => ChainInv'
  BY ChainStep
<1>3. ChainInv => OnlyContentOrRefusalCutsChain
  BY DEF ChainInv
<1>4. QED
  BY <1>1, <1>2, <1>3, SlotInvariance, PTL DEF Spec

-----------------------------------------------------------------------------
(* Selections, and how long a request may go on.                           *)

\* A set of numbers has a least one: this is what stands for induction below.
LEMMA Least ==
  ASSUME NEW numbers \in SUBSET Nat, numbers # {}
  PROVE  \E n \in numbers : \A m \in numbers : n <= m
<1>1. PICK n \in numbers : \A m \in numbers : <<m, n>> \notin OpToRel(<, Nat)
  BY NatLessThanWellFounded, WFMin
<1>2. \A m \in numbers : n \in Nat /\ m \in Nat /\ ~ (m < n)
  BY <1>1, Zenon DEF OpToRel
<1> QED
  BY <1>2

\* The loop over the providers returns eligible ones, no more than there are.
LEMMA EligibleProviders ==
  ASSUME NEW e
  PROVE  /\ Eligible(e) \in Seq(Providers)
         /\ Len(Eligible(e)) <= Len(Order)
<1> DEFINE Next1(s, n) == IF Order[n] \in e THEN Append(s, Order[n]) ELSE s
           Loop(g, m) == [n \in 0..m |-> IF n = 0 THEN <<>> ELSE Next1(g[n - 1], n)]
           found == CHOOSE g : g = Loop(g, Len(Order))
<1>1. Len(Order) \in Nat /\ \A n \in 1..Len(Order) : Order[n] \in Providers
  BY RemoteCallsAssumption, ElementOfSeq
<1>2. \E g : g = Loop(g, Len(Order))
  <2> DEFINE none == {m \in Nat : ~ \E g : g = Loop(g, m)}
  <2> SUFFICES ASSUME Len(Order) \in none PROVE FALSE
    BY <1>1
  <2>1. PICK m \in none : \A q \in none : m <= q
    <3>1. none \in SUBSET Nat /\ none # {}
      OBVIOUS
    <3> HIDE DEF none
    <3> QED
      BY <3>1, Least
  <2> HIDE DEF Next1
  <2>2. CASE m = 0
    <3> DEFINE g == [n \in 0..0 |-> <<>>]
    <3>1. g = Loop(g, 0)
      OBVIOUS
    <3> QED
      BY <2>2, <3>1
  <2>3. CASE m # 0
    <3>1. m - 1 \in Nat /\ m - 1 < m /\ m \in Nat
      BY <2>3
    <3>2. m - 1 \notin none
      <4> HIDE DEF none
      <4>1. m - 1 \in none => m <= m - 1
        BY <2>1
      <4> QED
        BY <3>1, <4>1
    <3>3. PICK g : g = Loop(g, m - 1)
      BY <3>1, <3>2
    <3> DEFINE h == [n \in 0..m |-> IF n = m THEN Next1(g[m - 1], m) ELSE g[n]]
    <3>4. ASSUME NEW n \in 0..m
          PROVE  h[n] = IF n = 0 THEN <<>> ELSE Next1(h[n - 1], n)
      <4>1. CASE n = m
        <5>1. h[n - 1] = g[m - 1] /\ h[n] = Next1(g[m - 1], m)
          BY <3>1, <4>1
        <5> HIDE DEF h
        <5> QED
          BY <2>3, <4>1, <5>1
      <4>2. CASE n # m
        <5>1. n \in 0..m - 1 /\ h[n] = g[n]
          BY <3>1, <4>2
        <5>2. g[n] = IF n = 0 THEN <<>> ELSE Next1(g[n - 1], n)
          BY <3>3, <5>1
        <5>3. n # 0 => h[n - 1] = g[n - 1]
          BY <3>1, <5>1
        <5> HIDE DEF h
        <5> QED
          BY <5>1, <5>2, <5>3
      <4> QED
        BY <4>1, <4>2
    <3>5. h = [n \in 0..m |-> h[n]]
      OBVIOUS
    <3> HIDE DEF h
    <3>6. h = Loop(h, m)
      BY <3>4, <3>5, Zenon
    <3> QED
      BY <3>6
  <2> QED
    BY <2>2, <2>3
<1>3. found = Loop(found, Len(Order))
  BY <1>2
<1>4. Eligible(e) = found[Len(Order)]
  BY DEF Eligible
<1> HIDE DEF found
<1>5. \A n \in 0..Len(Order) : found[n] = IF n = 0 THEN <<>> ELSE Next1(found[n - 1], n)
  BY <1>3
<1> DEFINE Good(s, n) == s \in Seq(Providers) /\ Len(s) <= n
           bad == {n \in 0..Len(Order) : ~ Good(found[n], n)}
<1>6. bad = {}
  <2> SUFFICES ASSUME bad # {} PROVE FALSE
    OBVIOUS
  <2>1. PICK n \in bad : \A m \in bad : n <= m
    <3>1. bad \in SUBSET Nat
      BY <1>1
    <3> HIDE DEF bad
    <3> QED
      BY <3>1, Least
  <2>2. CASE n = 0
    <3>1. found[0] = <<>>
      BY <1>1, <1>5
    <3>2. Good(<<>>, 0)
      BY EmptySeq
    <3> QED
      BY <2>1, <2>2, <3>1, <3>2
  <2>3. CASE n # 0
    <3>1. n - 1 \in 0..Len(Order) /\ n - 1 < n /\ n \in 1..Len(Order)
      BY <1>1, <2>3
    <3>2. Good(found[n - 1], n - 1)
      <4>1. n - 1 \notin bad
        <5> HIDE DEF bad
        <5>1. n - 1 \in bad => n <= n - 1
          BY <2>1
        <5> QED
          BY <1>1, <3>1, <5>1
      <4> QED
        BY <3>1, <4>1
    <3>3. found[n] = Next1(found[n - 1], n)
      BY <1>1, <1>5, <2>3, <3>1
    <3>4. Good(found[n], n)
      BY <1>1, <3>1, <3>2, <3>3, AppendProperties
    <3> QED
      BY <2>1, <3>4
  <2> QED
    BY <2>2, <2>3
<1> QED
  BY <1>1, <1>4, <1>6

\* A selection that is not refused names somebody, and at most the whole order.
LEMMA SelectionProviders ==
  ASSUME NEW want \in Wants, NEW e \in SUBSET Providers, NEW q \in Selection(want, e)
  PROVE  /\ q \in Seq(Providers \cup {Local})
         /\ q # <<>>
         /\ Len(q) <= Len(Order) + 1
<1> DEFINE S == Providers \cup {Local}
<1>1. Eligible(e) \in Seq(S) /\ Len(Eligible(e)) <= Len(Order) /\ Len(Order) \in Nat
  <2>1. Providers \subseteq S
    OBVIOUS
  <2> QED
    BY <2>1, EligibleProviders, SeqMonotonic, RemoteCallsAssumption
<1>2. \A p \in S : <<p>> \in Seq(S) /\ Len(<<p>>) = 1 /\ <<p>> # <<>>
  OBVIOUS
<1>3. Local \in S /\ \A p \in e : p \in S
  OBVIOUS
<1> HIDE DEF S
<1>4. \/ \E p \in S : q = <<p>>
      \/ q = Eligible(e) \o <<Local>>
  <2>1. Eligible(e) # <<>> => Head(Eligible(e)) \in S
    BY <1>1, HeadTailProperties
  <2> QED
    BY <1>3, <2>1 DEF Selection
<1>5. CASE \E p \in S : q = <<p>>
  BY <1>1, <1>2, <1>5 DEF S
<1>6. CASE q = Eligible(e) \o <<Local>>
  <2>1. q \in Seq(S) /\ Len(q) = Len(Eligible(e)) + 1
    BY <1>1, <1>2, <1>3, <1>6, ConcatProperties
  <2>2. Len(Eligible(e)) \in Nat
    BY <1>1
  <2>3. q # <<>>
    BY <2>1, <2>2
  <2> QED
    BY <1>1, <2>1, <2>2, <2>3 DEF S
<1> QED
  BY <1>4, <1>5, <1>6

\* An attempt under way has its selection at the head of the chain, and a chain is
\* no longer than the order.
RouteInv ==
  /\ TypeOK
  /\ \A r \in Requests :
       /\ phase[r] \in {"remote", "local"} => queue[r] # <<>>
       /\ Len(queue[r]) <= Len(Order) + 1

\* The steps that a request in phase p with n selections left may still take.
Left(p, n) ==
  CASE p = "new"       -> 2 * Len(Order) + 7
    [] p = "validated" -> 2 * Len(Order) + 6
    [] p = "ready"     -> 2 * Len(Order) + 5
    [] p = "routing"   -> 2 * n + 2
    [] p = "remote"    -> 2 * n + 1
    [] p = "local"     -> 2 * n + 1
    [] p = "finishing" -> 1
    [] OTHER           -> 0

StepsLeft(r) == Left(phase[r], Len(queue[r]))

\* Where a step takes its request, and with which chain.
Moves(r, p, q) ==
  /\ phase' = [phase EXCEPT ![r] = p]
  /\ queue' = [queue EXCEPT ![r] = q]

\* The tail of a chain.
LEMMA TailShorter ==
  ASSUME NEW S, NEW s \in Seq(S), s # <<>>
  PROVE  Tail(s) \in Seq(S) /\ Len(Tail(s)) = Len(s) - 1 /\ Len(s) \in Nat \ {0}
BY HeadTailProperties, EmptySeq

\* A step of a request before its loop: towards the end, or into the loop with a
\* selection.
LEMMA EarlyMoves ==
  ASSUME SlotInv, RouteInv, NEW r \in Requests,
         \/ StreamValidate(r) \/ RagFails(r) \/ Reserve(r) \/ BodyStart(r) \/ CompleteStart(r)
  PROVE  \E p \in Phases, q \in Seq(Providers \cup {Local}) :
           /\ Moves(r, p, q)
           /\ p \notin {"remote", "local"} /\ Len(q) <= Len(Order) + 1
           /\ Left(p, Len(q)) < Left(phase[r], Len(queue[r]))
<1> USE DEF Moves
<1>1. /\ Len(Order) \in Nat /\ Len(queue[r]) \in Nat /\ Len(queue[r]) <= Len(Order) + 1
      /\ queue[r] \in Seq(Providers \cup {Local})
      /\ wants[r] \in Wants
      /\ queue = [queue EXCEPT ![r] = queue[r]]
  BY RemoteCallsAssumption DEF RouteInv, TypeOK
<1>2. CASE StreamValidate(r) \/ RagFails(r) \/ Reserve(r)
  <2>1. \/ phase[r] = "new" /\ phase' = [phase EXCEPT ![r] = "validated"]
        \/ phase[r] = "validated" /\ phase' = [phase EXCEPT ![r] = "ready"]
        \/ phase[r] \in {"new", "validated"} /\ phase' = [phase EXCEPT ![r] = "done"]
    BY <1>2 DEF StreamValidate, RagFails, Reserve, End
  <2>2. queue' = queue
    BY <1>2 DEF StreamValidate, RagFails, Reserve
  <2> QED
    BY <1>1, <2>1, <2>2 DEF Left, Phases
<1>3. CASE BodyStart(r) \/ CompleteStart(r)
  <2>1. phase[r] \in {"new", "ready"}
    BY <1>3 DEF BodyStart, CompleteStart
  <2>2. \/ \E p \in {"finishing", "done"} : phase' = [phase EXCEPT ![r] = p] /\ queue' = queue
        \/ \E e \in SUBSET Providers : \E q \in Selection(wants[r], e) :
             /\ phase' = [phase EXCEPT ![r] = "routing"]
             /\ queue' = [queue EXCEPT ![r] = q]
    BY <1>3 DEF BodyStart, CompleteStart, End, Leave
  <2>3. CASE \E p \in {"finishing", "done"} : phase' = [phase EXCEPT ![r] = p] /\ queue' = queue
    <3>1. PICK p \in {"finishing", "done"} : phase' = [phase EXCEPT ![r] = p] /\ queue' = queue
      BY <2>3
    <3>2. Left(p, Len(queue[r])) < Left(phase[r], Len(queue[r]))
      BY <1>1, <2>1 DEF Left
    <3>3. p \in Phases /\ p \notin {"remote", "local"}
      BY DEF Phases
    <3> QED
      BY <1>1, <3>1, <3>2, <3>3
  <2>4. ASSUME NEW e \in SUBSET Providers, NEW q \in Selection(wants[r], e),
               phase' = [phase EXCEPT ![r] = "routing"],
               queue' = [queue EXCEPT ![r] = q]
        PROVE  /\ q \in Seq(Providers \cup {Local}) /\ Len(q) <= Len(Order) + 1
               /\ Left("routing", Len(q)) < Left(phase[r], Len(queue[r]))
    <3>1. q \in Seq(Providers \cup {Local}) /\ Len(q) <= Len(Order) + 1 /\ Len(q) \in Nat
      BY <1>1, SelectionProviders
    <3> QED
      BY <1>1, <2>1, <3>1 DEF Left
  <2> QED
    BY <2>2, <2>3, <2>4 DEF Phases
<1> QED
  BY <1>2, <1>3

\* A step of the loop or of the end: an attempt begins, the chain gets shorter, or
\* the loop is left.
LEMMA LoopMoves ==
  ASSUME SlotInv, RouteInv, NEW r \in Requests,
         \/ SkipLocal(r) \/ LocalBegin(r) \/ RemoteBegin(r) \/ RemoteRefused(r)
         \/ Succeed(r) \/ Fail(r) \/ Exhaust(r) \/ Finish(r)
  PROVE  \E p \in Phases, q \in Seq(Providers \cup {Local}) :
           /\ Moves(r, p, q)
           /\ p \in {"remote", "local"} => q # <<>>
           /\ Len(q) <= Len(Order) + 1
           /\ Left(p, Len(q)) < Left(phase[r], Len(queue[r]))
<1> USE DEF Moves
<1>1. /\ Len(Order) \in Nat /\ Len(queue[r]) \in Nat /\ Len(queue[r]) <= Len(Order) + 1
      /\ queue[r] \in Seq(Providers \cup {Local})
      /\ queue = [queue EXCEPT ![r] = queue[r]] /\ phase = [phase EXCEPT ![r] = phase[r]]
      /\ phase[r] \in {"remote", "local"} => queue[r] # <<>>
  BY RemoteCallsAssumption DEF RouteInv, TypeOK, SlotTypes
<1>2. CASE LocalBegin(r) \/ RemoteBegin(r)
  <2>1. phase[r] = "routing" /\ queue[r] # <<>>
    BY <1>2 DEF LocalBegin, RemoteBegin, Trying
  <2>2. PICK p \in {"remote", "local"} : phase' = [phase EXCEPT ![r] = p]
    BY <1>2 DEF LocalBegin, RemoteBegin
  <2>3. queue' = queue
    BY <1>2 DEF LocalBegin, RemoteBegin, requestVars
  <2>4. Left(p, Len(queue[r])) < Left(phase[r], Len(queue[r]))
    BY <1>1, <2>1 DEF Left
  <2>5. p \in Phases
    BY DEF Phases
  <2> QED
    BY <1>1, <2>1, <2>2, <2>3, <2>4, <2>5
<1>3. CASE \/ SkipLocal(r)
           \/ Fail(r) /\ emitted[r] = None
  <2>1. phase[r] \in {"routing", "remote", "local"} /\ queue[r] # <<>>
    BY <1>1, <1>3 DEF SkipLocal, Fail, Trying
  <2>2. phase' = [phase EXCEPT ![r] = "routing"]
    BY <1>1, <1>3 DEF SkipLocal, Fail, Trying
  <2>3. queue' = [queue EXCEPT ![r] = Tail(queue[r])]
    BY <1>3 DEF SkipLocal, Fail
  <2>4. /\ Tail(queue[r]) \in Seq(Providers \cup {Local})
        /\ Len(Tail(queue[r])) = Len(queue[r]) - 1
        /\ Len(Tail(queue[r])) <= Len(Order) + 1
    BY <1>1, <2>1, TailShorter
  <2>5. Left("routing", Len(Tail(queue[r]))) < Left(phase[r], Len(queue[r]))
    BY <1>1, <2>1, <2>4 DEF Left
  <2>6. "routing" \in Phases /\ "routing" \notin {"remote", "local"}
    BY DEF Phases
  <2> QED
    BY <2>2, <2>3, <2>4, <2>5, <2>6
<1>4. CASE \/ RemoteRefused(r) \/ Succeed(r) \/ Exhaust(r) \/ Finish(r)
           \/ Fail(r) /\ emitted[r] # None
  <2>1. \/ /\ phase[r] \in {"routing", "remote", "local"}
           /\ \E p \in {"finishing", "done"} : phase' = [phase EXCEPT ![r] = p]
        \/ phase[r] = "finishing" /\ phase' = [phase EXCEPT ![r] = "done"]
    BY <1>4 DEF RemoteRefused, Succeed, Exhaust, Finish, Fail, Leave, Trying
  <2>2. queue' = queue
    BY <1>4 DEF RemoteRefused, Succeed, Exhaust, Finish, Fail
  <2>3. phase[r] \in {"remote", "local"} => Len(queue[r]) # 0
    BY <1>1, EmptySeq
  <2> QED
    BY <1>1, <2>1, <2>2, <2>3 DEF Left, Phases
<1> QED
  BY <1>2, <1>3, <1>4

\* A client that goes away ends its request, and content moves nothing.
LEMMA ClientMoves ==
  ASSUME SlotInv, RouteInv, NEW r \in Requests,
         Chunk(r) \/ DropUnstarted(r) \/ Drop(r)
  PROVE  \E p \in Phases, q \in Seq(Providers \cup {Local}) :
           /\ Moves(r, p, q)
           /\ p \in {"remote", "local"} => q # <<>>
           /\ Len(q) <= Len(Order) + 1
           /\ Left(p, Len(q)) <= Left(phase[r], Len(queue[r]))
<1> USE DEF Moves
<1>1. /\ Len(Order) \in Nat /\ Len(queue[r]) \in Nat /\ Len(queue[r]) <= Len(Order) + 1
      /\ queue[r] \in Seq(Providers \cup {Local}) /\ phase[r] \in Phases
      /\ queue = [queue EXCEPT ![r] = queue[r]] /\ phase = [phase EXCEPT ![r] = phase[r]]
      /\ phase[r] \in {"remote", "local"} => queue[r] # <<>>
  BY RemoteCallsAssumption DEF RouteInv, TypeOK, SlotTypes
<1>2. queue' = queue
  BY DEF Chunk, DropUnstarted, Drop
<1>3. phase' = phase \/ phase' = [phase EXCEPT ![r] = "done"]
  BY DEF Chunk, DropUnstarted, Drop, End
<1>4. /\ 0 <= Left(phase[r], Len(queue[r]))
      /\ Left(phase[r], Len(queue[r])) <= Left(phase[r], Len(queue[r]))
  BY <1>1 DEF Left
<1>5. Left("done", Len(queue[r])) = 0 /\ "done" \in Phases
  BY DEF Left, Phases
<1> QED
  BY <1>1, <1>2, <1>3, <1>4, <1>5

\* The types that the accounting of slots does not need.
LEMMA OtherTypes ==
  ASSUME SlotInv, RouteInv, NEW r \in Requests,
         Serve(r) \/ Chunk(r) \/ DropUnstarted(r) \/ Drop(r)
  PROVE  /\ loaded' \in BOOLEAN
         /\ wants' \in [Requests -> Wants]
         /\ needs' \subseteq Requests
         /\ emitted' \in [Requests -> Providers \cup {Local, None}]
         /\ refused' \subseteq Requests
<1>1. UNCHANGED <<loaded, wants>>
  BY DEF Serve, Advance, StreamValidate, RagFails, Reserve, BodyStart, CompleteStart, SkipLocal,
         LocalBegin, RemoteBegin, RemoteRefused, Succeed, Fail, Exhaust, Finish, Chunk,
         DropUnstarted, Drop, requestVars
<1>2. needs' \subseteq needs \cup {r} /\ refused' \subseteq refused \cup {r}
  BY DEF Serve, Advance, StreamValidate, RagFails, Reserve, BodyStart, CompleteStart, SkipLocal,
         LocalBegin, RemoteBegin, RemoteRefused, Succeed, Fail, Exhaust, Finish, Chunk,
         DropUnstarted, Drop, requestVars
<1>3. \/ emitted' = emitted
      \/ Chunk(r)
  BY DEF Serve, Advance, StreamValidate, RagFails, Reserve, BodyStart, CompleteStart, SkipLocal,
         LocalBegin, RemoteBegin, RemoteRefused, Succeed, Fail, Exhaust, Finish, Chunk,
         DropUnstarted, Drop, requestVars
<1>4. Chunk(r) => emitted' \in [Requests -> Providers \cup {Local, None}]
  <2> HAVE Chunk(r)
  <2>1. queue[r] \in Seq(Providers \cup {Local}) /\ queue[r] # <<>>
    BY DEF Chunk, RouteInv, TypeOK
  <2>2. Head(queue[r]) \in Providers \cup {Local}
    BY <2>1, HeadTailProperties
  <2> QED
    BY <2>2 DEF Chunk, RouteInv, TypeOK
<1> QED
  BY <1>1, <1>2, <1>3, <1>4 DEF RouteInv, TypeOK

\* No step makes a chain longer than the order, or begins an attempt without one.
LEMMA RouteStep ==
  ASSUME SlotInv, RouteInv, [Next]_vars
  PROVE  RouteInv'
<1>1. SlotTypes'
  BY SlotStep DEF SlotInv
<1>2. CASE LoadOrUnload \/ UNCHANGED vars
  BY <1>1, <1>2 DEF LoadOrUnload, vars, requestVars, RouteInv, TypeOK
<1>3. ASSUME NEW r \in Requests, Serve(r) \/ Chunk(r) \/ DropUnstarted(r) \/ Drop(r)
      PROVE  RouteInv'
  <2>1. PICK p \in Phases, q \in Seq(Providers \cup {Local}) :
          /\ Moves(r, p, q)
          /\ p \in {"remote", "local"} => q # <<>>
          /\ Len(q) <= Len(Order) + 1
    BY <1>3, EarlyMoves, LoopMoves, ClientMoves DEF Serve, Advance
  <2>2. /\ queue' \in [Requests -> Seq(Providers \cup {Local})]
        /\ \A s \in Requests : /\ phase'[s] = IF s = r THEN p ELSE phase[s]
                               /\ queue'[s] = IF s = r THEN q ELSE queue[s]
    BY <2>1 DEF Moves, RouteInv, TypeOK, SlotTypes
  <2>3. \A s \in Requests : /\ phase'[s] \in {"remote", "local"} => queue'[s] # <<>>
                            /\ Len(queue'[s]) <= Len(Order) + 1
    BY <2>1, <2>2 DEF RouteInv
  <2> QED
    BY <1>1, <1>3, <2>2, <2>3, OtherTypes DEF RouteInv, TypeOK
<1> QED
  BY <1>2, <1>3 DEF Next

LEMMA RouteInvariance == Spec => [](SlotInv /\ RouteInv)
<1>1. Init => RouteInv
  BY InitSlots, RemoteCallsAssumption DEF Init, SlotInv, RouteInv, TypeOK
<1>2. SlotInv /\ RouteInv /\ [Next]_vars => SlotInv' /\ RouteInv'
  BY SlotStep, RouteStep
<1> QED
  BY <1>1, <1>2, InitSlots, PTL DEF Spec

\* The types of RemoteCalls, for any order of providers.
THEOREM Types == Spec => []TypeOK
<1>1. RouteInv => TypeOK
  BY DEF RouteInv
<1> QED
  BY <1>1, RouteInvariance, PTL

\* Every step of a request brings it nearer to its end and none of another, of its
\* client or of the local model takes it further away: at most 2 * Len(Order) + 7
\* steps, whatever fails and whatever is retried.
THEOREM Progress ==
  Spec => [][\A r \in Requests : /\ StepsLeft(r)' <= StepsLeft(r)
                                 /\ Serve(r) => StepsLeft(r)' < StepsLeft(r)]_vars
<1> DEFINE Nearer(r) == /\ StepsLeft(r)' <= StepsLeft(r)
                        /\ Serve(r) => StepsLeft(r)' < StepsLeft(r)
<1>1. SlotInv /\ RouteInv /\ [Next]_vars => [\A r \in Requests : Nearer(r)]_vars
  <2> SUFFICES ASSUME SlotInv, RouteInv, Next, NEW r \in Requests
               PROVE  Nearer(r)
    BY DEF vars
  <2>1. StepsLeft(r) \in Nat
    BY RemoteCallsAssumption DEF RouteInv, TypeOK, StepsLeft, Left
  <2>2. CASE Serve(r)
    <3>1. PICK p \in Phases, q \in Seq(Providers \cup {Local}) :
            Moves(r, p, q) /\ Left(p, Len(q)) < Left(phase[r], Len(queue[r]))
      BY <2>2, EarlyMoves, LoopMoves DEF Serve, Advance
    <3>2. StepsLeft(r)' = Left(p, Len(q))
      BY <3>1 DEF Moves, StepsLeft, RouteInv, TypeOK, SlotTypes
    <3>3. Left(p, Len(q)) \in Nat
      BY RemoteCallsAssumption DEF Left
    <3>4. StepsLeft(r)' < StepsLeft(r)
      BY <3>1, <3>2 DEF StepsLeft
    <3> QED
      BY <2>1, <3>2, <3>3, <3>4
  <2>3. CASE ~ Serve(r)
    <3>1. CASE Chunk(r) \/ DropUnstarted(r) \/ Drop(r)
      <4>1. PICK p \in Phases, q \in Seq(Providers \cup {Local}) :
              Moves(r, p, q) /\ Left(p, Len(q)) <= Left(phase[r], Len(queue[r]))
        BY <3>1, ClientMoves
      <4>2. StepsLeft(r)' = Left(p, Len(q))
        BY <4>1 DEF Moves, StepsLeft, RouteInv, TypeOK, SlotTypes
      <4> QED
        BY <2>3, <4>1, <4>2 DEF StepsLeft
    <3>2. CASE LoadOrUnload
      BY <2>1, <2>3, <3>2 DEF LoadOrUnload, requestVars, StepsLeft
    <3>3. ASSUME NEW s \in Requests \ {r},
                 Serve(s) \/ Chunk(s) \/ DropUnstarted(s) \/ Drop(s)
          PROVE  StepsLeft(r)' = StepsLeft(r)
      <4>1. PICK p \in Phases, q \in Seq(Providers \cup {Local}) : Moves(s, p, q)
        BY <3>3, EarlyMoves, LoopMoves, ClientMoves DEF Serve, Advance
      <4>2. phase'[r] = phase[r] /\ queue'[r] = queue[r]
        BY <4>1 DEF Moves, RouteInv, TypeOK, SlotTypes
      <4> QED
        BY <4>2 DEF StepsLeft
    <3> QED
      BY <2>1, <2>3, <3>1, <3>2, <3>3 DEF Next
  <2> QED
    BY <2>2, <2>3
<1> QED
  BY <1>1, RouteInvariance, PTL DEF Spec
=============================================================================
