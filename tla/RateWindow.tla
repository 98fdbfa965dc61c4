----------------------------- MODULE RateWindow -----------------------------
(***************************************************************************)
(* The fixed-window request limiter of services/access_control.py.         *)
(*                                                                         *)
(* _check_fixed_window reads the clock before it takes the lock, so a      *)
(* request may apply a time that is older than what the store already      *)
(* holds.  Under the lock it sweeps the expired windows of every client,   *)
(* counts the request or refuses it with 429, and evicts the client at the *)
(* front of the OrderedDict when there are more than _MAX_CLIENTS.         *)
(***************************************************************************)
EXTENDS Integers, FiniteSets, Sequences

CONSTANTS Clients,      \* _client_key: token hash and address
          Limit,        \* REMOTE_RATE_LIMIT_PER_MINUTE
          Window,       \* _WINDOW_SECONDS
          MaxClients,   \* _MAX_CLIENTS
          MaxDelay,     \* bound on the wait between the clock and the lock
          MaxRequests,  \* bound on the requests made
          MaxTime       \* bound on the clock

ASSUME RateWindowAssumption ==
  /\ {Limit, Window, MaxClients} \subseteq Nat \ {0}
  /\ {MaxDelay, MaxRequests, MaxTime} \subseteq Nat

VARIABLES now,       \* time.monotonic()
          windows,   \* _request_windows, in the order of turn: [client, start, count, turn]
          requests,  \* in the order they read the clock: [client, stamp, state, at]
          evicted    \* history: clients that lost a live window to eviction

vars == <<now, windows, requests, evicted>>

Init ==
  /\ now = 0
  /\ windows = {}
  /\ requests = <<>>
  /\ evicted = {}

Tick ==
  /\ now < MaxTime
  /\ \A i \in DOMAIN requests : requests[i].state = "stamped" => now - requests[i].stamp < MaxDelay
  /\ now' = now + 1
  /\ UNCHANGED <<windows, requests, evicted>>

\* now = time.monotonic(), before `with _state_lock`.
Stamp(c) ==
  /\ Len(requests) < MaxRequests
  /\ requests' = Append(requests, [client |-> c, stamp |-> now, state |-> "stamped", at |-> now])
  /\ UNCHANGED <<now, windows, evicted>>

ClientsOf(s) == {e.client : e \in s}

\* The sweep: the windows that are not expired at time t.
Live(t) == {e \in windows : t - e.start < Window}

\* Mutant: one count for all clients.
WindowOfAnyone(c, t) ==
  IF Live(t) = {} THEN [client |-> c, start |-> t, count |-> 0, turn |-> 0]
  ELSE [CHOOSE e \in Live(t) : TRUE EXCEPT !.client = c]

\* _request_windows.get(key, (now, 0))
WindowOf(c, t) ==
  LET mine == {e \in Live(t) : e.client = c}
  IN  IF mine = {} THEN [client |-> c, start |-> t, count |-> 0, turn |-> 0]
      ELSE CHOOSE e \in mine : TRUE

\* A client that is counted comes behind all the others.
Turn == Cardinality({i \in DOMAIN requests : requests[i].state = "admitted"})

\* Mutant: no move_to_end.
CountedInPlace(c, t) ==
  {e \in Live(t) : e.client # c} \cup
    {[WindowOf(c, t) EXCEPT !.count = @ + 1,
                            !.turn = IF c \in ClientsOf(Live(t)) THEN @ ELSE Turn]}

\* The count goes up and the client moves to the end.
Counted(c, t) ==
  {e \in Live(t) : e.client # c} \cup
    {[client |-> c, start |-> WindowOf(c, t).start, count |-> WindowOf(c, t).count + 1,
      turn |-> Turn]}

\* Mutant: eviction one client too late.
KeptLate(s) ==
  {e \in s : Cardinality(s) > MaxClients + 1 => \E d \in s : d.turn < e.turn}

\* popitem(last=False) while there are more than _MAX_CLIENTS: with one client
\* more than before, once at most.
Kept(s) == {e \in s : Cardinality(s) > MaxClients => \E d \in s : d.turn < e.turn}

Decide(i, answer) ==
  /\ requests' = [requests EXCEPT ![i] = [@ EXCEPT !.state = answer, !.stamp = 0, !.at = now]]
  /\ UNCHANGED now

\* Mutant: count > limit in the place of count >= limit.
AdmitOneMore(i) ==
  LET r == requests[i]
      s == Counted(r.client, r.stamp)
  IN  /\ r.state = "stamped"
      /\ WindowOf(r.client, r.stamp).count <= Limit
      /\ windows' = Kept(s)
      /\ evicted' = evicted \cup (ClientsOf(s) \ ClientsOf(Kept(s)))
      /\ Decide(i, "admitted")

Admit(i) ==
  LET r == requests[i]
      s == Counted(r.client, r.stamp)
  IN  /\ r.state = "stamped"
      /\ WindowOf(r.client, r.stamp).count < Limit
      /\ windows' = Kept(s)
      /\ evicted' = evicted \cup (ClientsOf(s) \ ClientsOf(Kept(s)))
      /\ Decide(i, "admitted")

\* A refused request sweeps too, and is neither counted nor moved to the end.
Refuse(i) ==
  LET r == requests[i]
  IN  /\ r.state = "stamped"
      /\ WindowOf(r.client, r.stamp).count >= Limit
      /\ windows' = Live(r.stamp)
      /\ Decide(i, "refused")
      /\ UNCHANGED evicted

Next ==
  \/ Tick
  \/ \E c \in Clients : Stamp(c)
  \/ \E i \in DOMAIN requests : Admit(i) \/ Refuse(i)

Spec == Init /\ [][Next]_vars

-----------------------------------------------------------------------------
(* Properties.                                                             *)

\* The type of every variable; one window per client, at most MaxClients, in an order.
TypeOK ==
  /\ now \in Nat
  /\ windows \subseteq [client : Clients, start : Nat, count : 1..Limit, turn : Nat]
  /\ Cardinality(windows) <= MaxClients
  /\ \A d, e \in windows : d = e \/ (d.client # e.client /\ d.turn # e.turn)
  /\ requests \in Seq([client : Clients, stamp : Nat,
                       state : {"stamped", "admitted", "refused"}, at : Nat])
  /\ evicted \subseteq Clients

\* The requests of client c that were admitted between two instants.
Admitted(c, from, to) ==
  {i \in DOMAIN requests : /\ requests[i].client = c
                           /\ requests[i].state = "admitted"
                           /\ requests[i].at \in from..to}

\* What the limit means in real time: windows adjoin, and a request is decided
\* by a clock that may be older than the window it falls in, but in no stretch
\* of a window less that delay does a client get twice the limit.  A client that
\* was evicted has no such bound.
AdmissionsBounded ==
  \A c \in Clients \ evicted, t \in 0..MaxTime :
    Cardinality(Admitted(c, t, t + Window - MaxDelay - 1)) < 2 * Limit

\* A request is refused only if its own client has used up the limit within the
\* last window (up to the delay): neither other clients nor a stale clock can
\* make the limiter refuse someone who is within the limit.
NoFalseRefusal ==
  \A i \in DOMAIN requests :
    LET r == requests[i] IN
    r.state = "refused" =>
      Cardinality(Admitted(r.client, r.at - Window - MaxDelay + 1, r.at)) >= Limit

\* A full store evicts the client that was admitted least recently, so a client
\* that keeps being served cannot lose its count, and with it get more than its
\* limit, while others are idle for longer.
EvictsLeastRecent ==
  [][\A c \in evicted' \ evicted, d \in ClientsOf(windows') :
       \A i \in Admitted(c, 0, now) : Admitted(d, requests[i].at, now)' # {}]_vars
=============================================================================
