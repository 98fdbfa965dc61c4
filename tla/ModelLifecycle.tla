--------------------------- MODULE ModelLifecycle ---------------------------
(***************************************************************************)
(* What LLMService promises to its callers.  At most one llama.cpp model   *)
(* is current.  Every operation is atomic but an unload, which takes the   *)
(* model out of service and closes it afterwards; until then no other      *)
(* model is loaded.  A call gets an answer that is true at the instant it  *)
(* takes effect.  A generation (a blocking call or a stream) begins only   *)
(* on a loaded model, and no model is unloaded or closed while one is      *)
(* under way.  close() may raise: the unload then ends in an error, with   *)
(* the model out of service and not closed.                                *)
(* A model is named by the call whose load built it.                       *)
(***************************************************************************)
CONSTANTS Calls,     \* requests to load, to unload or to generate
          Streams,   \* requests for a streamed generation
          None

VARIABLES current,   \* the loaded model, or None
          leaving,   \* the model that each unload has taken out and not closed yet
          retired,   \* the models that have been closed
          active,    \* the generations under way
          outcome    \* the answer to each request, "pending" until there is one

lifecycleVars == <<current, leaving, retired, active, outcome>>

Requests == Calls \cup Streams

Answer(r, a) == /\ outcome[r] = "pending"
                /\ outcome' = [outcome EXCEPT ![r] = a]

Init == /\ current = None
        /\ leaving = [c \in Calls |-> None]
        /\ retired = {}
        /\ active = {}
        /\ outcome = [r \in Requests |-> "pending"]

\* No unload is about to close a model.
NothingLeaves == \A u \in Calls : leaving[u] = None

LoadNew(c) == /\ current = None
              /\ NothingLeaves
              /\ current' = c
              /\ Answer(c, "loaded")
              /\ UNCHANGED <<leaving, retired, active>>

LoadAgain(c) == /\ current # None
                /\ Answer(c, "already_loaded")
                /\ UNCHANGED <<current, leaving, retired, active>>

\* A failed load is never the end of a model that was loaded before it.
LoadFails(c) == /\ current = None
                /\ Answer(c, "load_failed")
                /\ UNCHANGED <<current, leaving, retired, active>>

TakeOut(c) == /\ current # None
              /\ active = {}
              /\ outcome[c] = "pending"
              /\ NothingLeaves
              /\ leaving' = [leaving EXCEPT ![c] = current]
              /\ current' = None
              /\ UNCHANGED <<retired, active, outcome>>

UnloadNothing(c) == /\ current = None
                    /\ Answer(c, "not_loaded")
                    /\ UNCHANGED <<current, leaving, retired, active>>

\* The model that c has taken out, which is closed only now, and only once.
Leaves(c, m) == /\ leaving[c] = m
                /\ outcome[m] = "loaded"
                /\ m \notin retired
                /\ current = None
                /\ active = {}
                /\ leaving' = [leaving EXCEPT ![c] = None]
                /\ UNCHANGED <<current, active>>

Retire(c, m) == /\ Leaves(c, m)
                /\ retired' = retired \cup {m}
                /\ Answer(c, "unloaded")

RetireFails(c, m) == /\ Leaves(c, m)
                     /\ UNCHANGED retired
                     /\ Answer(c, "unload_failed")

Begin(r) == /\ current # None
            /\ outcome[r] = "pending"
            /\ r \notin active
            /\ active' = active \cup {r}
            /\ UNCHANGED <<current, leaving, retired, outcome>>

Refuse(r) == /\ current = None
             /\ Answer(r, "refused")
             /\ UNCHANGED <<current, leaving, retired, active>>

End(r) == /\ active' = active \ {r}
          /\ Answer(r, "ended")
          /\ UNCHANGED <<current, leaving, retired>>

Next == \/ \E c \in Calls : \/ LoadNew(c)
                            \/ LoadAgain(c)
                            \/ LoadFails(c)
                            \/ TakeOut(c)
                            \/ UnloadNothing(c)
                            \/ \E m \in Calls : Retire(c, m) \/ RetireFails(c, m)
        \/ \E r \in Requests : Begin(r) \/ Refuse(r) \/ End(r)

Spec == Init /\ [][Next]_lifecycleVars
=============================================================================
