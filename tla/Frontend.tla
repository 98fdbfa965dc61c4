------------------------------ MODULE Frontend ------------------------------
(***************************************************************************)
(* The state of the browser interface: App.jsx and ControlPanel.jsx over   *)
(* api.js, with the server as they see it.                                 *)
(*                                                                         *)
(* Handlers are synchronous up to their await: an event handler is one     *)
(* step that asks, and the code after the await is one step that applies   *)
(* the answer.  The server answers a request at any moment in between, and *)
(* answers are applied in any order, the last one winning: nothing but the *)
(* two flags isLoading and loadingModel keeps requests apart.              *)
(*                                                                         *)
(* A turn of the conversation is named by a number, which a question and   *)
(* its reply share; what the API measures of their texts is a constant.    *)
(***************************************************************************)
EXTENDS Naturals, Sequences, SequencesExt

CONSTANTS Flights,      \* slots for requests under way
          None,
          MaxMessages,  \* MAX_API_MESSAGES, and max_length of ChatRequest.messages
          MaxLength,    \* max_length of ChatMessage.content
          MaxBytes,     \* MAX_CHAT_CONTENT_BYTES
          Text,         \* the sizes of the question and the reply of each turn
          MaxTurns      \* bound on the messages typed

\* MAX_API_MESSAGES is 128, an even number, so that a full conversation is made of
\* whole turns once its last reply is there.
ASSUME FrontendAssumption ==
  /\ None \notin Flights
  /\ MaxMessages \in Nat \ {0} /\ MaxMessages % 2 = 0
  /\ MaxTurns \in Nat

ASSUME TextAssumption ==
  /\ MaxLength \in Nat /\ MaxBytes \in Nat
  /\ Text \in [{"user", "assistant"} \X (1..MaxTurns) -> [chars : Nat, bytes : Nat]]

VARIABLES loaded,     \* server: the local model is loaded
          flight,     \* the request in each slot
          status,     \* modelStatus
          catalog,    \* the catalog has come, and is what providerStatuses shows
          ready,      \* remoteReady: a remote provider is shown as available
          busy,       \* isLoading
          panelBusy,  \* loadingModel of the control panel
          messages,   \* the conversation on the screen
          input,      \* the turn in the text area; 0 if it is blank
          turns,      \* turns typed so far
          sent,       \* the conversation of the chat request under way, or <<>>
          previous,   \* previousMessages in its closure, or <<>>
          clean,      \* history: the status request nothing has disturbed, or None
          doubt       \* history: the status may be wrong, see Disturbed

shown == <<status, catalog, ready>>
chat == <<messages, input, turns, sent, previous>>
history == <<clean, doubt>>
vars == <<loaded, flight, shown, busy, panelBusy, chat, history>>

Free == [kind |-> "none", state |-> "free", loaded |-> FALSE, remote |-> FALSE, reply |-> "none"]
Asked(kind) == [Free EXCEPT !.kind = kind, !.state = "asked"]

\* The kinds whose answer changes the status on the screen.
StatusKinds == {"health", "load", "panel", "panel load", "panel unload", "after"}
StatusFlights == {f \in Flights : flight[f].kind \in StatusKinds}

\* The screen's first effect asks for health and models.
Init ==
  /\ loaded \in BOOLEAN
  /\ \E f, g \in Flights :
       /\ f # g
       /\ flight = [x \in Flights |-> IF x = f THEN Asked("health")
                                      ELSE IF x = g THEN Asked("models") ELSE Free]
       /\ clean = f
  /\ status = "checking"
  /\ catalog = FALSE
  /\ ready = FALSE
  /\ busy = FALSE
  /\ panelBusy = FALSE
  /\ messages = <<>>
  /\ input = 0
  /\ turns = 0
  /\ sent = <<>>
  /\ previous = <<>>
  /\ doubt = TRUE

-----------------------------------------------------------------------------
(* What the screen derives.                                                *)

ChatAvailable == status = "loaded" \/ ready
ShowLoadLocal == status # "loaded" /\ ~ ready

\* Mutant: the oldest messages are kept.
RecentNot(s) == IF Len(s) > MaxMessages THEN SubSeq(s, 1, MaxMessages) ELSE s

\* slice(-MAX_API_MESSAGES)
Recent(s) == IF Len(s) > MaxMessages THEN SubSeq(s, Len(s) - MaxMessages + 1, Len(s)) ELSE s

\* A request whose answer will set the status begins: two of them at once leave
\* the status in doubt.
Disturbed(f) ==
  IF StatusFlights = {} THEN clean' = f /\ UNCHANGED doubt
                        ELSE clean' = None /\ doubt' = TRUE

\* An answer has set the status; nothing else was under way since it was asked for.
Settled(f) ==
  /\ clean' = IF clean = f THEN None ELSE clean
  /\ doubt' = IF clean = f THEN FALSE ELSE doubt

\* A request failed: it may have had its effect.
Unsettled(f) ==
  /\ clean' = IF clean = f THEN None ELSE clean
  /\ doubt' = TRUE

-----------------------------------------------------------------------------
(* Events of the user.                                                     *)

\* handleSaveAccessToken: a second refreshData, which nothing aborts.
SaveAccessToken(f, g) ==
  /\ f # g /\ flight[f] = Free /\ flight[g] = Free
  /\ flight' = [flight EXCEPT ![f] = Asked("health"), ![g] = Asked("models")]
  /\ Disturbed(f)
  /\ UNCHANGED <<loaded, shown, busy, panelBusy, chat>>

RefreshCatalog(f) ==
  /\ flight[f] = Free
  /\ flight' = [flight EXCEPT ![f] = Asked("models")]
  /\ UNCHANGED <<loaded, shown, busy, panelBusy, chat, history>>

\* handleLoadModel
LoadModel(f) ==
  /\ flight[f] = Free
  /\ ShowLoadLocal
  /\ ~ busy
  /\ busy' = TRUE
  /\ flight' = [flight EXCEPT ![f] = Asked("load")]
  /\ Disturbed(f)
  /\ UNCHANGED <<loaded, shown, panelBusy, chat>>

\* The text area is disabled while a request runs or no model can answer.
Type ==
  /\ ~ busy
  /\ ChatAvailable
  /\ turns < MaxTurns
  /\ turns' = turns + 1
  /\ input' = turns + 1
  /\ UNCHANGED <<loaded, flight, shown, busy, panelBusy, messages, sent, previous, history>>

SendMessage(f) ==
  /\ flight[f] = Free
  /\ input # 0
  /\ ~ busy
  /\ ChatAvailable
  /\ LET conversation == Recent(Append(messages, [by |-> "user", turn |-> input]))
     IN  messages' = conversation /\ sent' = conversation
  /\ previous' = messages
  /\ input' = 0
  /\ busy' = TRUE
  /\ flight' = [flight EXCEPT ![f] = Asked("chat")]
  /\ UNCHANGED <<loaded, shown, panelBusy, turns, history>>

\* Mutant: the button is not disabled during a request.
ClearBusy ==
  /\ messages # <<>>
  /\ messages' = <<>>
  /\ UNCHANGED <<loaded, flight, shown, busy, panelBusy, input, turns, sent, previous, history>>

Clear ==
  /\ ~ busy
  /\ messages # <<>>
  /\ messages' = <<>>
  /\ UNCHANGED <<loaded, flight, shown, busy, panelBusy, input, turns, sent, previous, history>>

\* The control panel is opened, or its refresh pressed.
PanelRefresh(f) ==
  /\ flight[f] = Free
  /\ flight' = [flight EXCEPT ![f] = Asked("panel")]
  /\ Disturbed(f)
  /\ UNCHANGED <<loaded, shown, busy, panelBusy, chat>>

\* Mutant: the panel's buttons are not disabled while one of them works.
PanelLoadOrUnloadAgain(f) ==
  /\ flight[f] = Free
  /\ panelBusy' = TRUE
  /\ flight' = [flight EXCEPT ![f] =
       Asked(IF status = "loaded" THEN "panel unload" ELSE "panel load")]
  /\ Disturbed(f)
  /\ UNCHANGED <<loaded, shown, busy, chat>>

PanelLoadOrUnload(f) ==
  /\ flight[f] = Free
  /\ ~ panelBusy
  /\ panelBusy' = TRUE
  /\ flight' = [flight EXCEPT ![f] =
       Asked(IF status = "loaded" THEN "panel unload" ELSE "panel load")]
  /\ Disturbed(f)
  /\ UNCHANGED <<loaded, shown, busy, chat>>

-----------------------------------------------------------------------------
(* The server.                                                             *)

TextOf(m) == IF m.by = "empty" THEN [chars |-> 0, bytes |-> 0] ELSE Text[<<m.by, m.turn>>]

\* ChatRequest and ChatMessage: from one to MaxMessages messages, each with a text
\* that is neither empty nor too long, and not too many bytes in all.
Accepted(conversation) ==
  /\ Len(conversation) \in 1..MaxMessages
  /\ \A i \in DOMAIN conversation : TextOf(conversation[i]).chars \in 1..MaxLength
  /\ FoldSeq(LAMBDA m, total : TextOf(m).bytes + total, 0, conversation) <= MaxBytes

\* What the handlers read of an answer.  Whether a remote provider is available is
\* decided by the server's catalogs (ModelCatalog): either way, each time.
Answers(f) ==
  LET kind == flight[f].kind IN
  [kind   : {kind},
   state  : {"answered"},
   loaded : {loaded' /\ kind \in {"health", "panel", "after"}},
   remote : IF kind \in {"health", "models"} THEN BOOLEAN ELSE {FALSE},
   reply  : IF kind = "chat" THEN {"assistant", "empty"} ELSE {"none"}]

Serve(f) ==
  /\ flight[f].state = "asked"
  /\ loaded' = CASE flight[f].kind \in {"load", "panel load"} -> TRUE
                 [] flight[f].kind = "panel unload" -> FALSE
                 [] OTHER -> loaded
  /\ flight[f].kind = "chat" => Accepted(sent)
  /\ \E answer \in Answers(f) : flight' = [flight EXCEPT ![f] = answer]
  /\ UNCHANGED <<shown, busy, panelBusy, chat, history>>

\* Refused, failed or unreachable; or done, and the answer is lost.
Fail(f) ==
  /\ flight[f].state \in {"asked", "answered"}
  /\ flight' = [flight EXCEPT ![f] = [Asked(flight[f].kind) EXCEPT !.state = "failed"]]
  /\ UNCHANGED <<loaded, shown, busy, panelBusy, chat, history>>

\* Another client loads or unloads the model.
Change ==
  /\ loaded' = ~ loaded
  /\ clean' = None
  /\ doubt' = TRUE
  /\ UNCHANGED <<flight, shown, busy, panelBusy, chat>>

-----------------------------------------------------------------------------
(* Answers, in any order.                                                  *)

Done(f) == flight' = [flight EXCEPT ![f] = Free]
StatusOf(answer) == IF answer.loaded THEN "loaded" ELSE "not_loaded"

ApplyHealth(f) ==
  /\ flight[f].kind = "health"
  /\ \/ /\ flight[f].state = "answered"
        /\ status' = StatusOf(flight[f])
        /\ ready' = IF catalog THEN ready ELSE flight[f].remote
        /\ Settled(f)
     \/ /\ flight[f].state = "failed"
        /\ status' = "error"
        /\ Unsettled(f)
        /\ UNCHANGED ready
  /\ Done(f)
  /\ UNCHANGED <<loaded, catalog, busy, panelBusy, chat>>

\* setCatalog, of refreshData or of handleRefreshCatalog; a failure leaves the list.
ApplyModels(f) ==
  /\ flight[f].kind = "models"
  /\ \/ flight[f].state = "answered" /\ catalog' = TRUE /\ ready' = flight[f].remote
     \/ flight[f].state = "failed" /\ UNCHANGED <<catalog, ready>>
  /\ Done(f)
  /\ UNCHANGED <<loaded, status, busy, panelBusy, chat, history>>

ApplyLoad(f) ==
  /\ flight[f].kind = "load"
  /\ \/ flight[f].state = "answered" /\ status' = "loaded" /\ Settled(f)
     \/ flight[f].state = "failed" /\ status' = "error" /\ Unsettled(f)
  /\ Done(f)
  /\ busy' = FALSE
  /\ UNCHANGED <<loaded, catalog, ready, panelBusy, chat>>

\* Mutant: isLoading is reset only after a reply.
ApplyChatForgetful(f) ==
  /\ flight[f].kind = "chat"
  /\ \/ /\ flight[f].state = "answered"
        /\ messages' = Recent(Append(messages, [by |-> flight[f].reply, turn |-> Last(sent).turn]))
        /\ busy' = FALSE
        /\ UNCHANGED input
     \/ /\ flight[f].state = "failed"
        /\ messages' = previous
        /\ input' = Last(sent).turn
        /\ UNCHANGED busy
  /\ Done(f)
  /\ sent' = <<>> /\ previous' = <<>>
  /\ UNCHANGED <<loaded, shown, panelBusy, turns, history>>

\* The reply is added; or messages and input are put back.
ApplyChat(f) ==
  /\ flight[f].kind = "chat"
  /\ \/ /\ flight[f].state = "answered"
        /\ messages' = Recent(Append(messages, [by |-> flight[f].reply, turn |-> Last(sent).turn]))
        /\ UNCHANGED input
     \/ /\ flight[f].state = "failed"
        /\ messages' = previous
        /\ input' = Last(sent).turn
  /\ Done(f)
  /\ sent' = <<>> /\ previous' = <<>>
  /\ busy' = FALSE
  /\ UNCHANGED <<loaded, shown, panelBusy, turns, history>>

\* refresh of the panel: onModelStatusChange; a failure is shown in the panel only.
ApplyPanel(f) ==
  /\ flight[f].kind \in {"panel", "after"}
  /\ \/ flight[f].state = "answered" /\ status' = StatusOf(flight[f]) /\ Settled(f)
     \/ flight[f].state = "failed" /\ Unsettled(f) /\ UNCHANGED status
  /\ Done(f)
  /\ panelBusy' = IF flight[f].kind = "after" THEN FALSE ELSE panelBusy
  /\ UNCHANGED <<loaded, catalog, ready, busy, chat>>

\* Mutant: the panel does not ask for the status after a load or an unload.
ApplyPanelCallBlind(f) ==
  /\ flight[f].kind \in {"panel load", "panel unload"}
  /\ \/ flight[f].state = "answered" /\ Settled(f)
     \/ flight[f].state = "failed" /\ Unsettled(f)
  /\ Done(f)
  /\ panelBusy' = FALSE
  /\ UNCHANGED <<loaded, shown, busy, chat>>

\* After a load or an unload the panel asks again before it enables its buttons.
ApplyPanelCall(f) ==
  /\ flight[f].kind \in {"panel load", "panel unload"}
  /\ \/ /\ flight[f].state = "answered"
        /\ flight' = [flight EXCEPT ![f] = Asked("after")]
        /\ UNCHANGED <<panelBusy, history>>
     \/ /\ flight[f].state = "failed"
        /\ Done(f)
        /\ panelBusy' = FALSE
        /\ Unsettled(f)
  /\ UNCHANGED <<loaded, shown, busy, chat>>

Apply(f) ==
  \/ ApplyHealth(f) \/ ApplyModels(f) \/ ApplyLoad(f) \/ ApplyChat(f)
  \/ ApplyPanel(f) \/ ApplyPanelCall(f)

Next ==
  \/ Type \/ Clear \/ Change
  \/ \E f \in Flights :
       \/ RefreshCatalog(f) \/ LoadModel(f) \/ SendMessage(f)
       \/ PanelRefresh(f) \/ PanelLoadOrUnload(f)
       \/ Serve(f) \/ Fail(f) \/ Apply(f)
       \/ \E g \in Flights : SaveAccessToken(f, g)

Spec == Init /\ [][Next]_vars

\* Requests are answered or time out at the proxy, and answers are applied.
FairSpec ==
  Spec /\ \A f \in Flights : WF_vars(Serve(f) \/ Fail(f)) /\ WF_vars(Apply(f))
-----------------------------------------------------------------------------
(* Properties.                                                             *)

Kinds == StatusKinds \cup {"none", "models", "chat"}
Message == [by : {"user", "assistant", "empty"}, turn : Nat \ {0}]

\* The type of every variable; the two flags are up exactly as long as a request of
\* theirs is under way, of which there is one.
TypeOK ==
  /\ loaded \in BOOLEAN
  /\ flight \in [Flights -> [kind : Kinds, state : {"free", "asked", "answered", "failed"},
                             loaded : BOOLEAN, remote : BOOLEAN,
                             reply : {"none", "assistant", "empty"}]]
  /\ status \in {"checking", "loaded", "not_loaded", "error"}
  /\ catalog \in BOOLEAN
  /\ ready \in BOOLEAN
  /\ busy <=> \E f \in Flights : flight[f].kind \in {"load", "chat"}
  /\ panelBusy <=> \E f \in Flights : flight[f].kind \in {"panel load", "panel unload", "after"}
  /\ messages \in Seq(Message)
  /\ input \in 0..turns
  /\ turns \in Nat
  /\ sent \in Seq(Message)
  /\ previous \in Seq(Message)
  /\ clean \in StatusFlights \cup {None}
  /\ doubt \in BOOLEAN

\* The turn at i is the question to the reply after it.
Pair(i) == /\ messages[i].by = "user"
           /\ messages[i + 1].by # "user"
           /\ messages[i + 1].turn = messages[i].turn

\* While nothing runs, the conversation on the screen is made of questions each
\* followed by its own reply: no reply without its question after a Clear, no failed
\* turn left behind, and no half of a turn that the limit has cut (CHANGELOG.md:49-51).
RepliesFollowQuestions ==
  ~ busy =>
    /\ Len(messages) % 2 = 0
    /\ \A i \in DOMAIN messages : i % 2 = 1 => Pair(i)

\* What is sent is what the screen shows, within the number of messages that the API
\* takes (CHANGELOG.md:30), and ends with the question.  A reply in it follows its own
\* question, save one: the question a full conversation begins with has been cut off
\* to make room (App.jsx:256), and its reply is sent without it.
\* The API may still refuse what is sent for its texts (Accepted), and refuse it again
\* until the text is cleared or cut off, for the conversation is put back as it was.
SentConversation ==
  \A f \in Flights :
    flight[f].kind = "chat" =>
      /\ messages = sent
      /\ Len(sent) \in 1..MaxMessages
      /\ Last(sent).by = "user"
      /\ \A i \in DOMAIN sent :
           sent[i].by # "user" =>
             \/ i = 1 /\ Len(sent) = MaxMessages
             \/ i > 1 /\ sent[i - 1] = [by |-> "user", turn |-> sent[i].turn]

\* The status on the screen is the server's whenever the last request that could set
\* it ran alone, nobody else changed the model since, and it did not fail.  Only
\* overlapping requests, of the two flags' owners for instance, can leave it wrong.
StatusIsRight ==
  ~ doubt /\ StatusFlights = {} => status = IF loaded THEN "loaded" ELSE "not_loaded"

\* The buttons come back, after failures as well.
ButtonsComeBack == (busy ~> ~ busy) /\ (panelBusy ~> ~ panelBusy)
=============================================================================
