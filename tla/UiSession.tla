------------------------------ MODULE UiSession ------------------------------
(***************************************************************************)
(* Pages of the Gradio UI (app/ui.py).  The browser keeps the state: what   *)
(* the components show.  An event sends the values its inputs have at that  *)
(* moment, waits for the server, and sets its outputs to what comes back,   *)
(* whatever they show by then.  _respond gets the chat history that way and *)
(* returns all of it; several listeners start it, and nothing keeps their   *)
(* events apart.                                                            *)
(*                                                                         *)
(* A question is known by its turn, its number on the page; a history is    *)
(* the sequence of the turns it shows.                                      *)
(***************************************************************************)
EXTENDS Integers, Sequences, Functions

CONSTANTS
  Pages,
  Customers,
  Suggested,  \* question_buttons
  MaxTurns,   \* how many questions a page asks
  None

ASSUME UiAssumption ==
  /\ {"enter", "send"} \cap Suggested = {}
  /\ None \notin Customers
  /\ MaxTurns \in Nat

(* textbox.submit, send_btn.click and the buttons' listeners.               *)
Typed == {"enter", "send"}
Listeners == Typed \cup Suggested

(* Gradio runs one event of a function at a time; submit and click share    *)
(* _respond, each button has a handler of its own (_make_ask_handler).      *)
Handler(l) == IF l \in Typed THEN "_respond" ELSE l
Handlers == {Handler(l) : l \in Listeners}

Texts == {"", "question"}

VARIABLES
  dropdown,    \* customer_dropdown
  sidebar,     \* whose customer_info and loan_table are shown
  textbox,     \* textbox
  transcript,  \* chatbot
  loading,     \* whether demo.load's event is on its way
  rendering,   \* whether customer_dropdown.change's event is, and for whom
  rerender,    \*   and whether it is to be sent again
  unrendered,  \* whether the last one failed
  event,       \* each listener's event: its place, its turn and its inputs
  clearing,    \* how many events that clear the textbox are on their way
  line,        \* the server's events for each function, in order
  turns        \* each turn's end, and the turns it was asked in the midst of

vars == <<dropdown, sidebar, textbox, transcript, loading, rendering, rerender,
          unrendered, event, clearing, line, turns>>
side == <<dropdown, sidebar, loading, rendering, rerender, unrendered>>
chat == <<transcript, event, clearing, line, turns>>

NoEvent == [at |-> "none"]

Init ==
  /\ dropdown = [p \in Pages |-> None]
  /\ sidebar = [p \in Pages |-> None]
  /\ textbox = [p \in Pages |-> ""]
  /\ transcript = [p \in Pages |-> <<>>]
  /\ loading = [p \in Pages |-> TRUE]
  /\ rendering = [p \in Pages |-> {}]
  /\ rerender = [p \in Pages |-> FALSE]
  /\ unrendered = [p \in Pages |-> FALSE]
  /\ event = [p \in Pages |-> [l \in Listeners |-> NoEvent]]
  /\ clearing = [p \in Pages |-> 0]
  /\ line = [f \in Handlers |-> <<>>]
  /\ turns = [p \in Pages |-> <<>>]

-----------------------------------------------------------------------------
(* The sidebar.                                                             *)

(* Variants, which nothing below uses, stand before what they vary: a       *)
(* plausible slip in the code, named for what it does.                      *)
(* Variant: a change while one is on its way is dropped (trigger_mode once, *)
(* as a click's).                                                           *)
ChangeOnce(p, c) ==
  /\ rendering' = [rendering EXCEPT ![p] = IF @ = {} THEN {c} ELSE @]
  /\ UNCHANGED rerender

(* customer_dropdown.change: one event at a time, the last one for sure.    *)
Change(p, c) ==
  /\ rendering' = [rendering EXCEPT ![p] = IF @ = {} THEN {c} ELSE @]
  /\ rerender' = [rerender EXCEPT ![p] = rendering[p] # {}]

LoadEnds(p) ==
  /\ loading[p]
  /\ loading' = [loading EXCEPT ![p] = FALSE]
  /\ UNCHANGED <<unrendered, textbox, chat>>

(* _on_load: the dropdown gets its choices and the first of them as value,  *)
(* the sidebar that customer's loans; the new value is a change.            *)
LoadReturns(p, first) ==
  /\ LoadEnds(p)
  /\ dropdown' = [dropdown EXCEPT ![p] = first]
  /\ sidebar' = [sidebar EXCEPT ![p] = first]
  /\ IF first = None THEN UNCHANGED <<rendering, rerender>> ELSE Change(p, first)

LoadRaises(p) ==
  /\ LoadEnds(p)
  /\ UNCHANGED <<dropdown, sidebar, rendering, rerender>>

(* The user picks another of the choices, which are there once it loaded.   *)
Choose(p, c) ==
  /\ dropdown[p] \notin {None, c}
  /\ dropdown' = [dropdown EXCEPT ![p] = c]
  /\ Change(p, c)
  /\ UNCHANGED <<sidebar, loading, unrendered, textbox, chat>>

(* The event is done, and sent again if there was a change meanwhile.       *)
RenderEnds(p) ==
  /\ rendering' = [rendering EXCEPT ![p] = IF rerender[p] THEN {dropdown[p]} ELSE {}]
  /\ rerender' = [rerender EXCEPT ![p] = FALSE]
  /\ UNCHANGED <<dropdown, loading, textbox, chat>>

RenderReturns(p) ==
  \E c \in rendering[p] :
     /\ sidebar' = [sidebar EXCEPT ![p] = c]
     /\ unrendered' = [unrendered EXCEPT ![p] = FALSE]
     /\ RenderEnds(p)

(* The database fails _render_customer_info: the sidebar stays.             *)
RenderRaises(p) ==
  /\ rendering[p] # {}
  /\ unrendered' = [unrendered EXCEPT ![p] = TRUE]
  /\ UNCHANGED sidebar
  /\ RenderEnds(p)

-----------------------------------------------------------------------------
(* Questions.                                                               *)

Type(p, text) ==
  /\ textbox[p] # text
  /\ textbox' = [textbox EXCEPT ![p] = text]
  /\ UNCHANGED <<side, chat>>

Pending(p) == {t \in DOMAIN turns[p] : turns[p][t].end = "pending"}

(* A listener fires unless its last event is still on its way: the inputs   *)
(* are taken now, and the event joins the line for its function.            *)
Ask(p, l, text) ==
  LET turn == Len(turns[p]) + 1 IN
  /\ event[p][l] = NoEvent
  /\ turn <= MaxTurns
  /\ event' = [event EXCEPT ![p][l] =
                 [at |-> "queued", turn |-> turn, message |-> text,
                  history |-> transcript[p], customer |-> dropdown[p]]]
  /\ line' = [line EXCEPT ![Handler(l)] = Append(@, <<p, l>>)]
  /\ turns' = [turns EXCEPT ![p] = Append(@, [end |-> "pending", amid |-> Pending(p)])]
  /\ UNCHANGED <<side, textbox, clearing, transcript>>

Submit(p, l) == l \in Typed /\ Ask(p, l, textbox[p])

Suggest(p, l) == l \in Suggested /\ Ask(p, l, "question")

(* The event of _respond whose turn it is on the server.                    *)
Responding(p, l, at) ==
  /\ event[p][l].at = at
  /\ Head(line[Handler(l)]) = <<p, l>>

(* Variant: an event that raises keeps its place in the line.               *)
EndUnlessFailed(p, l, shown, end) ==
  /\ transcript' = [transcript EXCEPT ![p] = shown]
  /\ turns' = [turns EXCEPT ![p][event[p][l].turn].end = end]
  /\ event' = [event EXCEPT ![p][l] = NoEvent]
  /\ line' = IF end = "failed" THEN line ELSE [line EXCEPT ![Handler(l)] = Tail(@)]
  /\ clearing' = [clearing EXCEPT ![p] = IF l \in Typed THEN @ + 1 ELSE @]
  /\ UNCHANGED <<side, textbox>>

(* An event ends: the chat shows what it returned, the next in line starts, *)
(* and .then has the textbox cleared if the question was typed.             *)
End(p, l, shown, end) ==
  /\ transcript' = [transcript EXCEPT ![p] = shown]
  /\ turns' = [turns EXCEPT ![p][event[p][l].turn].end = end]
  /\ event' = [event EXCEPT ![p][l] = NoEvent]
  /\ line' = [line EXCEPT ![Handler(l)] = Tail(@)]
  /\ clearing' = [clearing EXCEPT ![p] = IF l \in Typed THEN @ + 1 ELSE @]
  /\ UNCHANGED <<side, textbox>>

(* _respond up to its await: without a customer a hint comes back, without  *)
(* a message the history as it was.                                         *)
Refuse(p, l) ==
  LET e == event[p][l] IN
  /\ Responding(p, l, "queued")
  /\ e.customer = None
  /\ End(p, l, Append(e.history, e.turn), "hint")

(* Variant: a blank message gets an empty history back.                     *)
IgnoreAndForget(p, l) ==
  LET e == event[p][l] IN
  /\ Responding(p, l, "queued")
  /\ e.customer # None
  /\ e.message = ""
  /\ End(p, l, <<>>, "blank")

Ignore(p, l) ==
  LET e == event[p][l] IN
  /\ Responding(p, l, "queued")
  /\ e.customer # None
  /\ e.message = ""
  /\ End(p, l, e.history, "blank")

AskAgent(p, l) ==
  LET e == event[p][l] IN
  /\ Responding(p, l, "queued")
  /\ e.customer # None
  /\ e.message # ""
  /\ event' = [event EXCEPT ![p][l].at = "asking"]
  /\ UNCHANGED <<side, textbox, transcript, clearing, line, turns>>

(* Variant: the exchange is added to what is shown by now.                  *)
AnswerBelow(p, l) ==
  /\ Responding(p, l, "asking")
  /\ End(p, l, Append(transcript[p], event[p][l].turn), "answered")

(* The exchange is added to the history the question was asked with.        *)
Answer(p, l) ==
  LET e == event[p][l] IN
  /\ Responding(p, l, "asking")
  /\ End(p, l, Append(e.history, e.turn), "answered")

(* get_agent or the agent raises: the outputs stay, .then follows anyway.   *)
Raise(p, l) ==
  /\ Responding(p, l, "asking")
  /\ End(p, l, transcript[p], "failed")

Clear(p) ==
  /\ clearing[p] > 0
  /\ clearing' = [clearing EXCEPT ![p] = @ - 1]
  /\ textbox' = [textbox EXCEPT ![p] = ""]
  /\ UNCHANGED <<side, transcript, event, line, turns>>

-----------------------------------------------------------------------------
Load(p) == LoadRaises(p) \/ \E c \in Customers \cup {None} : LoadReturns(p, c)

Render(p) == RenderReturns(p) \/ RenderRaises(p)

Respond(p, l) ==
  Refuse(p, l) \/ Ignore(p, l) \/ AskAgent(p, l) \/ Answer(p, l) \/ Raise(p, l)

UserStep(p) ==
  \/ \E c \in Customers : Choose(p, c)
  \/ \E text \in Texts : Type(p, text)
  \/ \E l \in Listeners : Submit(p, l) \/ Suggest(p, l)

Next ==
  \E p \in Pages :
     UserStep(p) \/ Load(p) \/ Render(p) \/ Clear(p) \/ \E l \in Listeners : Respond(p, l)

Spec == Init /\ [][Next]_vars

(* The server gets on with what it was sent; an agent answers or fails.     *)
FairSpec ==
  /\ Spec
  /\ \A p \in Pages : WF_vars(Load(p)) /\ WF_vars(Render(p)) /\ WF_vars(Clear(p))
  /\ \A p \in Pages, l \in Listeners : WF_vars(Respond(p, l))

-----------------------------------------------------------------------------
TurnNumbers == 1..MaxTurns

Event ==
  [at : {"queued", "asking"}, turn : TurnNumbers, message : Texts,
   history : Seq(TurnNumbers), customer : Customers \cup {None}]

(* Every variable has its type; only a question that a customer was chosen  *)
(* for gets to the agent.                                                   *)
TypeOK ==
  /\ dropdown \in [Pages -> Customers \cup {None}]
  /\ sidebar \in [Pages -> Customers \cup {None}]
  /\ textbox \in [Pages -> Texts]
  /\ transcript \in [Pages -> Seq(TurnNumbers)]
  /\ loading \in [Pages -> BOOLEAN]
  /\ rendering \in [Pages -> SUBSET Customers]
  /\ rerender \in [Pages -> BOOLEAN]
  /\ unrendered \in [Pages -> BOOLEAN]
  /\ event \in [Pages -> [Listeners -> Event \cup {NoEvent}]]
  /\ clearing \in [Pages -> Nat]
  /\ line \in [Handlers -> Seq(Pages \X Listeners)]
  /\ turns \in [Pages -> Seq([end : {"pending", "hint", "blank", "answered", "failed"},
                              amid : SUBSET TurnNumbers])]
  /\ \A p \in Pages, l \in Listeners :
        event[p][l].at = "asking" => event[p][l].customer # None

(* The sidebar shows another customer than the dropdown names only while    *)
(* the one named is about to be rendered or because that failed: the loans  *)
(* and the DTI on the screen are never left those of the customer before.   *)
SidebarFollows ==
  \A p \in Pages :
     /\ sidebar[p] # dropdown[p] => rendering[p] # {} \/ unrendered[p]
     /\ \A c \in rendering[p] : c # dropdown[p] => rerender[p]

(* Two questions of a page were on their way together.                      *)
Overlap(p, t, u) == t \in turns[p][u].amid \/ u \in turns[p][t].amid

(* An exchange that came back stays in the transcript unless another        *)
(* question of the page was on its way with it: whatever else is asked,     *)
(* ignored or fails later carries it on.                                    *)
LostOnlyByOverlap ==
  \A p \in Pages, t \in TurnNumbers :
     /\ t \in DOMAIN turns[p]
     /\ turns[p][t].end \in {"hint", "answered"}
     /\ ~ \E u \in DOMAIN turns[p] : Overlap(p, t, u)
     => t \in Range(transcript[p])

(* The transcript shows exchanges in the order they were asked in, each at  *)
(* most once, however late their answers came.                              *)
TranscriptInOrder ==
  \A p \in Pages : \A i, j \in DOMAIN transcript[p] :
     i < j => transcript[p][i] < transcript[p][j]

(* A question is over some day, also one behind other pages' questions in   *)
(* the line for _respond, and its listener can be used again.               *)
QuestionEnds ==
  \A p \in Pages, l \in Listeners : event[p][l] # NoEvent ~> event[p][l] = NoEvent
=============================================================================
