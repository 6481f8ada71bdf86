--------------------------- MODULE UiSessionProofs ---------------------------
(***************************************************************************)
(* Proofs about UiSession, for any pages, customers, suggested questions    *)
(* and number of questions.  The sidebar's part is inductive by itself.  A  *)
(* transcript is what some question brought back, so its properties rest on *)
(* what the questions on their way carry: a rising history below their own  *)
(* turn, and in it every exchange that was over when they were asked and    *)
(* that nothing overlapped.                                                 *)
(***************************************************************************)
EXTENDS UiSession, TLAPS

Asked(p, l) == event[p][l] # NoEvent

(* Before the first load nothing is rendered, and a page without customers  *)
(* has no change to render again.                                           *)
SidesOK ==
  \A p \in Pages :
     /\ loading[p] => rendering[p] = {} /\ dropdown[p] = None
     /\ rerender[p] => dropdown[p] # None

Rising(s) == \A i, j \in DOMAIN s : i < j => s[i] < s[j]
Below(s, n) == \A i \in DOMAIN s : s[i] < n

InLine(p, l) == \E i \in DOMAIN line[Handler(l)] : line[Handler(l)][i] = <<p, l>>

(* A question on its way is pending and in its line, with a history that    *)
(* rises to its own turn.                                                   *)
EventOK(p, l) ==
  /\ event[p][l].turn \in DOMAIN turns[p]
  /\ turns[p][event[p][l].turn].end = "pending"
  /\ InLine(p, l)
  /\ Rising(event[p][l].history)
  /\ Below(event[p][l].history, event[p][l].turn)

EventsOK == \A p \in Pages, l \in Listeners : Asked(p, l) => EventOK(p, l)

(* Those on their way together overlap.                                     *)
Apart(p, l, m) ==
  /\ event[p][l].turn # event[p][m].turn
  /\ Overlap(p, event[p][l].turn, event[p][m].turn)

TogetherOverlap ==
  \A p \in Pages, l, m \in Listeners :
     l # m /\ Asked(p, l) /\ Asked(p, m) => Apart(p, l, m)

TranscriptOK(p) ==
  /\ Len(turns[p]) <= MaxTurns
  /\ Rising(transcript[p])
  /\ Below(transcript[p], Len(turns[p]) + 1)

TranscriptsOK == \A p \in Pages : TranscriptOK(p)

(* The turns LostOnlyByOverlap speaks of, and who carries them on.          *)
Lone(p, t) ==
  /\ t \in DOMAIN turns[p]
  /\ turns[p][t].end \in {"hint", "answered"}
  /\ ~ \E u \in DOMAIN turns[p] : Overlap(p, t, u)

Carried ==
  \A p \in Pages, t \in TurnNumbers :
     Lone(p, t) =>
        /\ t \in Range(transcript[p])
        /\ \A l \in Listeners : Asked(p, l) => t \in Range(event[p][l].history)

Questions == EventsOK /\ TogetherOverlap /\ TranscriptsOK /\ Carried

IInv == TypeOK /\ SidesOK /\ SidebarFollows /\ Questions

-----------------------------------------------------------------------------
(* Sequences.                                                               *)

LEMMA AppendFacts ==
  ASSUME NEW S, NEW s \in Seq(S), NEW x \in S
  PROVE  /\ Append(s, x) \in Seq(S)
         /\ DOMAIN Append(s, x) = DOMAIN s \cup {Len(s) + 1}
         /\ \A i \in DOMAIN s : Append(s, x)[i] = s[i]
         /\ Append(s, x)[Len(s) + 1] = x
         /\ \A i \in DOMAIN s : i \in 1..Len(s)
  OBVIOUS

LEMMA AppendRange ==
  ASSUME NEW S, NEW s \in Seq(S), NEW x \in S
  PROVE  /\ x \in Range(Append(s, x))
         /\ \A t \in Range(s) : t \in Range(Append(s, x))
  BY AppendFacts DEF Range

LEMMA AppendRises ==
  ASSUME NEW s \in Seq(Nat), NEW n \in Nat, Rising(s), Below(s, n)
  PROVE  Rising(Append(s, n)) /\ Below(Append(s, n), n + 1)
<1>1. \A i \in DOMAIN s : s[i] \in Nat /\ s[i] < n /\ i \in Nat /\ i < Len(s) + 1
  BY DEF Below
<1>2. Len(s) \in Nat
  OBVIOUS
<1> QED
  BY <1>1, <1>2, AppendFacts DEF Rising, Below

LEMMA BelowMore ==
  ASSUME NEW s, \A i \in DOMAIN s : s[i] \in Nat, NEW m \in Nat, NEW n \in Nat,
         m <= n, Below(s, m)
  PROVE  Below(s, n)
  BY DEF Below

LEMMA TurnsAreNats ==
  ASSUME NEW s \in Seq(TurnNumbers)
  PROVE  s \in Seq(Nat) /\ \A i \in DOMAIN s : s[i] \in Nat
<1>1. \A i \in DOMAIN s : s[i] \in Nat
  BY UiAssumption DEF TurnNumbers
<1> QED
  BY <1>1

LEMMA TailFacts ==
  ASSUME NEW S, NEW s \in Seq(S), s # <<>>
  PROVE  /\ Tail(s) \in Seq(S)
         /\ \A i \in DOMAIN s : i # 1 => i - 1 \in DOMAIN Tail(s) /\ Tail(s)[i - 1] = s[i]
         /\ Head(s) = s[1]
  OBVIOUS

-----------------------------------------------------------------------------
(* The types of the two halves of a page.                                   *)

SideTypes ==
  /\ dropdown \in [Pages -> Customers \cup {None}]
  /\ sidebar \in [Pages -> Customers \cup {None}]
  /\ loading \in [Pages -> BOOLEAN]
  /\ rendering \in [Pages -> SUBSET Customers]
  /\ rerender \in [Pages -> BOOLEAN]
  /\ unrendered \in [Pages -> BOOLEAN]

ChatTypes ==
  /\ textbox \in [Pages -> Texts]
  /\ transcript \in [Pages -> Seq(TurnNumbers)]
  /\ event \in [Pages -> [Listeners -> Event \cup {NoEvent}]]
  /\ clearing \in [Pages -> Nat]
  /\ line \in [Handlers -> Seq(Pages \X Listeners)]
  /\ turns \in [Pages -> Seq([end : {"pending", "hint", "blank", "answered", "failed"},
                              amid : SUBSET TurnNumbers])]
  /\ \A p \in Pages, l \in Listeners :
        event[p][l].at = "asking" => event[p][l].customer # None

LEMMA BothTypes == TypeOK <=> SideTypes /\ ChatTypes
  BY DEF TypeOK, SideTypes, ChatTypes

-----------------------------------------------------------------------------
LEMMA InvInit == Init => IInv
<1> SUFFICES ASSUME Init PROVE IInv
  OBVIOUS
<1>0. \A p \in Pages :
         /\ turns[p] = <<>> /\ transcript[p] = <<>>
         /\ \A l \in Listeners : event[p][l] = NoEvent
  BY DEF Init
<1>1. TypeOK
  <2>1. NoEvent.at # "asking"
    BY DEF NoEvent
  <2>2. \A p \in Pages, l \in Listeners : event[p][l].at # "asking"
    BY <1>0, <2>1
  <2>3. SideTypes
    BY DEF Init, SideTypes
  <2>4. ChatTypes
    <3>1. /\ textbox \in [Pages -> Texts] /\ clearing \in [Pages -> Nat]
          /\ event \in [Pages -> [Listeners -> Event \cup {NoEvent}]]
      BY DEF Init, Texts
    <3>2. \A S : <<>> \in Seq(S)
      OBVIOUS
    <3>3. /\ transcript \in [Pages -> Seq(TurnNumbers)]
          /\ line \in [Handlers -> Seq(Pages \X Listeners)]
          /\ \A S : turns \in [Pages -> Seq(S)]
      BY <3>2 DEF Init
    <3> QED
      BY <2>2, <3>1, <3>3 DEF ChatTypes
  <2> QED
    BY <2>3, <2>4, BothTypes
<1>2. SidesOK /\ SidebarFollows
  BY DEF Init, SidesOK, SidebarFollows
<1>3. EventsOK /\ TogetherOverlap
  BY <1>0 DEF EventsOK, TogetherOverlap, Asked
<1>4. TranscriptsOK
  <2>1. Len(<<>>) = 0 /\ DOMAIN <<>> = {}
    OBVIOUS
  <2> QED
    BY <1>0, <2>1, UiAssumption DEF TranscriptsOK, TranscriptOK, Rising, Below
<1>5. Carried
  <2>1. DOMAIN <<>> = {}
    OBVIOUS
  <2> QED
    BY <1>0, <2>1 DEF Carried, Lone
<1> QED
  BY <1>1, <1>2, <1>3, <1>4, <1>5 DEF IInv, Questions

-----------------------------------------------------------------------------
(* What the steps leave alone.                                              *)

asked == <<transcript, event, line, turns>>

LEMMA QuestionsKept == Questions /\ UNCHANGED asked => Questions'
<1> SUFFICES ASSUME Questions, UNCHANGED asked PROVE Questions'
  OBVIOUS
<1> USE DEF asked
<1>1. EventsOK'
  BY DEF Questions, EventsOK, EventOK, Asked, InLine, Rising, Below
<1>2. TogetherOverlap'
  BY DEF Questions, TogetherOverlap, Asked, Apart, Overlap
<1>3. TranscriptsOK'
  BY DEF Questions, TranscriptsOK, TranscriptOK, Rising, Below
<1>4. Carried'
  BY DEF Questions, Carried, Lone, Overlap, Asked, Range
<1> QED
  BY <1>1, <1>2, <1>3, <1>4 DEF Questions

LEMMA SidesKept ==
  SidesOK /\ SidebarFollows /\ UNCHANGED side => SidesOK' /\ SidebarFollows'
  BY DEF SidesOK, SidebarFollows, side

-----------------------------------------------------------------------------
(* The sidebar.                                                             *)

Side == SideTypes /\ SidesOK /\ SidebarFollows

LEMMA LoadKeepsSide ==
  ASSUME Side, NEW p \in Pages, Load(p)
  PROVE  Side'
<1> USE UiAssumption DEF Side, SideTypes, SidesOK, SidebarFollows
<1>1. CASE LoadRaises(p)
  BY <1>1 DEF LoadRaises, LoadEnds
<1>2. ASSUME NEW c \in Customers \cup {None}, LoadReturns(p, c)
      PROVE  Side'
  <2>1. rendering[p] = {} /\ rerender[p] = FALSE
    BY <1>2 DEF LoadReturns, LoadEnds
  <2>2. CASE c = None
    BY <1>2, <2>1, <2>2 DEF LoadReturns, LoadEnds
  <2>3. CASE c # None
    BY <1>2, <2>1, <2>3 DEF LoadReturns, LoadEnds, Change
  <2> QED
    BY <2>2, <2>3
<1> QED
  BY <1>1, <1>2 DEF Load

LEMMA ChooseKeepsSide ==
  ASSUME Side, NEW p \in Pages, NEW c \in Customers, Choose(p, c)
  PROVE  Side'
  BY UiAssumption
  DEF Side, SideTypes, SidesOK, SidebarFollows, Choose, Change

LEMMA RenderKeepsSide ==
  ASSUME Side, NEW p \in Pages, Render(p)
  PROVE  Side'
<1> USE UiAssumption DEF Side, SideTypes, SidesOK, SidebarFollows
<1>1. CASE RenderReturns(p)
  <2>1. PICK c \in rendering[p] :
           /\ sidebar' = [sidebar EXCEPT ![p] = c]
           /\ unrendered' = [unrendered EXCEPT ![p] = FALSE]
           /\ RenderEnds(p)
    BY <1>1 DEF RenderReturns
  <2> QED
    BY <2>1 DEF RenderEnds
<1>2. CASE RenderRaises(p)
  BY <1>2 DEF RenderRaises, RenderEnds
<1> QED
  BY <1>1, <1>2 DEF Render

-----------------------------------------------------------------------------
(* Questions.                                                               *)

Chat == ChatTypes /\ Questions

Turn == [end : {"pending", "hint", "blank", "answered", "failed"},
         amid : SUBSET TurnNumbers]

LEMMA ChatFacts ==
  ASSUME Chat, NEW p \in Pages
  PROVE  /\ turns[p] \in Seq(Turn)
         /\ Len(turns[p]) \in Nat
         /\ DOMAIN turns[p] = 1..Len(turns[p])
         /\ DOMAIN turns[p] \subseteq TurnNumbers
         /\ transcript[p] \in Seq(TurnNumbers)
         /\ \A l \in Listeners : Asked(p, l) => event[p][l] \in Event
         /\ \A l \in Listeners : Handler(l) \in Handlers
<1> USE UiAssumption
<1>1. /\ turns[p] \in Seq(Turn)
      /\ transcript[p] \in Seq(TurnNumbers)
  BY DEF Chat, ChatTypes, Turn
<1>2. Len(turns[p]) <= MaxTurns
  BY DEF Chat, Questions, TranscriptsOK, TranscriptOK
<1>3. /\ Len(turns[p]) \in Nat
      /\ DOMAIN turns[p] = 1..Len(turns[p])
  BY <1>1
<1>4. \A l \in Listeners : Asked(p, l) => event[p][l] \in Event
  BY DEF Chat, ChatTypes, Asked
<1> QED
  BY <1>1, <1>2, <1>3, <1>4 DEF TurnNumbers, Handlers

(* A new question: pending, behind all that are pending, with what the page *)
(* shows.                                                                   *)
LEMMA AskFacts ==
  ASSUME Chat, NEW p \in Pages, NEW l \in Listeners, NEW text, Ask(p, l, text)
  PROVE  LET turn == Len(turns[p]) + 1 IN
         /\ turn \in TurnNumbers
         /\ turns' \in [Pages -> Seq(Turn)]
         /\ Len(turns'[p]) = turn
         /\ DOMAIN turns'[p] = DOMAIN turns[p] \cup {turn}
         /\ turn \notin DOMAIN turns[p]
         /\ \A t \in DOMAIN turns[p] : turns'[p][t] = turns[p][t]
         /\ turns'[p][turn] = [end |-> "pending", amid |-> Pending(p)]
         /\ turns'[p][turn].end = "pending"
         /\ turns'[p][turn].amid = Pending(p)
         /\ \A q \in Pages \ {p} : turns'[q] = turns[q]
<1> DEFINE turn == Len(turns[p]) + 1
           new == [end |-> "pending", amid |-> Pending(p)]
<1>1. /\ turns[p] \in Seq(Turn) /\ Len(turns[p]) \in Nat
      /\ DOMAIN turns[p] = 1..Len(turns[p])
      /\ DOMAIN turns[p] \subseteq TurnNumbers
  BY ChatFacts
<1>2. turn \in TurnNumbers
  BY <1>1, UiAssumption DEF Ask, TurnNumbers
<1>3. new \in Turn
  BY <1>1 DEF Pending, Turn
<1>4. turns \in [Pages -> Seq(Turn)]
  BY DEF Chat, ChatTypes, Turn
<1>5. turns' = [turns EXCEPT ![p] = Append(@, new)]
  BY DEF Ask
<1>6. turns'[p] = Append(turns[p], new) /\ \A q \in Pages \ {p} : turns'[q] = turns[q]
  BY <1>4, <1>5
<1>7. Append(turns[p], new) \in Seq(Turn) /\ Len(Append(turns[p], new)) = turn
  BY <1>1, <1>3
<1>8. turns' \in [Pages -> Seq(Turn)]
  BY <1>4, <1>5, <1>6, <1>7
<1>9. turn \notin DOMAIN turns[p]
  BY <1>1
<1> HIDE DEF new
<1>10. /\ DOMAIN turns'[p] = DOMAIN turns[p] \cup {turn}
       /\ \A t \in DOMAIN turns[p] : turns'[p][t] = turns[p][t]
       /\ turns'[p][turn] = new
  BY <1>1, <1>3, <1>6, AppendFacts
<1>11. new = [end |-> "pending", amid |-> Pending(p)]
  BY DEF new
<1>12. new.end = "pending" /\ new.amid = Pending(p)
  BY <1>11
<1> QED
  BY <1>2, <1>6, <1>7, <1>8, <1>9, <1>10, <1>11, <1>12

LEMMA AskKeepsTypes ==
  ASSUME SideTypes, Chat, NEW p \in Pages, NEW l \in Listeners, NEW text \in Texts,
         Ask(p, l, text)
  PROVE  ChatTypes'
<1>1. Len(turns[p]) + 1 \in TurnNumbers /\ turns' \in [Pages -> Seq(Turn)]
  BY AskFacts
<1>2. transcript[p] \in Seq(TurnNumbers) /\ Handler(l) \in Handlers
  BY ChatFacts
<1> DEFINE e == [at |-> "queued", turn |-> Len(turns[p]) + 1, message |-> text,
                 history |-> transcript[p], customer |-> dropdown[p]]
<1>3. e \in Event /\ e.at # "asking"
  BY <1>1, <1>2 DEF Event, SideTypes
<1>4. event' = [event EXCEPT ![p][l] = e]
  BY DEF Ask
<1> HIDE DEF e
<1>5. event' \in [Pages -> [Listeners -> Event \cup {NoEvent}]]
  BY <1>3, <1>4 DEF Chat, ChatTypes
<1>6. \A q \in Pages, m \in Listeners :
         event'[q][m].at = "asking" => event'[q][m].customer # None
  <2> TAKE q \in Pages, m \in Listeners
  <2>1. CASE q = p /\ m = l
    BY <2>1, <1>3, <1>4 DEF Chat, ChatTypes
  <2>2. CASE ~(q = p /\ m = l)
    <3>1. event'[q][m] = event[q][m]
      BY <2>2, <1>4 DEF Chat, ChatTypes
    <3> QED
      BY <3>1 DEF Chat, ChatTypes
  <2> QED
    BY <2>1, <2>2
<1>7. line' \in [Handlers -> Seq(Pages \X Listeners)]
  BY <1>2 DEF Ask, Chat, ChatTypes
<1> QED
  BY <1>1, <1>5, <1>6, <1>7 DEF Ask, Chat, ChatTypes, side, Turn

LEMMA AskKeepsTranscripts ==
  ASSUME Chat, NEW p \in Pages, NEW l \in Listeners, NEW text, Ask(p, l, text)
  PROVE  TranscriptsOK'
<1> SUFFICES ASSUME NEW q \in Pages PROVE TranscriptOK(q)'
  BY DEF TranscriptsOK
<1>1. transcript' = transcript
  BY DEF Ask
<1>2. /\ Rising(transcript[q]) /\ Below(transcript[q], Len(turns[q]) + 1)
      /\ Len(turns[q]) <= MaxTurns
  BY DEF Chat, Questions, TranscriptsOK, TranscriptOK
<1>3. transcript[q] \in Seq(TurnNumbers) /\ Len(turns[q]) \in Nat
  BY ChatFacts
<1>4. CASE q = p
  <2>1. Len(turns'[q]) = Len(turns[q]) + 1 /\ Len(turns'[q]) <= MaxTurns
    BY <1>4, <1>3, AskFacts DEF Ask
  <2>2. \A i \in DOMAIN transcript[q] : transcript[q][i] \in Nat
    BY <1>3, UiAssumption DEF TurnNumbers
  <2>3. Below(transcript[q], Len(turns'[q]) + 1)
    BY <1>2, <1>3, <2>1, <2>2 DEF Below
  <2> QED
    BY <1>1, <1>2, <1>4, <2>1, <2>3 DEF TranscriptOK, Rising, Below
<1>5. CASE q # p
  <2>1. turns'[q] = turns[q]
    BY <1>5, AskFacts
  <2> QED
    BY <1>1, <1>2, <2>1 DEF TranscriptOK, Rising, Below
<1> QED
  BY <1>4, <1>5

(* Which events there are after one was added.                              *)
LEMMA AskedAfter ==
  ASSUME Chat, NEW p \in Pages, NEW l \in Listeners, NEW text, Ask(p, l, text)
  PROVE  /\ ~Asked(p, l)
         /\ event'[p][l].turn = Len(turns[p]) + 1
         /\ event'[p][l].history = transcript[p]
         /\ \A q \in Pages, m \in Listeners :
               ~(q = p /\ m = l) => event'[q][m] = event[q][m]
  BY DEF Ask, Asked, Chat, ChatTypes

LEMMA AskKeepsEvents ==
  ASSUME Chat, NEW p \in Pages, NEW l \in Listeners, NEW text, Ask(p, l, text)
  PROVE  EventsOK'
<1> SUFFICES ASSUME NEW q \in Pages, NEW m \in Listeners, Asked(q, m)'
             PROVE  EventOK(q, m)'
  BY DEF EventsOK
<1>1. line' = [line EXCEPT ![Handler(l)] = Append(@, <<p, l>>)]
  BY DEF Ask
<1>2. \A h \in Handlers : line[h] \in Seq(Pages \X Listeners)
  BY DEF Chat, ChatTypes
<1>3. Handler(l) \in Handlers /\ Handler(m) \in Handlers
  BY DEF Handlers
<1>4. line'[Handler(l)] = Append(line[Handler(l)], <<p, l>>)
  BY <1>1, <1>3 DEF Chat, ChatTypes
<1>5. CASE q = p /\ m = l
  <2>1. /\ event'[p][l].turn \in DOMAIN turns'[p]
        /\ turns'[p][event'[p][l].turn].end = "pending"
    <3>1. event'[p][l].turn = Len(turns[p]) + 1
      BY AskedAfter
    <3>2. /\ Len(turns[p]) + 1 \in DOMAIN turns'[p]
          /\ turns'[p][Len(turns[p]) + 1].end = "pending"
      BY AskFacts
    <3> QED
      BY <3>1, <3>2
  <2>2. Rising(transcript[p]) /\ Below(transcript[p], Len(turns[p]) + 1)
    BY DEF Chat, Questions, TranscriptsOK, TranscriptOK
  <2>3. InLine(p, l)'
    <3>1. Len(line[Handler(l)]) + 1 \in DOMAIN line'[Handler(l)]
      BY <1>2, <1>3, <1>4, AppendFacts
    <3>2. line'[Handler(l)][Len(line[Handler(l)]) + 1] = <<p, l>>
      BY <1>2, <1>3, <1>4, AppendFacts
    <3> QED
      BY <3>1, <3>2 DEF InLine
  <2>4. Rising(event[p][l].history)' /\ Below(event[p][l].history, event[p][l].turn)'
    BY <2>2, AskedAfter DEF Rising, Below
  <2> QED
    BY <1>5, <2>1, <2>3, <2>4 DEF EventOK
<1>6. CASE ~(q = p /\ m = l)
  <2>1. event'[q][m] = event[q][m]
    BY <1>6, AskedAfter
  <2>2. EventOK(q, m)
    BY <2>1 DEF Asked, Chat, Questions, EventsOK
  <2>3. /\ event[q][m].turn \in DOMAIN turns'[q]
        /\ turns'[q][event[q][m].turn].end = "pending"
    BY <2>2, AskFacts DEF EventOK
  <2>4. InLine(q, m)'
    <3>1. PICK i \in DOMAIN line[Handler(m)] : line[Handler(m)][i] = <<q, m>>
      BY <2>2 DEF EventOK, InLine
    <3>2. i \in DOMAIN line'[Handler(m)] /\ line'[Handler(m)][i] = <<q, m>>
      <4>1. CASE Handler(m) = Handler(l)
        BY <3>1, <4>1, <1>2, <1>3, <1>4, AppendFacts
      <4>2. CASE Handler(m) # Handler(l)
        <5>1. line'[Handler(m)] = line[Handler(m)]
          BY <4>2, <1>1, <1>3 DEF Chat, ChatTypes
        <5> QED
          BY <5>1, <3>1
      <4> QED
        BY <4>1, <4>2
    <3> QED
      BY <3>2 DEF InLine
  <2>5. Rising(event[q][m].history)' /\ Below(event[q][m].history, event[q][m].turn)'
    BY <2>1, <2>2 DEF EventOK, Rising, Below
  <2> QED
    BY <2>1, <2>3, <2>4, <2>5 DEF EventOK
<1> QED
  BY <1>5, <1>6

LEMMA AskKeepsOverlaps ==
  ASSUME Chat, NEW p \in Pages, NEW l \in Listeners, NEW text, Ask(p, l, text)
  PROVE  TogetherOverlap'
<1> SUFFICES ASSUME NEW q \in Pages, NEW k \in Listeners, NEW m \in Listeners,
                    k # m, Asked(q, k)', Asked(q, m)'
             PROVE  Apart(q, k, m)'
  BY DEF TogetherOverlap
<1> DEFINE turn == Len(turns[p]) + 1
<1>1. ASSUME NEW n \in Listeners, n # l, Asked(p, n)'
      PROVE  /\ event'[p][n].turn # turn
             /\ event'[p][n].turn \in turns'[p][turn].amid
  <2>1. event'[p][n] = event[p][n] /\ Asked(p, n)
    BY <1>1, AskedAfter DEF Asked
  <2>2. event[p][n].turn \in DOMAIN turns[p] /\ turns[p][event[p][n].turn].end = "pending"
    BY <2>1 DEF Chat, Questions, EventsOK, EventOK
  <2>3. turn \notin DOMAIN turns[p] /\ turns'[p][turn].amid = Pending(p)
    BY AskFacts
  <2> QED
    BY <2>1, <2>2, <2>3 DEF Pending
<1>2. event'[p][l].turn = turn
  BY AskedAfter
<1>3. CASE q = p /\ k = l
  BY <1>1, <1>2, <1>3 DEF Apart, Overlap
<1>4. CASE q = p /\ m = l
  BY <1>1, <1>2, <1>4 DEF Apart, Overlap
<1>5. CASE q # p \/ (k # l /\ m # l)
  <2>1. event'[q][k] = event[q][k] /\ event'[q][m] = event[q][m]
    BY <1>5, AskedAfter
  <2>2. Apart(q, k, m) /\ EventOK(q, k) /\ EventOK(q, m)
    BY <2>1 DEF Chat, Questions, TogetherOverlap, EventsOK, Asked
  <2>3. /\ turns'[q][event[q][k].turn] = turns[q][event[q][k].turn]
        /\ turns'[q][event[q][m].turn] = turns[q][event[q][m].turn]
    BY <2>2, AskFacts DEF EventOK
  <2> QED
    BY <2>1, <2>2, <2>3 DEF Apart, Overlap
<1> QED
  BY <1>3, <1>4, <1>5

LEMMA AskKeepsCarried ==
  ASSUME Chat, NEW p \in Pages, NEW l \in Listeners, NEW text, Ask(p, l, text)
  PROVE  Carried'
<1> SUFFICES ASSUME NEW q \in Pages, NEW t \in TurnNumbers, Lone(q, t)'
             PROVE  /\ t \in Range(transcript'[q])
                    /\ \A m \in Listeners :
                          Asked(q, m)' => t \in Range(event'[q][m].history)
  BY DEF Carried
<1> DEFINE turn == Len(turns[p]) + 1
<1>1. transcript' = transcript
  BY DEF Ask
<1>2. Lone(q, t)
  <2>1. CASE q = p
    <3>1. /\ DOMAIN turns'[p] = DOMAIN turns[p] \cup {turn}
          /\ \A u \in DOMAIN turns[p] : turns'[p][u] = turns[p][u]
          /\ turns'[p][turn].end = "pending"
      BY AskFacts
    <3>2. t # turn /\ t \in DOMAIN turns[p]
      BY <2>1, <3>1 DEF Lone
    <3> QED
      BY <2>1, <3>1, <3>2 DEF Lone, Overlap
  <2>2. CASE q # p
    <3>1. turns'[q] = turns[q]
      BY <2>2, AskFacts
    <3> QED
      BY <3>1 DEF Lone, Overlap
  <2> QED
    BY <2>1, <2>2
<1>3. /\ t \in Range(transcript[q])
      /\ \A m \in Listeners : Asked(q, m) => t \in Range(event[q][m].history)
  BY <1>2 DEF Chat, Questions, Carried
<1>4. ASSUME NEW m \in Listeners, Asked(q, m)'
      PROVE  t \in Range(event'[q][m].history)
  <2>1. CASE q = p /\ m = l
    BY <2>1, <1>3, AskedAfter
  <2>2. CASE ~(q = p /\ m = l)
    <3>1. event'[q][m] = event[q][m]
      BY <2>2, AskedAfter
    <3> QED
      BY <3>1, <1>3, <1>4 DEF Asked
  <2> QED
    BY <2>1, <2>2
<1> QED
  BY <1>1, <1>3, <1>4

LEMMA AskKeepsChat ==
  ASSUME SideTypes, Chat, NEW p \in Pages, NEW l \in Listeners, NEW text \in Texts,
         Ask(p, l, text)
  PROVE  Chat'
<1>1. ChatTypes'
  BY AskKeepsTypes
<1>2. EventsOK' /\ TogetherOverlap' /\ TranscriptsOK' /\ Carried'
  BY AskKeepsEvents, AskKeepsOverlaps, AskKeepsTranscripts, AskKeepsCarried
<1> QED
  BY <1>1, <1>2 DEF Chat, Questions

-----------------------------------------------------------------------------
(* A question that comes to an end: what it leaves in the transcript.       *)

Shows(p, l, shown, end) ==
  LET e == event[p][l] IN
  /\ Asked(p, l)
  /\ Head(line[Handler(l)]) = <<p, l>>
  /\ end \in {"hint", "blank", "answered", "failed"}
  /\ shown \in {transcript[p], e.history, Append(e.history, e.turn)}
  /\ end \in {"hint", "answered"} => shown = Append(e.history, e.turn)
  /\ End(p, l, shown, end)

LEMMA RespondEnds ==
  ASSUME NEW p \in Pages, NEW l \in Listeners, Respond(p, l)
  PROVE  AskAgent(p, l) \/ \E shown, end : Shows(p, l, shown, end)
<1> DEFINE e == event[p][l]
<1>0. ASSUME NEW at, at # "none", Responding(p, l, at)
      PROVE  Asked(p, l) /\ Head(line[Handler(l)]) = <<p, l>>
  BY <1>0 DEF Responding, Asked, NoEvent
<1>1. CASE Refuse(p, l)
  <2>1. Shows(p, l, Append(e.history, e.turn), "hint")
    BY <1>0, <1>1 DEF Refuse, Shows
  <2> QED
    BY <2>1
<1>2. CASE Ignore(p, l)
  <2>1. Shows(p, l, e.history, "blank")
    BY <1>0, <1>2 DEF Ignore, Shows
  <2> QED
    BY <2>1
<1>3. CASE Answer(p, l)
  <2>1. Shows(p, l, Append(e.history, e.turn), "answered")
    BY <1>0, <1>3 DEF Answer, Shows
  <2> QED
    BY <2>1
<1>4. CASE Raise(p, l)
  <2>1. Shows(p, l, transcript[p], "failed")
    BY <1>0, <1>4 DEF Raise, Shows
  <2> QED
    BY <2>1
<1> QED
  BY <1>1, <1>2, <1>3, <1>4 DEF Respond

(* The step as the other lemmas use it: the question is pending, the rest   *)
(* of the page's turns stays, and what is shown rises below the next turn.  *)
LEMMA EndFacts ==
  ASSUME Chat, NEW p \in Pages, NEW l \in Listeners, NEW shown, NEW end,
         Shows(p, l, shown, end)
  PROVE  LET w == event[p][l].turn IN
         /\ w \in DOMAIN turns[p] /\ turns[p][w].end = "pending"
         /\ shown \in Seq(TurnNumbers)
         /\ transcript' \in [Pages -> Seq(TurnNumbers)]
         /\ transcript'[p] = shown
         /\ \A q \in Pages \ {p} : transcript'[q] = transcript[q]
         /\ turns' \in [Pages -> Seq(Turn)]
         /\ Len(turns'[p]) = Len(turns[p])
         /\ DOMAIN turns'[p] = DOMAIN turns[p]
         /\ \A t \in DOMAIN turns[p] : turns'[p][t].amid = turns[p][t].amid
         /\ \A t \in DOMAIN turns[p] \ {w} : turns'[p][t].end = turns[p][t].end
         /\ turns'[p][w].end = end
         /\ \A q \in Pages \ {p} : turns'[q] = turns[q]
<1> DEFINE e == event[p][l]
           w == e.turn
<1>1. Asked(p, l) /\ e \in Event /\ w \in TurnNumbers /\ e.history \in Seq(TurnNumbers)
  BY ChatFacts DEF Shows, Event
<1>2. EventOK(p, l) /\ w \in DOMAIN turns[p] /\ turns[p][w].end = "pending"
  BY <1>1 DEF Chat, Questions, EventsOK, EventOK
<1>3. transcript[p] \in Seq(TurnNumbers) /\ turns[p] \in Seq(Turn)
      /\ DOMAIN turns[p] = 1..Len(turns[p]) /\ Len(turns[p]) \in Nat
  BY ChatFacts
<1>4. shown \in Seq(TurnNumbers)
  <2>1. Append(e.history, w) \in Seq(TurnNumbers)
    BY <1>1, AppendFacts
  <2>2. shown \in {transcript[p], e.history, Append(e.history, w)}
    BY DEF Shows
  <2> QED
    BY <1>1, <1>3, <2>1, <2>2
<1>5. /\ transcript \in [Pages -> Seq(TurnNumbers)]
      /\ turns \in [Pages -> Seq(Turn)]
  BY DEF Chat, ChatTypes, Turn
<1>6. /\ transcript' = [transcript EXCEPT ![p] = shown]
      /\ turns' = [turns EXCEPT ![p][w].end = end]
  BY DEF Shows, End
<1>7. /\ transcript' \in [Pages -> Seq(TurnNumbers)]
      /\ transcript'[p] = shown
      /\ \A q \in Pages \ {p} : transcript'[q] = transcript[q]
  BY <1>4, <1>5, <1>6
<1>8. turns'[p] = [turns[p] EXCEPT ![w].end = end]
      /\ \A q \in Pages \ {p} : turns'[q] = turns[q]
  BY <1>5, <1>6
<1>9. turns[p][w] \in Turn
  BY <1>2, <1>3
<1>10. [turns[p][w] EXCEPT !.end = end] \in Turn
  BY <1>9 DEF Turn, Shows
<1>11. turns'[p] = [turns[p] EXCEPT ![w] = [turns[p][w] EXCEPT !.end = end]]
  BY <1>8
<1>12. turns'[p] \in Seq(Turn) /\ Len(turns'[p]) = Len(turns[p])
       /\ DOMAIN turns'[p] = DOMAIN turns[p]
  BY <1>2, <1>3, <1>10, <1>11
<1>13. turns' \in [Pages -> Seq(Turn)]
  BY <1>5, <1>6, <1>8, <1>12
<1>14. \A t \in DOMAIN turns[p] \ {w} : turns'[p][t] = turns[p][t]
  BY <1>3, <1>11
<1>15. turns'[p][w] = [turns[p][w] EXCEPT !.end = end]
  BY <1>2, <1>3, <1>11
<1>16. turns'[p][w].end = end /\ turns'[p][w].amid = turns[p][w].amid
  BY <1>9, <1>15 DEF Turn
<1> QED
  BY <1>2, <1>4, <1>7, <1>8, <1>12, <1>13, <1>14, <1>16

LEMMA EndedAfter ==
  ASSUME Chat, NEW p \in Pages, NEW l \in Listeners, NEW shown, NEW end,
         Shows(p, l, shown, end)
  PROVE  /\ event' \in [Pages -> [Listeners -> Event \cup {NoEvent}]]
         /\ ~Asked(p, l)'
         /\ \A q \in Pages, m \in Listeners :
               ~(q = p /\ m = l) => event'[q][m] = event[q][m]
<1>1. event \in [Pages -> [Listeners -> Event \cup {NoEvent}]]
  BY DEF Chat, ChatTypes
<1>2. event' = [event EXCEPT ![p][l] = NoEvent]
  BY DEF Shows, End
<1> QED
  BY <1>1, <1>2 DEF Asked

(* The line for the function moves up by one: only the question that ends   *)
(* leaves it.                                                               *)
LEMMA LineMovesUp ==
  ASSUME Chat, NEW p \in Pages, NEW l \in Listeners, NEW shown, NEW end,
         Shows(p, l, shown, end)
  PROVE  /\ line' \in [Handlers -> Seq(Pages \X Listeners)]
         /\ \A q \in Pages, m \in Listeners :
               ~(q = p /\ m = l) /\ InLine(q, m) => InLine(q, m)'
<1> DEFINE h == Handler(l)
<1>1. line \in [Handlers -> Seq(Pages \X Listeners)] /\ h \in Handlers
  BY DEF Chat, ChatTypes, Handlers
<1>2. line' = [line EXCEPT ![h] = Tail(@)]
  BY DEF Shows, End
<1>3. line[h] # <<>>
  <2>1. EventOK(p, l)
    BY DEF Chat, Questions, EventsOK, Shows
  <2> QED
    BY <2>1 DEF EventOK, InLine
<1>4. line[h] \in Seq(Pages \X Listeners)
  BY <1>1
<1>5. Tail(line[h]) \in Seq(Pages \X Listeners) /\ line[h][1] = <<p, l>>
  BY <1>3, <1>4, TailFacts DEF Shows
<1>6. line' \in [Handlers -> Seq(Pages \X Listeners)] /\ line'[h] = Tail(line[h])
  BY <1>1, <1>2, <1>5
<1>7. ASSUME NEW q \in Pages, NEW m \in Listeners, ~(q = p /\ m = l), InLine(q, m)
      PROVE  InLine(q, m)'
  <2>1. PICK i \in DOMAIN line[Handler(m)] : line[Handler(m)][i] = <<q, m>>
    BY <1>7 DEF InLine
  <2>2. CASE Handler(m) = h
    <3>1. i # 1
      BY <1>5, <1>7, <2>1, <2>2
    <3>2. i - 1 \in DOMAIN Tail(line[h]) /\ Tail(line[h])[i - 1] = <<q, m>>
      BY <1>3, <1>4, <2>1, <2>2, <3>1, TailFacts
    <3> QED
      BY <1>6, <2>2, <3>2 DEF InLine
  <2>3. CASE Handler(m) # h
    <3>1. line'[Handler(m)] = line[Handler(m)]
      BY <1>1, <1>2, <2>3 DEF Handlers
    <3> QED
      BY <2>1, <3>1 DEF InLine
  <2> QED
    BY <2>2, <2>3
<1> QED
  BY <1>6, <1>7

LEMMA EndKeepsTypes ==
  ASSUME Chat, NEW p \in Pages, NEW l \in Listeners, NEW shown, NEW end,
         Shows(p, l, shown, end)
  PROVE  ChatTypes'
<1>1. /\ transcript' \in [Pages -> Seq(TurnNumbers)]
      /\ turns' \in [Pages -> Seq(Turn)]
  BY EndFacts
<1>2. event' \in [Pages -> [Listeners -> Event \cup {NoEvent}]]
  BY EndedAfter
<1>3. line' \in [Handlers -> Seq(Pages \X Listeners)]
  BY LineMovesUp
<1>4. clearing' \in [Pages -> Nat] /\ textbox' \in [Pages -> Texts]
  BY DEF Shows, End, Chat, ChatTypes
<1>5. \A q \in Pages, m \in Listeners :
         event'[q][m].at = "asking" => event'[q][m].customer # None
  <2> TAKE q \in Pages, m \in Listeners
  <2>1. CASE q = p /\ m = l
    BY <2>1, EndedAfter DEF Asked, NoEvent
  <2>2. CASE ~(q = p /\ m = l)
    <3>1. event'[q][m] = event[q][m]
      BY <2>2, EndedAfter
    <3> QED
      BY <3>1 DEF Chat, ChatTypes
  <2> QED
    BY <2>1, <2>2
<1> QED
  BY <1>1, <1>2, <1>3, <1>4, <1>5 DEF ChatTypes, Turn

LEMMA EndKeepsEvents ==
  ASSUME Chat, NEW p \in Pages, NEW l \in Listeners, NEW shown, NEW end,
         Shows(p, l, shown, end)
  PROVE  EventsOK' /\ TogetherOverlap'
<1>0. /\ event[p][l].turn \in DOMAIN turns[p]
      /\ DOMAIN turns'[p] = DOMAIN turns[p]
      /\ \A t \in DOMAIN turns[p] : turns'[p][t].amid = turns[p][t].amid
      /\ \A t \in DOMAIN turns[p] \ {event[p][l].turn} : turns'[p][t].end = turns[p][t].end
      /\ \A q \in Pages \ {p} : turns'[q] = turns[q]
  BY EndFacts
<1>1. ASSUME NEW q \in Pages, NEW m \in Listeners, Asked(q, m)'
      PROVE  /\ ~(q = p /\ m = l) /\ Asked(q, m)
             /\ event'[q][m] = event[q][m]
             /\ EventOK(q, m)
  <2>1. ~(q = p /\ m = l)
    BY <1>1, EndedAfter
  <2>2. event'[q][m] = event[q][m]
    BY <2>1, EndedAfter
  <2> QED
    BY <1>1, <2>1, <2>2 DEF Asked, Chat, Questions, EventsOK
<1>2. ASSUME NEW q \in Pages, NEW m \in Listeners, Asked(q, m)'
      PROVE  EventOK(q, m)'
  <2>1. EventOK(q, m) /\ event'[q][m] = event[q][m] /\ ~(q = p /\ m = l) /\ Asked(q, m)
    BY <1>1, <1>2
  <2>2. /\ event[q][m].turn \in DOMAIN turns'[q]
        /\ turns'[q][event[q][m].turn].end = "pending"
    <3>1. CASE q = p
      <4>1. event[p][m].turn # event[p][l].turn
        BY <2>1, <3>1 DEF Chat, Questions, TogetherOverlap, Apart, Shows
      <4> QED
        BY <1>0, <2>1, <3>1, <4>1 DEF EventOK
    <3>2. CASE q # p
      BY <1>0, <2>1, <3>2 DEF EventOK
    <3> QED
      BY <3>1, <3>2
  <2>3. InLine(q, m)'
    BY <2>1, LineMovesUp DEF EventOK
  <2> QED
    BY <2>1, <2>2, <2>3 DEF EventOK, Rising, Below
<1>3. ASSUME NEW q \in Pages, NEW k \in Listeners, NEW m \in Listeners,
             k # m, Asked(q, k)', Asked(q, m)'
      PROVE  Apart(q, k, m)'
  <2>1. /\ event'[q][k] = event[q][k] /\ event'[q][m] = event[q][m]
        /\ EventOK(q, k) /\ EventOK(q, m) /\ Asked(q, k) /\ Asked(q, m)
    BY <1>1, <1>3
  <2>2. Apart(q, k, m)
    BY <1>3, <2>1 DEF Chat, Questions, TogetherOverlap
  <2>3. /\ turns'[q][event[q][k].turn].amid = turns[q][event[q][k].turn].amid
        /\ turns'[q][event[q][m].turn].amid = turns[q][event[q][m].turn].amid
    BY <1>0, <2>1 DEF EventOK
  <2> QED
    BY <2>1, <2>2, <2>3 DEF Apart, Overlap
<1> QED
  BY <1>2, <1>3 DEF EventsOK, TogetherOverlap

LEMMA EndKeepsTranscripts ==
  ASSUME Chat, NEW p \in Pages, NEW l \in Listeners, NEW shown, NEW end,
         Shows(p, l, shown, end)
  PROVE  TranscriptsOK'
<1> SUFFICES ASSUME NEW q \in Pages PROVE TranscriptOK(q)'
  BY DEF TranscriptsOK
<1> DEFINE e == event[p][l]
<1>0. /\ transcript'[p] = shown
      /\ Len(turns'[p]) = Len(turns[p])
      /\ \A x \in Pages \ {p} : transcript'[x] = transcript[x] /\ turns'[x] = turns[x]
  BY EndFacts
<1>1. TranscriptOK(q)
  BY DEF Chat, Questions, TranscriptsOK
<1>2. CASE q = p
  <2>1. /\ Asked(p, l) /\ e \in Event /\ e.turn \in DOMAIN turns[p]
        /\ DOMAIN turns[p] = 1..Len(turns[p]) /\ Len(turns[p]) \in Nat
    BY ChatFacts, EndFacts DEF Shows
  <2> DEFINE longer == Append(e.history, e.turn)
  <2>2. /\ e.history \in Seq(TurnNumbers) /\ e.turn \in TurnNumbers
        /\ longer \in Seq(TurnNumbers)
    BY <2>1, AppendFacts DEF Event
  <2>3. e.turn \in Nat /\ e.turn <= Len(turns[p])
    BY <2>1
  <2>4. Rising(e.history) /\ Below(e.history, e.turn)
    BY <2>1 DEF Chat, Questions, EventsOK, EventOK
  <2>5. Rising(longer) /\ Below(longer, e.turn + 1)
    BY <2>2, <2>3, <2>4, TurnsAreNats, AppendRises
  <2>6. /\ \A i \in DOMAIN e.history : e.history[i] \in Nat
        /\ \A i \in DOMAIN longer : longer[i] \in Nat
    BY <2>2, TurnsAreNats
  <2>7. /\ e.turn <= Len(turns[p]) + 1 /\ e.turn + 1 <= Len(turns[p]) + 1
        /\ Len(turns[p]) + 1 \in Nat /\ e.turn + 1 \in Nat
    BY <2>1, <2>3
  <2> HIDE DEF longer, e
  <2>8. Rising(shown) /\ Below(shown, Len(turns[p]) + 1)
    <3>1. CASE shown = transcript[p]
      BY <3>1, <1>1, <1>2 DEF TranscriptOK
    <3>2. CASE shown = e.history
      <4>1. Below(e.history, Len(turns[p]) + 1)
        BY <2>3, <2>4, <2>6, <2>7, BelowMore
      <4> QED
        BY <3>2, <2>4, <4>1
    <3>3. CASE shown = longer
      <4>1. Below(longer, Len(turns[p]) + 1)
        BY <2>5, <2>6, <2>7, BelowMore
      <4> QED
        BY <3>3, <2>5, <4>1
    <3> QED
      BY <3>1, <3>2, <3>3 DEF Shows, longer, e
  <2> QED
    BY <1>0, <1>1, <1>2, <2>8 DEF TranscriptOK, Rising, Below
<1>3. CASE q # p
  BY <1>0, <1>1, <1>3 DEF TranscriptOK, Rising, Below
<1> QED
  BY <1>2, <1>3

(* A lone turn was in what the ending question carried, or is that question *)
(* itself: then nobody else is on the way with it.                          *)
LEMMA EndKeepsCarried ==
  ASSUME Chat, NEW p \in Pages, NEW l \in Listeners, NEW shown, NEW end,
         Shows(p, l, shown, end)
  PROVE  Carried'
<1> SUFFICES ASSUME NEW q \in Pages, NEW t \in TurnNumbers, Lone(q, t)'
             PROVE  /\ t \in Range(transcript'[q])
                    /\ \A m \in Listeners :
                          Asked(q, m)' => t \in Range(event'[q][m].history)
  BY DEF Carried
<1> DEFINE e == event[p][l]
           w == e.turn
<1>0. /\ w \in DOMAIN turns[p]
      /\ transcript'[p] = shown
      /\ DOMAIN turns'[p] = DOMAIN turns[p]
      /\ \A u \in DOMAIN turns[p] : turns'[p][u].amid = turns[p][u].amid
      /\ \A u \in DOMAIN turns[p] \ {w} : turns'[p][u].end = turns[p][u].end
      /\ turns'[p][w].end = end
      /\ \A x \in Pages \ {p} : transcript'[x] = transcript[x] /\ turns'[x] = turns[x]
  BY EndFacts
<1>1. ASSUME NEW m \in Listeners, Asked(q, m)'
      PROVE  ~(q = p /\ m = l) /\ event'[q][m] = event[q][m] /\ Asked(q, m)
  <2>1. ~(q = p /\ m = l)
    BY <1>1, EndedAfter
  <2>2. event'[q][m] = event[q][m]
    BY <2>1, EndedAfter
  <2> QED
    BY <1>1, <2>1, <2>2 DEF Asked
<1>2. ASSUME Lone(q, t)
      PROVE  /\ t \in Range(transcript[q])
             /\ \A m \in Listeners : Asked(q, m) => t \in Range(event[q][m].history)
  BY <1>2 DEF Chat, Questions, Carried
<1>3. CASE q # p
  <2>1. Lone(q, t)
    BY <1>0, <1>3 DEF Lone, Overlap
  <2> QED
    BY <1>0, <1>1, <1>2, <1>3, <2>1
<1>4. CASE q = p /\ t # w
  <2>1. Lone(p, t)
    <3>1. t \in DOMAIN turns[p] /\ turns[p][t].end \in {"hint", "answered"}
      BY <1>0, <1>4 DEF Lone
    <3>2. \A u \in DOMAIN turns[p] : ~Overlap(p, t, u)
      BY <1>0, <1>4, <3>1 DEF Lone, Overlap
    <3> QED
      BY <3>1, <3>2 DEF Lone
  <2>2. Asked(p, l) /\ e.history \in Seq(TurnNumbers) /\ w \in TurnNumbers
    BY ChatFacts DEF Shows, Event
  <2>3. t \in Range(transcript[p]) /\ t \in Range(e.history)
    BY <1>2, <1>4, <2>1, <2>2
  <2>4. t \in Range(Append(e.history, w))
    BY <2>2, <2>3, AppendRange
  <2>5. t \in Range(shown)
    BY <2>3, <2>4 DEF Shows
  <2> QED
    BY <1>0, <1>1, <1>2, <1>4, <2>1, <2>5
<1>5. CASE q = p /\ t = w
  <2>1. Asked(p, l) /\ e.history \in Seq(TurnNumbers) /\ w \in TurnNumbers
    BY ChatFacts DEF Shows, Event
  <2>2. shown = Append(e.history, w)
    BY <1>0, <1>5 DEF Lone, Shows
  <2>3. w \in Range(shown)
    BY <2>1, <2>2, AppendRange
  <2>4. \A m \in Listeners : ~Asked(q, m)'
    <3> SUFFICES ASSUME NEW m \in Listeners, Asked(q, m)' PROVE FALSE
      OBVIOUS
    <3>1. m # l /\ Asked(p, m)
      BY <1>1, <1>5
    <3>2. Overlap(p, w, event[p][m].turn) /\ event[p][m].turn \in DOMAIN turns[p]
      BY <2>1, <3>1
      DEF Chat, Questions, TogetherOverlap, Apart, EventsOK, EventOK
    <3>3. \A u \in DOMAIN turns'[p] : ~(w \in turns'[p][u].amid \/ u \in turns'[p][w].amid)
      BY <1>5 DEF Lone, Overlap
    <3> QED
      BY <1>0, <3>2, <3>3 DEF Overlap
  <2> QED
    BY <1>0, <1>5, <2>3, <2>4
<1> QED
  BY <1>3, <1>4, <1>5

(* An event that goes to the agent keeps its inputs.                        *)
LEMMA AskAgentKeepsChat ==
  ASSUME Chat, NEW p \in Pages, NEW l \in Listeners, AskAgent(p, l)
  PROVE  Chat'
<1>1. /\ event \in [Pages -> [Listeners -> Event \cup {NoEvent}]]
      /\ event[p][l].at = "queued" /\ event[p][l].customer # None
      /\ event' = [event EXCEPT ![p][l].at = "asking"]
      /\ UNCHANGED <<side, textbox, transcript, clearing, line, turns>>
  BY DEF AskAgent, Responding, Chat, ChatTypes
<1>2. event[p][l] \in Event
  BY <1>1 DEF NoEvent
<1>3. event'[p][l] = [event[p][l] EXCEPT !.at = "asking"]
      /\ \A q \in Pages, m \in Listeners :
            ~(q = p /\ m = l) => event'[q][m] = event[q][m]
  BY <1>1
<1>4. /\ event'[p][l] \in Event
      /\ event'[p][l].turn = event[p][l].turn
      /\ event'[p][l].history = event[p][l].history
      /\ event'[p][l].customer = event[p][l].customer
      /\ event'[p][l].at = "asking" /\ Asked(p, l)
  BY <1>1, <1>2, <1>3 DEF Event, Asked, NoEvent
<1>5. \A q \in Pages, m \in Listeners :
         /\ Asked(q, m)' => Asked(q, m)
         /\ event'[q][m].turn = event[q][m].turn
         /\ event'[q][m].history = event[q][m].history
  BY <1>3, <1>4 DEF Asked
<1>6. ChatTypes'
  <2>1. event' \in [Pages -> [Listeners -> Event \cup {NoEvent}]]
    BY <1>1, <1>3, <1>4
  <2>2. \A q \in Pages, m \in Listeners :
           event'[q][m].at = "asking" => event'[q][m].customer # None
    BY <1>1, <1>3, <1>4 DEF Chat, ChatTypes
  <2> QED
    BY <1>1, <2>1, <2>2 DEF Chat, ChatTypes
<1>7. EventsOK'
  <2> SUFFICES ASSUME NEW q \in Pages, NEW m \in Listeners, Asked(q, m)'
               PROVE  EventOK(q, m)'
    BY DEF EventsOK
  <2>1. EventOK(q, m)
    BY <1>5 DEF Chat, Questions, EventsOK
  <2>2. event'[q][m].turn = event[q][m].turn /\ event'[q][m].history = event[q][m].history
    BY <1>5
  <2>3. InLine(q, m)'
    BY <1>1, <2>1 DEF EventOK, InLine
  <2> QED
    BY <1>1, <2>1, <2>2, <2>3 DEF EventOK, Rising, Below
<1>8. TogetherOverlap'
  BY <1>1, <1>5 DEF Chat, Questions, TogetherOverlap, Apart, Overlap
<1>9. TranscriptsOK'
  BY <1>1 DEF Chat, Questions, TranscriptsOK, TranscriptOK, Rising, Below
<1>10. Carried'
  <2> SUFFICES ASSUME NEW q \in Pages, NEW t \in TurnNumbers, Lone(q, t)'
               PROVE  /\ t \in Range(transcript'[q])
                      /\ \A m \in Listeners :
                            Asked(q, m)' => t \in Range(event'[q][m].history)
    BY DEF Carried
  <2>1. Lone(q, t)
    BY <1>1 DEF Lone, Overlap
  <2>2. /\ t \in Range(transcript[q])
        /\ \A m \in Listeners : Asked(q, m) => t \in Range(event[q][m].history)
    BY <2>1 DEF Chat, Questions, Carried
  <2> QED
    BY <1>1, <1>5, <2>2
<1> QED
  BY <1>6, <1>7, <1>8, <1>9, <1>10 DEF Chat, Questions

LEMMA RespondKeepsChat ==
  ASSUME Chat, NEW p \in Pages, NEW l \in Listeners, Respond(p, l)
  PROVE  Chat' /\ UNCHANGED side
<1>1. CASE AskAgent(p, l)
  BY <1>1, AskAgentKeepsChat DEF AskAgent
<1>2. ASSUME NEW shown, NEW end, Shows(p, l, shown, end)
      PROVE  Chat' /\ UNCHANGED side
  <2>1. ChatTypes' /\ EventsOK' /\ TogetherOverlap' /\ TranscriptsOK' /\ Carried'
    BY <1>2, EndKeepsTypes, EndKeepsEvents, EndKeepsTranscripts, EndKeepsCarried
  <2>2. UNCHANGED side
    BY <1>2 DEF Shows, End
  <2> QED
    BY <2>1, <2>2 DEF Chat, Questions
<1> QED
  BY <1>1, <1>2, RespondEnds

(* The steps of the sidebar, the textbox and its clearing.                  *)
LEMMA OthersKeepChat ==
  ASSUME Chat, UNCHANGED asked, textbox' \in [Pages -> Texts], clearing' \in [Pages -> Nat]
  PROVE  Chat'
<1>1. Questions'
  BY QuestionsKept DEF Chat
<1>2. ChatTypes'
  BY DEF Chat, ChatTypes, asked
<1> QED
  BY <1>1, <1>2 DEF Chat

-----------------------------------------------------------------------------
LEMMA InvNext == IInv /\ [Next]_vars => IInv'
<1> SUFFICES ASSUME IInv, [Next]_vars PROVE IInv'
  OBVIOUS
<1>0. Side /\ Chat /\ SideTypes /\ textbox \in [Pages -> Texts] /\ clearing \in [Pages -> Nat]
  BY BothTypes DEF IInv, Side, Chat, ChatTypes
<1>1. ASSUME Side', Chat' PROVE IInv'
  BY <1>1, BothTypes DEF IInv, Side, Chat, SideTypes, ChatTypes, TypeOK
<1>2. ASSUME UNCHANGED side PROVE Side'
  BY <1>0, <1>2 DEF Side, SideTypes, SidesOK, SidebarFollows, side
<1>3. ASSUME UNCHANGED <<textbox, chat>> PROVE Chat'
  BY <1>0, <1>3, OthersKeepChat DEF asked, chat
<1>4. ASSUME NEW p \in Pages, Load(p) PROVE IInv'
  <2>1. UNCHANGED <<textbox, chat>>
    BY <1>4 DEF Load, LoadRaises, LoadReturns, LoadEnds
  <2> QED
    BY <1>0, <1>1, <1>3, <1>4, <2>1, LoadKeepsSide
<1>5. ASSUME NEW p \in Pages, Render(p) PROVE IInv'
  <2>1. UNCHANGED <<textbox, chat>>
    BY <1>5 DEF Render, RenderRaises, RenderReturns, RenderEnds
  <2> QED
    BY <1>0, <1>1, <1>3, <1>5, <2>1, RenderKeepsSide
<1>6. ASSUME NEW p \in Pages, Clear(p) PROVE IInv'
  <2>1. UNCHANGED side /\ UNCHANGED asked
    BY <1>6 DEF Clear, asked
  <2>2. textbox' \in [Pages -> Texts] /\ clearing' \in [Pages -> Nat]
    <3>1. textbox' = [textbox EXCEPT ![p] = ""]
          /\ clearing' = [clearing EXCEPT ![p] = clearing[p] - 1]
          /\ clearing[p] \in Nat /\ clearing[p] > 0
      BY <1>0, <1>6 DEF Clear
    <3>2. \A n \in Nat : n > 0 => n - 1 \in Nat
      OBVIOUS
    <3>3. clearing[p] - 1 \in Nat
      BY <3>1, <3>2
    <3>4. "" \in Texts
      BY DEF Texts
    <3> QED
      BY <1>0, <3>1, <3>3, <3>4
  <2> QED
    BY <1>0, <1>1, <1>2, <2>1, <2>2, OthersKeepChat
<1>7. ASSUME NEW p \in Pages, NEW l \in Listeners, Respond(p, l) PROVE IInv'
  BY <1>0, <1>1, <1>2, <1>7, RespondKeepsChat
<1>8. ASSUME NEW p \in Pages, NEW c \in Customers, Choose(p, c) PROVE IInv'
  <2>1. UNCHANGED <<textbox, chat>>
    BY <1>8 DEF Choose
  <2> QED
    BY <1>0, <1>1, <1>3, <1>8, <2>1, ChooseKeepsSide
<1>9. ASSUME NEW p \in Pages, NEW text \in Texts, Type(p, text) PROVE IInv'
  <2>1. UNCHANGED side /\ UNCHANGED asked /\ clearing' = clearing
    BY <1>9 DEF Type, asked, chat
  <2>2. textbox' \in [Pages -> Texts]
    BY <1>0, <1>9 DEF Type
  <2> QED
    BY <1>0, <1>1, <1>2, <2>1, <2>2, OthersKeepChat
<1>10. ASSUME NEW p \in Pages, NEW l \in Listeners, Submit(p, l) \/ Suggest(p, l)
       PROVE  IInv'
  <2>1. PICK text \in Texts : Ask(p, l, text)
    BY <1>0, <1>10 DEF Submit, Suggest, Texts
  <2>2. UNCHANGED side
    BY <2>1 DEF Ask
  <2> QED
    BY <1>0, <1>1, <1>2, <2>1, <2>2, AskKeepsChat
<1>11. CASE UNCHANGED vars
  BY <1>1, <1>2, <1>3, <1>11 DEF vars, side, chat
<1> QED
  BY <1>4, <1>5, <1>6, <1>7, <1>8, <1>9, <1>10, <1>11 DEF Next, UserStep

LEMMA Inductive == Spec => []IInv
<1> QED
  BY InvInit, InvNext, PTL DEF Spec

-----------------------------------------------------------------------------
(* Every variable has its type, and only a question that a customer was     *)
(* chosen for gets to the agent (ui.py:116-123).                            *)
THEOREM UiTypes == Spec => []TypeOK
<1>1. IInv => TypeOK
  BY DEF IInv
<1> QED
  BY <1>1, Inductive, PTL

(* The sidebar is the chosen customer's, or about to be, or its rendering   *)
(* failed, for any pages, customers and choices (ui.py:181-200).            *)
THEOREM SidebarIsTheCustomers == Spec => []SidebarFollows
<1>1. IInv => SidebarFollows
  BY DEF IInv
<1> QED
  BY <1>1, Inductive, PTL

(* However many questions a page asks, typed or suggested, an exchange is   *)
(* only ever lost to one that overlapped it (ui.py:115-131, 174-192).       *)
THEOREM ExchangesStay == Spec => []LostOnlyByOverlap
<1>1. IInv => LostOnlyByOverlap
  <2> SUFFICES ASSUME IInv, NEW p \in Pages, NEW t \in TurnNumbers,
                      t \in DOMAIN turns[p], turns[p][t].end \in {"hint", "answered"},
                      ~ \E u \in DOMAIN turns[p] : Overlap(p, t, u)
               PROVE  t \in Range(transcript[p])
    BY DEF LostOnlyByOverlap
  <2> QED
    BY DEF IInv, Questions, Carried, Lone
<1> QED
  BY <1>1, Inductive, PTL

(* The exchanges shown are in the order they were asked in, once each       *)
(* (ui.py:127-131).                                                         *)
THEOREM TranscriptsRise == Spec => []TranscriptInOrder
<1>1. IInv => TranscriptInOrder
  BY DEF IInv, Questions, TranscriptsOK, TranscriptOK, Rising, TranscriptInOrder
<1> QED
  BY <1>1, Inductive, PTL
=============================================================================
