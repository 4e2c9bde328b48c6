---------------------------- MODULE WebhookProofs -----------------------------
(***************************************************************************)
(* Theorems about Webhook.  The events that are still somewhere, in the    *)
(* order received, then posting, then queue, form one line; a step appends *)
(* an event to it or takes one out, and both keep it ordered.  The last    *)
(* part maps each step of the dispatcher to one of Delivery.               *)
(***************************************************************************)
EXTENDS Webhook, SequenceTheorems, TLAPS

Line == received \o posting \o queue

(* No event in the line is newer than what its emitter has added, and while  *)
(* the emitter is still in Emit its newest event is not in the line.         *)
Older ==
    \A i \in 1..Len(Line) :
        /\ Line[i].n <= added[Line[i].by]
        /\ emitter[Line[i].by] # "idle" => Line[i].n < added[Line[i].by]

(* An emitter inside Emit has an event.                                      *)
InEmit == \A e \in Emitters : emitter[e] # "idle" => added[e] \in 1..MaxEvents

Inv == TypeOK /\ InEmit /\ Older /\ Ordered(Line)

(* An event newer than all of its emitter keeps a sequence ordered.          *)
LEMMA OrderedAppend ==
    ASSUME NEW s \in Seq(Event), NEW ev \in Event, Ordered(s),
           \A i \in 1..Len(s) : s[i].by = ev.by => s[i].n < ev.n
    PROVE  Ordered(Append(s, ev))
<1> DEFINE t == Append(s, ev)
<1>1. Len(t) = Len(s) + 1 /\ t[Len(s) + 1] = ev /\ \A i \in 1..Len(s) : t[i] = s[i]
  OBVIOUS
<1>2. Len(s) \in Nat
  OBVIOUS
<1> HIDE DEF t
<1>3. SUFFICES ASSUME NEW i \in 1..Len(t), NEW j \in 1..Len(t), i < j, t[i].by = t[j].by
               PROVE  t[i].n < t[j].n
  BY DEF Ordered, t
<1>4. i \in 1..Len(s) /\ t[i] = s[i]
  BY <1>1, <1>2, <1>3
<1>5. CASE j = Len(s) + 1
  BY <1>1, <1>3, <1>4, <1>5
<1>6. CASE j \in 1..Len(s)
  BY <1>1, <1>3, <1>4, <1>6 DEF Ordered
<1> QED
  BY <1>1, <1>2, <1>5, <1>6

(* Taking a part out of an ordered sequence leaves it ordered.               *)
LEMMA OrderedWithout ==
    ASSUME NEW a \in Seq(Event), NEW b \in Seq(Event), NEW c \in Seq(Event),
           Ordered(a \o b \o c)
    PROVE  Ordered(a \o c)
<1> DEFINE s == a \o b \o c
           t == a \o c
           Moved(i) == IF i <= Len(a) THEN i ELSE i + Len(b)
<1>1. Len(a) \in Nat /\ Len(b) \in Nat /\ Len(c) \in Nat
  OBVIOUS
<1>2. Len(t) = Len(a) + Len(c) /\ Len(s) = Len(a) + Len(b) + Len(c)
  OBVIOUS
<1>3. \A i \in 1..Len(t) : Moved(i) \in 1..Len(s) /\ t[i] = s[Moved(i)]
  BY <1>1, <1>2
<1>4. \A i, j \in 1..Len(t) : i < j => Moved(i) < Moved(j)
  BY <1>1, <1>2
<1> HIDE DEF s, t, Moved
<1>5. Ordered(s)
  BY DEF s
<1>6. \A i, j \in 1..Len(t) : (i < j /\ t[i].by = t[j].by) => t[i].n < t[j].n
  BY <1>3, <1>4, <1>5 DEF Ordered
<1> QED
  BY <1>6 DEF Ordered, t

LEMMA LineIsSeq ==
    ASSUME TypeOK
    PROVE  Line \in Seq(Event)
  BY DEF TypeOK, Line

(* Steps that leave the line, the counts and the emitters alone.             *)
LEMMA SameLine ==
    ASSUME Inv, TypeOK', Line' = Line, UNCHANGED <<added, emitter>>
    PROVE  Inv'
  BY DEF Inv, InEmit, Older, Ordered

LEMMA AddEventKeepsInv ==
    ASSUME Inv, NEW e \in Emitters, AddEvent(e)
    PROVE  Inv'
<1> USE WebhookAssumption
<1>1. TypeOK'
  BY DEF Inv, TypeOK, AddEvent
<1>2. Line' = Line /\ Line \in Seq(Event)
  BY LineIsSeq DEF Inv, AddEvent, Line
<1>3. InEmit'
  BY DEF Inv, InEmit, TypeOK, AddEvent
<1>4. Older'
  <2>1. SUFFICES ASSUME NEW i \in 1..Len(Line)
                 PROVE  /\ Line[i].n <= added'[Line[i].by]
                        /\ emitter'[Line[i].by] # "idle" => Line[i].n < added'[Line[i].by]
    BY <1>2 DEF Older
  <2>2. Line[i] \in Event
    BY <1>2
  <2>3. Line[i].by \in Emitters /\ Line[i].n \in 1..MaxEvents
    BY <2>2 DEF Event
  <2>4. /\ Line[i].n <= added[Line[i].by]
        /\ emitter[Line[i].by] # "idle" => Line[i].n < added[Line[i].by]
    BY DEF Inv, Older
  <2> QED
    BY <2>3, <2>4 DEF AddEvent, Inv, TypeOK
<1>5. Ordered(Line)'
  BY <1>2 DEF Inv, Ordered
<1> QED
  BY <1>1, <1>3, <1>4, <1>5 DEF Inv

LEMMA EnqueueKeepsInv ==
    ASSUME Inv, NEW e \in Emitters, Enqueue(e)
    PROVE  Inv'
<1> USE WebhookAssumption
<1>1. Pending(e) \in Event /\ Pending(e).by = e /\ Pending(e).n = added[e]
  BY DEF Inv, InEmit, TypeOK, Enqueue, Pending, Event
<1>2. queue \in Seq(Event) /\ posting \in Seq(Event) /\ received \in Seq(Event)
  BY DEF Inv, TypeOK
<1>3. TypeOK'
  BY <1>1, <1>2 DEF Inv, TypeOK, Enqueue, Sent
<1>4. InEmit'
  BY DEF Inv, InEmit, TypeOK, Enqueue
<1>5. /\ emitter'[e] = "idle" /\ added' = added
      /\ \A f \in Emitters \ {e} : emitter'[f] = emitter[f]
      /\ added \in [Emitters -> 0..MaxEvents]
  BY DEF Inv, TypeOK, Enqueue
<1>6. Line \in Seq(Event)
  BY LineIsSeq DEF Inv
<1>7. \A i \in 1..Len(Line) :
          /\ Line[i].by \in Emitters /\ Line[i].n \in 1..MaxEvents
          /\ Line[i].n <= added[Line[i].by]
          /\ Line[i].by = e => Line[i].n < added[e]
  <2>1. \A i \in 1..Len(Line) : Line[i] \in Event
    BY <1>6
  <2>2. \A i \in 1..Len(Line) : Line[i].by \in Emitters /\ Line[i].n \in 1..MaxEvents
    BY <2>1 DEF Event
  <2> QED
    BY <2>2 DEF Inv, Older, Enqueue
<1>8. CASE queue' = queue
  <2>1. Line' = Line
    BY <1>8 DEF Line, Enqueue
  <2>2. Older'
    BY <1>5, <1>7, <2>1 DEF Inv, Older
  <2>3. Ordered(Line)'
    BY <2>1 DEF Inv, Ordered
  <2> QED
    BY <1>3, <1>4, <2>2, <2>3 DEF Inv
<1>9. CASE queue' = Append(queue, Pending(e))
  <2>1. Line' = Append(Line, Pending(e))
    BY <1>1, <1>2, <1>9 DEF Line, Enqueue
  <2>2. /\ Len(Line') = Len(Line) + 1 /\ Len(Line) \in Nat
        /\ Line'[Len(Line) + 1] = Pending(e)
        /\ \A i \in 1..Len(Line) : Line'[i] = Line[i]
    BY <1>1, <1>6, <2>1
  <2>3. Ordered(Line')
    BY <1>1, <1>6, <1>7, <2>1, OrderedAppend DEF Inv
  <2>4. Older'
    <3>1. SUFFICES ASSUME NEW i \in 1..Len(Line')
                   PROVE  /\ Line'[i].n <= added[Line'[i].by]
                          /\ emitter'[Line'[i].by] # "idle" => Line'[i].n < added[Line'[i].by]
      BY <1>5 DEF Older
    <3>2. CASE i = Len(Line) + 1
      BY <1>1, <1>5, <2>2, <3>2
    <3>3. CASE i \in 1..Len(Line)
      BY <1>5, <1>7, <2>2, <3>3 DEF Inv, Older
    <3> QED
      BY <2>2, <3>2, <3>3
  <2> QED
    BY <1>3, <1>4, <2>3, <2>4 DEF Inv
<1> QED
  BY <1>8, <1>9 DEF Enqueue, Sent

LEMMA TakeKeepsInv ==
    ASSUME Inv, Take
    PROVE  Inv'
<1>1. queue \in Seq(Event) /\ queue # <<>> /\ posting = <<>> /\ received \in Seq(Event)
  BY DEF Inv, TypeOK, Take
<1>2. <<Head(queue)>> \in Seq(Event) /\ Tail(queue) \in Seq(Event)
  BY <1>1
<1>3. TypeOK'
  BY <1>1, <1>2, WebhookAssumption DEF Inv, TypeOK, Take
<1>4. received \o <<Head(queue)>> \o Tail(queue) = received \o <<>> \o queue
  BY <1>1, <1>2
<1>5. Line' = Line
  BY <1>1, <1>4 DEF Line, Take
<1> QED
  BY <1>3, <1>5, SameLine DEF Take

LEMMA PostedKeepsInv ==
    ASSUME Inv, Posted
    PROVE  Inv'
<1>1. queue \in Seq(Event) /\ posting \in Seq(Event) /\ received \in Seq(Event)
  BY DEF Inv, TypeOK
<1>2. TypeOK'
  <2>1. posting' = <<>> /\ received \o posting \in Seq(Event)
    BY <1>1 DEF Posted
  <2>2. posting' \in Seq(Event) /\ Len(posting') <= 1 /\ received' \in Seq(Event)
    <3>1. posting' \in Seq(Event) /\ Len(posting') = 0
      BY <2>1
    <3>2. received' \in Seq(Event)
      BY <1>1, <2>1 DEF Posted
    <3> QED
      BY <3>1, <3>2
  <2> QED
    BY <2>2 DEF Inv, TypeOK, Posted
<1>3. CASE received' = received \o posting
  <2>1. Line' = Line
    BY <1>1, <1>3 DEF Line, Posted
  <2> QED
    BY <1>2, <2>1, SameLine DEF Posted
<1>4. CASE received' = received
  <2>1. Line' = received \o queue
    BY <1>1, <1>4 DEF Line, Posted
  <2>2. Ordered(Line')
    BY <1>1, <2>1, OrderedWithout DEF Inv, Line
  <2>3. \A i \in 1..Len(Line') : \E j \in 1..Len(Line) : Line'[i] = Line[j]
    <3> DEFINE s == received \o queue
               Moved(i) == IF i <= Len(received) THEN i ELSE i + Len(posting)
    <3>1. \A i \in 1..Len(s) : Moved(i) \in 1..Len(Line) /\ s[i] = Line[Moved(i)]
      BY <1>1 DEF Line
    <3> QED
      BY <2>1, <3>1
  <2>4. Older'
    BY <2>3 DEF Inv, Older, Posted
  <2>5. InEmit'
    BY DEF Inv, InEmit, Posted
  <2> QED
    BY <1>2, <2>2, <2>4, <2>5 DEF Inv
<1> QED
  BY <1>3, <1>4 DEF Posted

(* Every step of the dispatcher, its emitters and the daemon keeps Inv.      *)
LEMMA NextKeepsInv ==
    ASSUME Inv, [Next]_vars
    PROVE  Inv'
<1>1. ASSUME NEW e \in Emitters, CheckOpen(e)  PROVE Inv'
  <2>1. TypeOK' /\ InEmit' /\ Line' = Line
    BY <1>1 DEF Inv, TypeOK, InEmit, CheckOpen, Line
  <2>2. Older'
    <3>1. \A f \in Emitters : emitter'[f] # "idle" => emitter[f] # "idle"
      BY <1>1 DEF Inv, TypeOK, CheckOpen
    <3>2. \A i \in 1..Len(Line) : Line[i].by \in Emitters
      <4>1. \A i \in 1..Len(Line) : Line[i] \in Event
        BY LineIsSeq DEF Inv
      <4> QED
        BY <4>1 DEF Event
    <3> QED
      BY <1>1, <2>1, <3>1, <3>2 DEF Inv, Older, CheckOpen
  <2> QED
    BY <2>1, <2>2 DEF Inv, Ordered
<1>2. CASE SeeStop \/ WorkerExit \/ Signal \/ CloseFlag \/ CloseCancel \/ CloseReturn
  <2>1. TypeOK' /\ Line' = Line /\ UNCHANGED <<added, emitter>>
    BY <1>2 DEF Inv, TypeOK, Line, SeeStop, WorkerExit, Signal, CloseFlag, CloseCancel, CloseReturn
  <2> QED
    BY <2>1, SameLine
<1>3. CASE UNCHANGED vars
  <2>1. TypeOK' /\ Line' = Line /\ UNCHANGED <<added, emitter>>
    BY <1>3 DEF Inv, TypeOK, Line, vars
  <2> QED
    BY <2>1, SameLine
<1> QED
  BY <1>1, <1>2, <1>3, AddEventKeepsInv, EnqueueKeepsInv, TakeKeepsInv, PostedKeepsInv
  DEF Next, WorkerStep

LEMMA InitInv == Init => Inv
<1> SUFFICES ASSUME Init PROVE Inv
  OBVIOUS
<1>1. TypeOK /\ InEmit
  <2>1. queue \in Seq(Event) /\ posting \in Seq(Event) /\ received \in Seq(Event)
        /\ Len(queue) = 0 /\ Len(posting) = 0
    BY DEF Init
  <2>2. added \in [Emitters -> 0..MaxEvents] /\ Len(queue) <= QueueSize /\ Len(posting) <= 1
    BY <2>1, WebhookAssumption DEF Init
  <2>3. emitter \in [Emitters -> {"idle", "inserted", "open"}] /\ InEmit
    BY DEF Init, InEmit
  <2>4. /\ worker \in {"loop", "drain", "done"}
        /\ stopped \in BOOLEAN /\ closed \in BOOLEAN
        /\ main \in {"run", "shutdown", "cancel", "wait", "returned"}
    BY DEF Init
  <2> QED
    BY <2>1, <2>2, <2>3, <2>4 DEF TypeOK
<1>2. Line = <<>>
  BY DEF Init, Line
<1> QED
  BY <1>1, <1>2 DEF Inv, Older, Ordered

(* What was received is the front of the line.                               *)
LEMMA LineOrdersReceived ==
    ASSUME Inv
    PROVE  InOrderAtMostOnce
<1> DEFINE rest == posting \o queue
<1>1. received \in Seq(Event) /\ rest \in Seq(Event) /\ Line = received \o rest
  BY DEF Inv, TypeOK, Line
<1>2. Len(received) \in Nat /\ Len(received) <= Len(Line)
      /\ \A i \in 1..Len(received) : i \in 1..Len(Line) /\ Line[i] = received[i]
  BY <1>1
<1>3. \A i, j \in 1..Len(received) :
          (i < j /\ received[i].by = received[j].by) => received[i].n < received[j].n
  BY <1>2 DEF Inv, Ordered
<1> QED
  BY <1>3 DEF InOrderAtMostOnce, Ordered

(* For any number of emitters and events and any capacity, every goroutine's *)
(* events reach the controller in order and at most once.                    *)
THEOREM DeliveryInOrder == Spec => []InOrderAtMostOnce
<1>1. Init => Inv
  BY InitInv
<1>2. Inv /\ [Next]_vars => Inv'
  BY NextKeepsInv
<1>3. Inv => InOrderAtMostOnce
  BY LineOrdersReceived
<1> QED
  BY <1>1, <1>2, <1>3, PTL DEF Spec

------------------------------------------------------------------------------
(* The dispatcher implements Delivery.  A worker that has gone posts nothing.*)
WorkerPosts == posting # <<>> => worker # "done"

(* It is so at the start, and a step keeps it.                               *)
LEMMA InitWorkerPosts == Init => WorkerPosts
  BY DEF Init, WorkerPosts

(* The step, for WorkerPosts.                                                *)
LEMMA NextKeepsWorkerPosts ==
    ASSUME WorkerPosts, [Next]_vars
    PROVE  WorkerPosts'
  BY DEF WorkerPosts, Next, WorkerStep, vars, AddEvent, CheckOpen, Enqueue, Take, Posted,
         SeeStop, WorkerExit, Signal, CloseFlag, CloseCancel, CloseReturn

(* The state that the dispatcher shows.                                      *)
Offered == [e \in Emitters |-> IF emitter[e] = "idle" THEN added[e] ELSE added[e] - 1]
Waiting == posting \o queue
Open == worker # "done"

(* The dispatcher begins where Delivery begins.                              *)
LEMMA InitRefines == Init => Promise!Init
<1> SUFFICES ASSUME Init PROVE Promise!Init
  OBVIOUS
<1>1. Offered = [e \in Emitters |-> 0]
  BY DEF Init, Offered
<1>2. Waiting = <<>>
  BY DEF Init, Waiting
<1>3. Open = TRUE
  BY DEF Init, Open
<1> QED
  BY <1>1, <1>2, <1>3 DEF Init, Promise!Init, Offered, Waiting, Open

(* Emit decides: the event was offered, and accepted or dropped.             *)
LEMMA DecideRefines ==
    ASSUME Inv, NEW e \in Emitters,
           emitter[e] # "idle", emitter' = [emitter EXCEPT ![e] = "idle"], added' = added,
           UNCHANGED <<posting, received, worker>>,
           queue' = queue \/ queue' = Append(queue, Pending(e))
    PROVE  Promise!Offer(e)
<1>1. /\ added \in [Emitters -> Nat] /\ added[e] \in Nat
      /\ emitter \in [Emitters -> {"idle", "inserted", "open"}]
      /\ queue \in Seq(Event) /\ posting \in Seq(Event)
  BY WebhookAssumption DEF Inv, TypeOK
<1>2. Offered' = [Offered EXCEPT ![e] = @ + 1] /\ Offered'[e] = added[e]
  <2>1. Offered[e] = added[e] - 1 /\ Offered'[e] = added[e]
    BY <1>1 DEF Offered
  <2>2. ASSUME NEW f \in Emitters, f # e
        PROVE  Offered'[f] = Offered[f]
    <3>1. emitter'[f] = emitter[f]
      BY <1>1, <2>2
    <3> QED
      BY <3>1 DEF Offered
  <2>3. Offered[e] + 1 = added[e]
    BY <1>1, <2>1
  <2>4. /\ Offered = [f \in Emitters |-> Offered[f]]
        /\ Offered' = [f \in Emitters |-> Offered'[f]]
    BY DEF Offered
  <2>5. Offered' = [Offered EXCEPT ![e] = Offered[e] + 1]
    <3> HIDE DEF Offered
    <3> QED
      BY <2>1, <2>2, <2>3, <2>4
  <2> QED
    BY <2>1, <2>5
<1>3. Pending(e) = [by |-> e, n |-> Offered'[e]] /\ Pending(e) \in Event
  BY <1>1, <1>2 DEF Pending, Inv, InEmit, Event
<1>4. Waiting' \in {Waiting, Append(Waiting, Pending(e))}
  <2>1. CASE queue' = queue
    BY <2>1 DEF Waiting
  <2>2. CASE queue' = Append(queue, Pending(e))
    <3> DEFINE x == Pending(e)
    <3>1. x \in Event
      BY <1>3
    <3>2. queue' = Append(queue, x) /\ posting' = posting
      BY <2>2
    <3> HIDE DEF x
    <3>3. posting \o Append(queue, x) = Append(posting \o queue, x)
      BY <1>1, <3>1
    <3>4. Waiting' = Append(Waiting, x)
      BY <3>2, <3>3 DEF Waiting
    <3> QED
      BY <3>4 DEF x
  <2> QED
    BY <2>1, <2>2
<1>5. Open' = Open
  BY DEF Open
<1> QED
  BY <1>2, <1>3, <1>4, <1>5 DEF Promise!Offer, Offered, Waiting, Open

(* A sequence of at most one element, and not none, is that element.        *)
LEMMA SingletonSeq ==
    ASSUME NEW S, NEW s \in Seq(S), s # <<>>, Len(s) <= 1
    PROVE  s = <<s[1]>> /\ s[1] \in S
<1>1. Len(s) \in Nat /\ Len(s) # 0
  BY EmptySeq
<1>2. Len(s) = 1
  BY <1>1
<1> QED
  BY <1>2

(* Every step is a step of Delivery or leaves what is shown alone.           *)
LEMMA NextRefines ==
    ASSUME Inv, WorkerPosts, [Next]_vars
    PROVE  [Promise!Next]_(Promise!vars)
<1>1. /\ added \in [Emitters -> Nat]
      /\ emitter \in [Emitters -> {"idle", "inserted", "open"}]
      /\ queue \in Seq(Event) /\ posting \in Seq(Event) /\ received \in Seq(Event)
      /\ Len(posting) <= 1
  BY WebhookAssumption DEF Inv, TypeOK
<1>2. ASSUME UNCHANGED <<added, emitter, queue, posting, worker, received>>
      PROVE  UNCHANGED Promise!vars
  BY <1>2 DEF Promise!vars
<1>3. ASSUME NEW e \in Emitters, AddEvent(e)
      PROVE  UNCHANGED Promise!vars
  <2>1. Offered' = Offered
    BY <1>1, <1>3 DEF AddEvent, Offered
  <2> QED
    BY <1>3, <2>1 DEF AddEvent, Promise!vars, Offered
<1>4. ASSUME NEW e \in Emitters, CheckOpen(e)
      PROVE  Promise!Offer(e) \/ UNCHANGED Promise!vars
  <2>1. CASE closed
    BY <1>4, <2>1, DecideRefines DEF CheckOpen
  <2>2. CASE ~closed
    <3>1. Offered' = Offered
      BY <1>1, <1>4, <2>2 DEF CheckOpen, Offered
    <3> QED
      BY <1>4, <3>1 DEF CheckOpen, Promise!vars, Offered
  <2> QED
    BY <2>1, <2>2
<1>5. ASSUME NEW e \in Emitters, Enqueue(e)
      PROVE  Promise!Offer(e)
  BY <1>5, DecideRefines DEF Enqueue, Sent
<1>6. ASSUME Take
      PROVE  UNCHANGED Promise!vars
  <2>1. Waiting' = Waiting
    BY <1>1, <1>6 DEF Take, Waiting
  <2>2. Open' = Open
    BY <1>6 DEF Take, Open
  <2> QED
    BY <1>6, <2>1, <2>2 DEF Take, Promise!vars, Waiting, Open
<1>7. ASSUME Posted
      PROVE  Promise!Try
  <2>1. posting = <<posting[1]>> /\ posting[1] \in Event /\ posting' = <<>>
    BY <1>1, <1>7, SingletonSeq DEF Posted
  <2>2. Waiting # <<>> /\ Head(Waiting) = posting[1] /\ Tail(Waiting) = queue /\ Waiting' = queue
    BY <1>1, <1>7, <2>1 DEF Posted, Waiting
  <2>3. received' \in {received, Append(received, Head(Waiting))}
    BY <1>1, <1>7, <2>1, <2>2 DEF Posted
  <2>4. Open /\ Open' = Open
    BY <1>7 DEF WorkerPosts, Posted, Open
  <2>5. Offered' = Offered
    BY <1>7 DEF Posted, Offered
  <2> QED
    BY <2>2, <2>3, <2>4, <2>5 DEF Promise!Try, Promise!CanTry, Waiting, Open, Offered
<1>8. ASSUME WorkerExit
      PROVE  Promise!Leave
  <2>1. Waiting = <<>> /\ Waiting' = Waiting
    BY <1>8 DEF WorkerExit, Waiting
  <2> QED
    BY <1>8, <2>1 DEF WorkerExit, Promise!Leave, Waiting
<1>9. ASSUME SeeStop
      PROVE  UNCHANGED Promise!vars
  <2>1. Open' = Open
    BY <1>9 DEF SeeStop, Open
  <2> QED
    BY <1>9, <2>1 DEF SeeStop, Promise!vars, Open
<1>10. ASSUME Signal \/ CloseFlag \/ CloseCancel \/ CloseReturn \/ UNCHANGED vars
       PROVE  UNCHANGED Promise!vars
  BY <1>2, <1>10 DEF Signal, CloseFlag, CloseCancel, CloseReturn, vars
<1> QED
  BY <1>3, <1>4, <1>5, <1>6, <1>7, <1>8, <1>9, <1>10 DEF Next, WorkerStep, Promise!Next

(* Emitters, channel, worker and shutdown together behave like a queue that  *)
(* loses nothing it has accepted as long as its worker is there.             *)
THEOREM DispatcherDelivers == Spec => Promise!Spec
<1>1. Init => Promise!Init
  BY InitRefines
<1>2. Init => Inv /\ WorkerPosts
  BY InitInv, InitWorkerPosts
<1>3. Inv /\ WorkerPosts /\ [Next]_vars => (Inv /\ WorkerPosts)'
  BY NextKeepsInv, NextKeepsWorkerPosts
<1>4. Inv /\ WorkerPosts /\ [Next]_vars => [Promise!Next]_(Promise!vars)
  BY NextRefines
<1> QED
  BY <1>1, <1>2, <1>3, <1>4, PTL DEF Spec, Promise!Spec
===============================================================================
