------------------------------- MODULE Webhook --------------------------------
(***************************************************************************)
(* Pushing events to a controller (internal/webhook).                      *)
(*                                                                         *)
(* Every row that db.AddEvent inserts is handed to Dispatcher.Emit, which  *)
(* puts it in a bounded channel or drops it; one worker takes events from  *)
(* the channel and POSTs them.  The worker's context is a child of the     *)
(* daemon's signal context: a signal stops the worker long before the      *)
(* daemon calls Close, and API handlers and the reconciler go on emitting. *)
(*                                                                         *)
(* Webhooks are enabled, and only events that match the configured kinds   *)
(* are modelled: Emit ignores the others.                                  *)
(***************************************************************************)
EXTENDS Naturals, Sequences

CONSTANTS
    Emitters,   \* goroutines that add events: API handlers, the reconciler
    QueueSize,  \* capacity of the channel
    MaxEvents   \* bound: events of one emitter

ASSUME WebhookAssumption ==
    /\ QueueSize \in Nat \ {0}
    /\ MaxEvents \in Nat

(* The n-th event an emitter adds.                                           *)
Event == [by : Emitters, n : 1..MaxEvents]

VARIABLES
    added,      \* events each emitter has added to the events table
    emitter,    \* where each emitter is: "idle", "inserted" or "open"
    queue,      \* Dispatcher.ch
    posting,    \* what the worker is posting: a sequence of at most one event
    worker,     \* "loop", "drain" or "done"
    stopped,    \* the worker's context is cancelled
    closed,     \* Dispatcher.closed
    main,       \* the daemon: "run", "shutdown", "cancel", "wait" or "returned"
    received    \* history: what the controller received, in order

vars == <<added, emitter, queue, posting, worker, stopped, closed, main, received>>

Init ==
    /\ added = [e \in Emitters |-> 0]
    /\ emitter = [e \in Emitters |-> "idle"]
    /\ queue = <<>>
    /\ posting = <<>>
    /\ worker = "loop"
    /\ stopped = FALSE
    /\ closed = FALSE
    /\ main = "run"
    /\ received = <<>>

------------------------------------------------------------------------------
(* db.AddEvent: insert the row, then call the hook.                          *)
AddEvent(e) ==
    /\ emitter[e] = "idle" /\ added[e] < MaxEvents
    /\ added' = [added EXCEPT ![e] = @ + 1]
    /\ emitter' = [emitter EXCEPT ![e] = "inserted"]
    /\ UNCHANGED <<queue, posting, worker, stopped, closed, main, received>>

(* Emit reads closed under the lock, and only then looks at the channel.     *)
CheckOpen(e) ==
    /\ emitter[e] = "inserted"
    /\ emitter' = [emitter EXCEPT ![e] = IF closed THEN "idle" ELSE "open"]
    /\ UNCHANGED <<added, queue, posting, worker, stopped, closed, main, received>>

Pending(e) == [by |-> e, n |-> added[e]]

(* Mutant of Sent: a full channel makes room for the new event.              *)
SentForOldest(e) ==
    IF Len(queue) < QueueSize THEN Append(queue, Pending(e)) ELSE Append(Tail(queue), Pending(e))

(* select { case ch <- e: default: drop }                                    *)
Sent(e) == IF Len(queue) < QueueSize THEN Append(queue, Pending(e)) ELSE queue

Enqueue(e) ==
    /\ emitter[e] = "open"
    /\ emitter' = [emitter EXCEPT ![e] = "idle"]
    /\ queue' = Sent(e)
    /\ UNCHANGED <<added, posting, worker, stopped, closed, main, received>>

------------------------------------------------------------------------------
(* The worker.  In "loop" select may choose either ready case; in "drain" it *)
(* takes until the channel is empty.                                         *)
Take ==
    /\ worker \in {"loop", "drain"} /\ posting = <<>> /\ queue # <<>>
    /\ posting' = <<Head(queue)>>
    /\ queue' = Tail(queue)
    /\ UNCHANGED <<added, emitter, worker, stopped, closed, main, received>>

(* Mutant of Posted: an error is answered with another try.                  *)
PostedOrRetried ==
    /\ posting # <<>>
    /\ posting' \in {<<>>, posting}
    /\ received' \in {received, received \o posting}
    /\ UNCHANGED <<added, emitter, queue, worker, stopped, closed, main>>

(* The POST ends; an error (a status, the time limit, the cancelled context) *)
(* may or may not mean that the controller has not seen it.  No retry.       *)
Posted ==
    /\ posting # <<>>
    /\ posting' = <<>>
    /\ received' \in {received, received \o posting}
    /\ UNCHANGED <<added, emitter, queue, worker, stopped, closed, main>>

(* Mutant of SeeStop: the worker leaves at once.                             *)
LeavesAtOnce ==
    /\ worker = "loop" /\ posting = <<>> /\ stopped
    /\ worker' = "done"
    /\ UNCHANGED <<added, emitter, queue, posting, stopped, closed, main, received>>

SeeStop ==
    /\ worker = "loop" /\ posting = <<>> /\ stopped
    /\ worker' = "drain"
    /\ UNCHANGED <<added, emitter, queue, posting, stopped, closed, main, received>>

WorkerExit ==
    /\ worker = "drain" /\ posting = <<>> /\ queue = <<>>
    /\ worker' = "done"
    /\ UNCHANGED <<added, emitter, queue, posting, stopped, closed, main, received>>

WorkerStep == Take \/ Posted \/ SeeStop \/ WorkerExit

------------------------------------------------------------------------------
(* The daemon's Run: a signal cancels the context the worker listens to, and *)
(* the servers are then shut down; an error of a server returns at once.     *)
Signal ==
    /\ main = "run"
    /\ stopped' = TRUE
    /\ main' = "shutdown"
    /\ UNCHANGED <<added, emitter, queue, posting, worker, closed, received>>

(* The deferred Close: the flag, the cancel and the wait.                    *)
CloseFlag ==
    /\ main \in {"run", "shutdown"}
    /\ closed' = TRUE
    /\ main' = "cancel"
    /\ UNCHANGED <<added, emitter, queue, posting, worker, stopped, received>>

(* Mutant of CloseCancel: Close only waits.                                  *)
CloseOnlyWaits ==
    /\ main = "cancel"
    /\ main' = "wait"
    /\ UNCHANGED <<added, emitter, queue, posting, worker, stopped, closed, received>>

CloseCancel ==
    /\ main = "cancel"
    /\ stopped' = TRUE
    /\ main' = "wait"
    /\ UNCHANGED <<added, emitter, queue, posting, worker, closed, received>>

CloseReturn ==
    /\ main = "wait" /\ worker = "done"
    /\ main' = "returned"
    /\ UNCHANGED <<added, emitter, queue, posting, worker, stopped, closed, received>>

CloseStep == (main = "shutdown" /\ CloseFlag) \/ CloseCancel \/ CloseReturn

Next ==
    \/ \E e \in Emitters : AddEvent(e) \/ CheckOpen(e) \/ Enqueue(e)
    \/ WorkerStep
    \/ Signal \/ CloseFlag \/ CloseCancel \/ CloseReturn

Spec == Init /\ [][Next]_vars

(* A POST is bounded by the HTTP client's timeout and Shutdown by ten        *)
(* seconds, so the worker and a daemon that is stopping go on.               *)
FairSpec == Spec /\ WF_vars(WorkerStep) /\ WF_vars(CloseStep)

------------------------------------------------------------------------------
TypeOK ==
    /\ added \in [Emitters -> 0..MaxEvents]
    /\ emitter \in [Emitters -> {"idle", "inserted", "open"}]
    /\ queue \in Seq(Event)
    /\ Len(queue) <= QueueSize
    /\ posting \in Seq(Event)
    /\ Len(posting) <= 1
    /\ worker \in {"loop", "drain", "done"}
    /\ stopped \in BOOLEAN /\ closed \in BOOLEAN
    /\ main \in {"run", "shutdown", "cancel", "wait", "returned"}
    /\ received \in Seq(Event)

(* Of two events of one emitter, the later one never comes first, and none   *)
(* comes twice: "at-most-once" (webhook.go:3).                               *)
Ordered(s) ==
    \A i, j \in 1..Len(s) : (i < j /\ s[i].by = s[j].by) => s[i].n < s[j].n

(* What the controller receives from one goroutine arrives in the order in   *)
(* which it was added and at most once, whatever is dropped, lost to a       *)
(* failed POST or cut off by a shutdown.                                     *)
InOrderAtMostOnce == Ordered(received)

(* An event accepted before the worker has gone is tried, also when the      *)
(* daemon is shutting down meanwhile.                                        *)
AcceptedIsTried ==
    \A e \in Emitters, n \in 1..MaxEvents :
        LET queued == \E i \in DOMAIN queue : queue[i] = [by |-> e, n |-> n]
        IN  (queued /\ worker # "done") ~> ~queued

(* The dispatcher is a queue that loses nothing it has accepted: an event is *)
(* offered when Emit has decided on it, and pending until its POST has       *)
(* ended, also when it was taken from the channel.                           *)
Promise == INSTANCE Delivery WITH
    offered <- [e \in Emitters |-> IF emitter[e] = "idle" THEN added[e] ELSE added[e] - 1],
    pending <- posting \o queue,
    delivered <- received,
    open <- worker # "done"
KeepsPromise == Promise!FairSpec

(* Close ends: the worker notices, empties the channel and goes, although    *)
(* goroutines that passed the check still send.                              *)
CloseEnds == closed ~> main = "returned"

(* "Close stops the worker and drains the queue" (webhook.go:107): nothing   *)
(* accepted is left when it returns.                                         *)
CloseDrains == main = "returned" => queue = <<>>
===============================================================================
