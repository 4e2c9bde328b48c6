-------------------------------- MODULE Delivery --------------------------------
(***************************************************************************)
(* What the webhook dispatcher promises to those who add events: each      *)
(* event is accepted or dropped at once, what is accepted is tried once,   *)
(* in the order in which it was accepted, and the worker does not leave    *)
(* before it has tried all of it.  What comes after that is lost.          *)
(***************************************************************************)
EXTENDS Naturals, Sequences

CONSTANT Emitters

VARIABLES
    offered,    \* how many events each emitter has offered
    pending,    \* the events that are accepted and not tried
    delivered,  \* what the controller has received
    open        \* somebody still tries

vars == <<offered, pending, delivered, open>>

Init ==
    /\ offered = [e \in Emitters |-> 0]
    /\ pending = <<>> /\ delivered = <<>>
    /\ open = TRUE

(* Only an event that is accepted changes the sequence, at its end.          *)
Offer(e) ==
    /\ offered' = [offered EXCEPT ![e] = @ + 1]
    /\ pending' \in {pending, Append(pending, [by |-> e, n |-> offered'[e]])}
    /\ UNCHANGED <<delivered, open>>

CanTry == open /\ pending # <<>>

(* A try may fail; nobody tries again.                                       *)
Try ==
    /\ CanTry
    /\ pending' = Tail(pending)
    /\ delivered' \in {delivered, Append(delivered, Head(pending))}
    /\ UNCHANGED <<offered, open>>

Leave ==
    /\ open /\ pending = <<>>
    /\ open' = FALSE
    /\ UNCHANGED <<offered, pending, delivered>>

Next == (\E e \in Emitters : Offer(e)) \/ Try \/ Leave

Spec == Init /\ [][Next]_vars

(* Weak fairness of Try, with the condition under which it is enabled        *)
(* written out.                                                              *)
FairSpec == Spec /\ ([]<>~CanTry \/ []<><<Try>>_vars)
===============================================================================
