------------------------------ MODULE ItemQueue ------------------------------
(***************************************************************************)
(* What the comment on Controller.workqueue says the queue is for: that    *)
(* the controller works on a fixed number of items at a time, and "never   *)
(* processing the same item simultaneously in two different workers".  An  *)
(* abstract specification of the queue and its workers, with neither delays*)
(* nor an order nor a dirty set.                                           *)
(*                                                                         *)
(* Asks for one item may be merged, but the last one is answered by a run  *)
(* that begins after it, or lost with the process, and no run begins       *)
(* without an ask.                                                         *)
(***************************************************************************)
EXTENDS Naturals

CONSTANTS Keys, Workers, NoKey

VARIABLES
    asks,                 \* how often a key has to be worked on at least
    running               \* what each worker works on

Init ==
    /\ asks = [k \in Keys |-> 0]
    /\ running = [w \in Workers |-> NoKey]

Ask(k) ==
    /\ asks' = [asks EXCEPT ![k] = @ + 1]
    /\ UNCHANGED running

Merge(k) ==
    /\ asks[k] > 1
    /\ asks' = [asks EXCEPT ![k] = @ - 1]
    /\ UNCHANGED running

Begin(w, k) ==
    /\ running[w] = NoKey
    /\ \A v \in Workers : running[v] # k
    /\ asks[k] > 0
    /\ asks' = [asks EXCEPT ![k] = @ - 1]
    /\ running' = [running EXCEPT ![w] = k]

End(w) ==
    /\ running[w] # NoKey
    /\ running' = [running EXCEPT ![w] = NoKey]
    /\ UNCHANGED asks

Restart ==
    /\ asks' = [k \in Keys |-> 0]
    /\ running' = [w \in Workers |-> NoKey]

Next ==
    \/ \E k \in Keys : Ask(k) \/ Merge(k)
    \/ \E w \in Workers : End(w) \/ \E k \in Keys : Begin(w, k)
    \/ Restart

Spec == Init /\ [][Next]_<<asks, running>>
=============================================================================
