----------------------------- MODULE BoundedFifo -----------------------------
(***************************************************************************)
(* What core::SpscRing promises its two threads: a bounded queue in which  *)
(* tryPush fails only when the queue holds Cap items, tryPop returns       *)
(* nothing only when it is empty, and items leave in the order they came.  *)
(* Every operation takes effect in one step.                               *)
(***************************************************************************)
EXTENDS Naturals, Sequences

CONSTANTS Item,   \* what travels through the queue
          Cap     \* how many items fit

VARIABLES queue,      \* the items waiting, oldest first
          delivered,  \* every item tryPop ever returned, in order
          pushResult, \* what the last tryPush returned: "none" before it returns
          popResult   \* what the last tryPop returned: "none" before it returns

fifoVars == <<queue, delivered, pushResult, popResult>>

Init ==
  /\ queue = << >>
  /\ delivered = << >>
  /\ pushResult = "none"
  /\ popResult = "none"

PushBegin ==
  /\ pushResult' = "none"
  /\ UNCHANGED <<queue, delivered, popResult>>

PushOk(item) ==
  /\ Len(queue) < Cap
  /\ queue' = Append(queue, item)
  /\ pushResult' = "ok"
  /\ UNCHANGED <<delivered, popResult>>

PushFull ==
  /\ Len(queue) = Cap
  /\ pushResult' = "full"
  /\ UNCHANGED <<queue, delivered, popResult>>

PopBegin ==
  /\ popResult' = "none"
  /\ UNCHANGED <<queue, delivered, pushResult>>

PopOk ==
  /\ queue # << >>
  /\ delivered' = Append(delivered, Head(queue))
  /\ queue' = Tail(queue)
  /\ popResult' = "item"
  /\ UNCHANGED pushResult

PopEmpty ==
  /\ queue = << >>
  /\ popResult' = "empty"
  /\ UNCHANGED <<queue, delivered, pushResult>>

Next ==
  \/ PushBegin
  \/ \E item \in Item : PushOk(item)
  \/ PushFull
  \/ PopBegin
  \/ PopOk
  \/ PopEmpty

Spec == Init /\ [][Next]_fifoVars
===============================================================================
