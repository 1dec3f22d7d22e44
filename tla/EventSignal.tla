----------------------------- MODULE EventSignal -----------------------------
(***************************************************************************)
(* The wake-up protocol of Connection: the network thread queues events on *)
(* the ring and calls Config::onEventsReady unless eventsSignalled_ says    *)
(* one call is outstanding; an event loop that sleeps until that call then  *)
(* runs poll(), which clears eventsSignalled_ before it drains.             *)
(*                                                                          *)
(* The ring is its two free-running indices (SpscRing shows it is a bounded *)
(* FIFO).  With StoreBuffering the game thread's release stores wait in a   *)
(* FIFO store buffer and later loads overtake them, as the C++ memory model *)
(* allows and x86 does; an exchange or a mutex empties the buffer first.    *)
(***************************************************************************)
EXTENDS Integers, Sequences

CONSTANTS Cap,            \* slots of the ring
          Batches,        \* how many messages a datagram may carry
          Budgets,        \* the maxEvents arguments poll() is called with
          MaxEvents       \* bound: messages received in all

ASSUME SignalAssumption ==
  /\ Cap \in Nat \ {0}
  /\ Batches \subseteq Nat \ {0}
  /\ Budgets \subseteq Nat \ {0}
  /\ MaxEvents \in Nat

VARIABLES
  pushed,       \* head_: events ever queued
  popped,       \* tail_ as the game thread knows it: events ever dispatched
  poppedSeen,   \* tail_ in memory, what tryPush reads
  signalled,    \* eventsSignalled_ in memory
  buffer,       \* the game thread's pending stores, oldest first
  npc, left, queued, \* network thread: position, messages left, any one queued
  received,     \* messages the network thread took from datagrams
  gpc, budget,  \* game thread: position, events poll() may still dispatch
  wake,         \* the event loop's wake descriptor is readable
  calls,        \* history: onEventsReady calls since poll() last cleared the flag
  setup         \* what this behaviour's machine and game are like

StoreBuffering == setup.storeBuffering \* whether the game thread's stores may be delayed
TimerPolls == setup.timerPolls         \* whether the game also polls unasked, once per frame

netVars == <<npc, left, queued, received>>
vars == <<pushed, popped, poppedSeen, signalled, buffer, netVars, gpc, budget, wake, calls>>

Init ==
  /\ pushed = 0 /\ popped = 0 /\ poppedSeen = 0
  /\ signalled = FALSE /\ buffer = << >>
  /\ npc = "idle" /\ left = 0 /\ queued = FALSE /\ received = 0
  /\ gpc = "sleep" /\ budget = 0
  /\ wake = FALSE /\ calls = 0
  /\ setup \in [storeBuffering : BOOLEAN, timerPolls : BOOLEAN]

-----------------------------------------------------------------------------
(* Network thread: handleDatagram, and setState with a batch of one. *)

HandleDatagram(n) ==
  /\ npc = "idle"
  /\ received + n <= MaxEvents
  /\ npc' = "push" /\ left' = n /\ queued' = FALSE
  /\ received' = received + n
  /\ UNCHANGED <<pushed, popped, poppedSeen, signalled, buffer, gpc, budget, wake, calls>>

\* Mutant of PushMessage: admits one event more than the ring holds.
PushMessageOver ==
  /\ npc = "push" /\ left > 0
  /\ left' = left - 1
  /\ IF pushed - poppedSeen > Cap
       THEN UNCHANGED <<pushed, queued>>
       ELSE pushed' = pushed + 1 /\ queued' = TRUE
  /\ UNCHANGED <<popped, poppedSeen, signalled, buffer, npc, received, gpc, budget, wake, calls>>

\* One message: tryPush, or ringDropped when the ring is full.
PushMessage ==
  /\ npc = "push" /\ left > 0
  /\ left' = left - 1
  /\ IF pushed - poppedSeen >= Cap
       THEN UNCHANGED <<pushed, queued>>
       ELSE pushed' = pushed + 1 /\ queued' = TRUE
  /\ UNCHANGED <<popped, poppedSeen, signalled, buffer, npc, received, gpc, budget, wake, calls>>

DatagramDone ==
  /\ npc = "push" /\ left = 0
  /\ npc' = IF queued THEN "signal" ELSE "idle"
  /\ UNCHANGED <<pushed, popped, poppedSeen, signalled, buffer, left, queued, received,
                 gpc, budget, wake, calls>>

\* Mutant of NetSignal: calls back whether or not a call is outstanding.
NetSignalAlways ==
  /\ npc = "signal"
  /\ npc' = "callback"
  /\ signalled' = TRUE
  /\ UNCHANGED <<pushed, popped, poppedSeen, buffer, left, queued, received, gpc, budget,
                 wake, calls>>

\* signalEvents on the network thread: the exchange.
NetSignal ==
  /\ npc = "signal"
  /\ npc' = IF signalled THEN "idle" ELSE "callback"
  /\ signalled' = TRUE
  /\ UNCHANGED <<pushed, popped, poppedSeen, buffer, left, queued, received, gpc, budget,
                 wake, calls>>

NetCallback ==
  /\ npc = "callback"
  /\ npc' = "idle"
  /\ wake' = TRUE
  /\ calls' = calls + 1
  /\ UNCHANGED <<pushed, popped, poppedSeen, signalled, buffer, left, queued, received,
                 gpc, budget>>

-----------------------------------------------------------------------------
(* Game thread: an event loop that runs poll() when it is woken, and on a    *)
(* timer of its own when TimerPolls.                                          *)

\* poll() copies the handlers under a mutex, which empties the store buffer.
PollBegin(n) ==
  /\ gpc = "sleep"
  /\ buffer = << >>
  /\ \/ wake /\ wake' = FALSE
     \/ TimerPolls /\ UNCHANGED wake
  /\ gpc' = "clear" /\ budget' = n
  /\ UNCHANGED <<pushed, popped, poppedSeen, signalled, buffer, netVars, calls>>

\* eventsSignalled_.store(false, release), before draining.
PollClear ==
  /\ gpc = "clear"
  /\ gpc' = "drain"
  /\ calls' = 0
  /\ IF StoreBuffering
       THEN buffer' = Append(buffer, "clear") /\ UNCHANGED signalled
       ELSE signalled' = FALSE /\ UNCHANGED buffer
  /\ UNCHANGED <<pushed, popped, poppedSeen, netVars, budget, wake>>

\* Mutant of PollPop: the maxEvents bound is not applied.
PollPopUnbounded ==
  /\ gpc = "drain"
  /\ pushed > popped
  /\ popped' = popped + 1
  /\ budget' = budget - 1
  /\ IF StoreBuffering
       THEN buffer' = Append(buffer, "pop") /\ UNCHANGED poppedSeen
       ELSE poppedSeen' = popped + 1 /\ UNCHANGED buffer
  /\ UNCHANGED <<pushed, signalled, netVars, gpc, wake, calls>>

\* tryPop returned an event, which is dispatched.
PollPop ==
  /\ gpc = "drain" /\ budget > 0
  /\ pushed > popped
  /\ popped' = popped + 1
  /\ budget' = budget - 1
  /\ IF StoreBuffering
       THEN buffer' = Append(buffer, "pop") /\ UNCHANGED poppedSeen
       ELSE poppedSeen' = popped + 1 /\ UNCHANGED buffer
  /\ UNCHANGED <<pushed, signalled, netVars, gpc, wake, calls>>

\* tryPop found the ring empty.
PollDrained ==
  /\ gpc = "drain" /\ budget > 0
  /\ pushed = popped
  /\ gpc' = "sleep"
  /\ UNCHANGED <<pushed, popped, poppedSeen, signalled, buffer, netVars, budget, wake, calls>>

\* Mutant of PollBounded: returns without signalling what it left queued.
PollBoundedQuiet ==
  /\ gpc = "drain" /\ budget = 0
  /\ gpc' = "sleep"
  /\ UNCHANGED <<pushed, popped, poppedSeen, signalled, buffer, netVars, budget, wake, calls>>

\* Mutant of PollBounded: stays until somebody else has emptied the ring.
PollBoundedSpin ==
  /\ gpc = "drain" /\ budget = 0 /\ pushed = popped
  /\ gpc' = "signal"
  /\ UNCHANGED <<pushed, popped, poppedSeen, signalled, buffer, netVars, budget, wake, calls>>

\* The maxEvents bound stopped the drain.
PollBounded ==
  /\ gpc = "drain" /\ budget = 0
  /\ gpc' = "signal"
  /\ UNCHANGED <<pushed, popped, poppedSeen, signalled, buffer, netVars, budget, wake, calls>>

\* signalEvents on the game thread; the exchange empties the store buffer.
PollSignal ==
  /\ gpc = "signal"
  /\ buffer = << >>
  /\ gpc' = IF signalled THEN "sleep" ELSE "callback"
  /\ signalled' = TRUE
  /\ UNCHANGED <<pushed, popped, poppedSeen, buffer, netVars, budget, wake, calls>>

PollCallback ==
  /\ gpc = "callback"
  /\ gpc' = "sleep"
  /\ wake' = TRUE
  /\ calls' = calls + 1
  /\ UNCHANGED <<pushed, popped, poppedSeen, signalled, buffer, netVars, budget>>

\* The oldest pending store reaches memory.
StoreLands ==
  /\ buffer # << >>
  /\ buffer' = Tail(buffer)
  /\ IF Head(buffer) = "clear"
       THEN signalled' = FALSE /\ UNCHANGED poppedSeen
       ELSE poppedSeen' = poppedSeen + 1 /\ UNCHANGED signalled
  /\ UNCHANGED <<pushed, popped, netVars, gpc, budget, wake, calls>>

-----------------------------------------------------------------------------
NetStep ==
  \/ \E n \in Batches : HandleDatagram(n)
  \/ PushMessage \/ DatagramDone \/ NetSignal \/ NetCallback

GameStep ==
  \/ \E n \in Budgets : PollBegin(n)
  \/ PollClear \/ PollPop \/ PollDrained \/ PollBounded \/ PollSignal \/ PollCallback
  \/ StoreLands

Next == NetStep \/ GameStep

Spec == Init /\ [][Next /\ UNCHANGED setup]_<<vars, setup>>

\* Both threads keep running and a store does not stay buffered for ever.
FairSpec == Spec /\ WF_vars(NetStep) /\ WF_vars(GameStep) /\ WF_vars(StoreLands)

-----------------------------------------------------------------------------
(* Type correctness of the signalling state. *)
TypeOK ==
  /\ pushed \in Nat /\ popped \in Nat /\ poppedSeen \in Nat
  /\ signalled \in BOOLEAN
  /\ buffer \in Seq({"clear", "pop"})
  /\ npc \in {"idle", "push", "signal", "callback"}
  /\ left \in Nat /\ queued \in BOOLEAN /\ received \in Nat
  /\ gpc \in {"sleep", "clear", "drain", "signal", "callback"}
  /\ budget \in Nat
  /\ wake \in BOOLEAN /\ calls \in Nat

\* The network thread is on its way to signalEvents.
NetWillSignal == npc = "signal" \/ (npc = "push" /\ queued)

(* An event loop that sleeps until onEventsReady does not sleep on a queued   *)
(* event: while poll() is not running and an event waits in the ring, the     *)
(* wake-up has been delivered or the network thread is about to deliver it.   *)
WakeUnderWay ==
  (gpc = "sleep" /\ pushed > popped /\ buffer = << >>)
     => (wake \/ NetWillSignal \/ npc = "callback")

(* No event is stranded, by whatever interleaving of signalEvents and poll(), *)
(* maxEvents bounds included, when stores take effect in program order.        *)
EventsNeverStranded == ~StoreBuffering => WakeUnderWay

(* What poll() claims of its clear before the drain: "an event queued after   *)
(* this point signals again".  No condition on the memory model.               *)
LaterEventsSignal == WakeUnderWay

(* onEventsReady is called at most once between two poll() calls, whichever   *)
(* of signalEvents' two call sites gets there first, when poll() runs only     *)
(* as onEventsReady asks.                                                      *)
OneCallbackPerPoll ==
  ~TimerPolls /\ ~StoreBuffering =>
    calls + (IF npc = "callback" THEN 1 ELSE 0) + (IF gpc = "callback" THEN 1 ELSE 0) <= 1

(* The ring never holds more events than it has slots and never hands out an  *)
(* event it does not hold, even while the game thread's tail_ stores are       *)
(* still on their way to memory.                                               *)
RingNeverOverfilled ==
  /\ popped <= pushed
  /\ pushed - popped <= Cap

(* Every queued event is dispatched although poll() runs only when woken.     *)
EveryEventDispatched ==
  \A k \in 1..MaxEvents : (pushed >= k /\ ~StoreBuffering) ~> popped >= k
===============================================================================
