-------------------------- MODULE EventSignalProofs --------------------------
(***************************************************************************)
(* Proofs about the wake-up protocol, for every ring size, batch size and   *)
(* poll bound.                                                              *)
(***************************************************************************)
EXTENDS EventSignal, TLAPS

\* Whoever holds the outstanding wake-up: the descriptor, a thread about to
\* make the call, or a poll() that has not cleared the flag yet.
WakeOutstanding == wake \/ npc = "callback" \/ gpc \in {"clear", "callback"}

(* Inductive strengthening of EventsNeverStranded without store buffering:   *)
(* the flag is set only while a wake-up is outstanding, and an event queued   *)
(* while it is clear is about to be signalled or is being drained.            *)
WakeInv ==
  /\ TypeOK
  /\ buffer = << >>
  /\ signalled => WakeOutstanding
  /\ (pushed > popped /\ ~signalled) => (gpc \in {"drain", "signal"} \/ NetWillSignal)

(* Type correctness in one step, whatever the memory model. *)
LEMMA TypeStep ==
  ASSUME TypeOK, [Next]_vars
  PROVE  TypeOK'
<1> USE SignalAssumption
<1>1. CASE \E n \in Batches : HandleDatagram(n)
  <2>1. PICK n \in Batches : HandleDatagram(n)
    BY <1>1
  <2>2. n \in Nat
    OBVIOUS
  <2>3. received + n \in Nat
    BY <2>2 DEF TypeOK
  <2> QED
    BY <2>1, <2>2, <2>3 DEF TypeOK, HandleDatagram
<1>2. CASE PushMessage
  <2>1. left' \in Nat /\ pushed' \in Nat
    BY <1>2 DEF TypeOK, PushMessage
  <2>2. queued' \in BOOLEAN
    BY <1>2 DEF TypeOK, PushMessage
  <2> QED
    BY <1>2, <2>1, <2>2 DEF TypeOK, PushMessage
<1>3. CASE DatagramDone
  BY <1>3 DEF TypeOK, DatagramDone
<1>4. CASE NetSignal
  BY <1>4 DEF TypeOK, NetSignal
<1>5. CASE NetCallback
  BY <1>5 DEF TypeOK, NetCallback
<1>6. CASE \E n \in Budgets : PollBegin(n)
  <2>1. PICK n \in Budgets : PollBegin(n)
    BY <1>6
  <2>2. n \in Nat
    OBVIOUS
  <2> QED
    BY <2>1, <2>2 DEF TypeOK, PollBegin, netVars
<1>7. CASE PollClear
  <2>1. buffer' \in Seq({"clear", "pop"})
    BY <1>7 DEF TypeOK, PollClear
  <2>2. signalled' \in BOOLEAN
    BY <1>7 DEF TypeOK, PollClear
  <2> QED
    BY <1>7, <2>1, <2>2 DEF TypeOK, PollClear, netVars
<1>8. CASE PollPop
  BY <1>8 DEF TypeOK, PollPop, netVars
<1>9. CASE PollDrained
  BY <1>9 DEF TypeOK, PollDrained, netVars
<1>10. CASE PollBounded
  BY <1>10 DEF TypeOK, PollBounded, netVars
<1>11. CASE PollSignal
  BY <1>11 DEF TypeOK, PollSignal, netVars
<1>12. CASE PollCallback
  BY <1>12 DEF TypeOK, PollCallback, netVars
<1>13. CASE StoreLands
  <2>1. Tail(buffer) \in Seq({"clear", "pop"})
    BY <1>13 DEF TypeOK, StoreLands
  <2>2. poppedSeen' \in Nat
    BY <1>13 DEF TypeOK, StoreLands
  <2>3. signalled' \in BOOLEAN
    BY <1>13 DEF TypeOK, StoreLands
  <2> QED
    BY <1>13, <2>1, <2>2, <2>3 DEF TypeOK, StoreLands, netVars
<1>14. CASE UNCHANGED vars
  BY <1>14 DEF TypeOK, vars, netVars
<1> QED
  BY <1>1, <1>2, <1>3, <1>4, <1>5, <1>6, <1>7, <1>8, <1>9, <1>10, <1>11, <1>12, <1>13, <1>14
  DEF Next, NetStep, GameStep

(* The initial state is well typed. *)
LEMMA TypeInit == Init => TypeOK
<1> SUFFICES ASSUME Init PROVE TypeOK
  OBVIOUS
<1>1. signalled \in BOOLEAN /\ queued \in BOOLEAN /\ wake \in BOOLEAN
  BY Zenon DEF Init
<1>2. /\ pushed \in Nat /\ popped \in Nat /\ poppedSeen \in Nat /\ calls \in Nat
      /\ left \in Nat /\ received \in Nat /\ budget \in Nat
  BY DEF Init
<1>3. buffer \in Seq({"clear", "pop"})
  BY DEF Init
<1>4. /\ npc \in {"idle", "push", "signal", "callback"}
      /\ gpc \in {"sleep", "clear", "drain", "signal", "callback"}
  BY DEF Init
<1> QED
  BY <1>1, <1>2, <1>3, <1>4 DEF TypeOK

(* The types of the signalling state hold in every behaviour. *)
THEOREM TypeCorrect == Spec => []TypeOK
<1>1. TypeOK /\ [Next /\ UNCHANGED setup]_<<vars, setup>> => TypeOK'
  BY TypeStep
<1> QED
  BY TypeInit, <1>1, PTL DEF Spec

(* Every step of either thread preserves WakeInv when stores are not delayed. *)
LEMMA WakeStep ==
  ASSUME ~StoreBuffering, WakeInv, [Next]_vars
  PROVE  WakeInv'
<1>0. TypeOK' /\ TypeOK
  BY TypeStep DEF WakeInv
<1> USE DEF WakeInv, WakeOutstanding, NetWillSignal
<1>1. CASE \E n \in Batches : HandleDatagram(n)
  BY <1>0, <1>1 DEF HandleDatagram, TypeOK
<1>2. CASE PushMessage
  BY <1>0, <1>2 DEF PushMessage, TypeOK
<1>3. CASE DatagramDone
  BY <1>0, <1>3 DEF DatagramDone, TypeOK
<1>4. CASE NetSignal
  BY <1>0, <1>4 DEF NetSignal, TypeOK
<1>5. CASE NetCallback
  BY <1>0, <1>5 DEF NetCallback, TypeOK
<1>6. CASE \E n \in Budgets : PollBegin(n)
  BY <1>0, <1>6 DEF PollBegin, TypeOK, netVars
<1>7. CASE PollClear
  BY <1>0, <1>7 DEF PollClear, TypeOK, netVars
<1>8. CASE PollPop
  BY <1>0, <1>8 DEF PollPop, TypeOK, netVars
<1>9. CASE PollDrained
  BY <1>0, <1>9 DEF PollDrained, TypeOK, netVars
<1>10. CASE PollBounded
  BY <1>0, <1>10 DEF PollBounded, TypeOK, netVars
<1>11. CASE PollSignal
  BY <1>0, <1>11 DEF PollSignal, TypeOK, netVars
<1>12. CASE PollCallback
  BY <1>0, <1>12 DEF PollCallback, TypeOK, netVars
<1>13. CASE StoreLands
  BY <1>0, <1>13 DEF StoreLands
<1>14. CASE UNCHANGED vars
  BY <1>0, <1>14 DEF vars, netVars
<1> QED
  BY <1>1, <1>2, <1>3, <1>4, <1>5, <1>6, <1>7, <1>8, <1>9, <1>10, <1>11, <1>12, <1>13, <1>14
  DEF Next, NetStep, GameStep

(* With sequentially consistent stores the event loop never sleeps on a      *)
(* queued event, for every ring size and poll bound, and whether or not the   *)
(* game also polls on a timer.                                                *)
THEOREM NeverStranded == Spec => []EventsNeverStranded
<1> DEFINE Inv == ~StoreBuffering => WakeInv
<1>1. Init => Inv
  <2>1. Init => ~signalled /\ buffer = << >> /\ ~(pushed > popped)
    BY DEF Init
  <2> QED
    BY <2>1, TypeInit DEF WakeInv
<1>2. Inv => EventsNeverStranded
  BY DEF WakeInv, TypeOK, WakeOutstanding, NetWillSignal, EventsNeverStranded, WakeUnderWay
<1>3. Inv /\ [Next /\ UNCHANGED setup]_<<vars, setup>> => Inv'
  <2> SUFFICES ASSUME Inv, [Next]_vars, UNCHANGED setup PROVE Inv'
    OBVIOUS
  <2>1. StoreBuffering' <=> StoreBuffering
    BY DEF StoreBuffering
  <2> QED
    BY <2>1, WakeStep
<1> QED
  BY <1>1, <1>2, <1>3, PTL DEF Spec
===============================================================================
