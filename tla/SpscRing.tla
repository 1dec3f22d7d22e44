------------------------------- MODULE SpscRing -------------------------------
(***************************************************************************)
(* core::SpscRing (include/crowdy/core/spsc.hpp): the lock-free ring that  *)
(* hands notifications from the network thread to the game thread.  One    *)
(* action per shared-memory access of tryPush and tryPop, so the two       *)
(* threads interleave between the loads, the slot access and the store.    *)
(* The indices are size_t and wrap at IndexSpan.                           *)
(***************************************************************************)
EXTENDS Integers, Sequences

CONSTANTS Item,       \* the events pushed
          Capacity,   \* the capacity the constructor is given
          Laps,       \* how often the index range covers the ring
          MaxPush,    \* bound: how many items are pushed
          None        \* the value of a slot never written

\* The constructor rounds the capacity up to a power of two; mask_ is Cap - 1.
Cap ==
  LET fits == {k \in 0..Capacity : 2^k >= Capacity}
  IN  2^(CHOOSE k \in fits : \A l \in fits : k <= l)

Mask == Cap - 1

\* How many values an index has: 2^64 in the build, a multiple of the capacity.
IndexSpan == Cap * Laps

ASSUME RingAssumption ==
  /\ Cap \in Nat \ {0}
  /\ Laps \in Nat \ {0, 1}
  /\ MaxPush \in Nat
  /\ None \notin Item

VARIABLES
  slots,      \* slots_
  head,       \* head_: written by the producer only
  tail,       \* tail_: written by the consumer only
  ppc, pItem, \* the producer inside tryPush, and its argument
  cpc, cItem, \* the consumer inside tryPop, and what it moved out
  pushResult, popResult,
  sent,       \* history: the items tryPush accepted
  received    \* history: the items tryPop returned

vars == <<slots, head, tail, ppc, pItem, cpc, cItem, pushResult, popResult, sent, received>>

\* index & mask_ for a power-of-two capacity.
SlotOf(index) == index % Cap

\* Mutant of Succ: an index that never wraps.
SuccNoWrap(index) == index + 1

\* index + 1 and head - tail in the unsigned arithmetic of size_t.
Succ(index) == (index + 1) % IndexSpan
Distance(h, t) == (h - t) % IndexSpan

Init ==
  /\ slots = [i \in 0..Mask |-> None]
  /\ head = 0 /\ tail = 0
  /\ ppc = "idle" /\ pItem = None
  /\ cpc = "idle" /\ cItem = None
  /\ pushResult = "none" /\ popResult = "none"
  /\ sent = << >> /\ received = << >>

PushBegin(item) ==
  /\ ppc = "idle"
  /\ Len(sent) < MaxPush
  /\ ppc' = "load"
  /\ pItem' = item
  /\ pushResult' = "none"
  /\ UNCHANGED <<slots, head, tail, cpc, cItem, popResult, sent, received>>

\* Mutants of RingFull: one slot too many, one slot too few.
RingFullLate(h, t) == Distance(h, t) > Mask + 1
RingFullEarly(h, t) == Distance(h, t) >= Mask

RingFull(h, t) == Distance(h, t) > Mask

PushLoad ==
  /\ ppc = "load"
  /\ IF RingFull(head, tail)
       THEN ppc' = "idle" /\ pushResult' = "full"
       ELSE ppc' = "write" /\ UNCHANGED pushResult
  /\ UNCHANGED <<slots, head, tail, pItem, cpc, cItem, popResult, sent, received>>

PushWrite ==
  /\ ppc = "write"
  /\ slots' = [slots EXCEPT ![SlotOf(head)] = pItem]
  /\ ppc' = "publish"
  /\ UNCHANGED <<head, tail, pItem, cpc, cItem, pushResult, popResult, sent, received>>

PushPublish ==
  /\ ppc = "publish"
  /\ head' = Succ(head)
  /\ sent' = Append(sent, pItem)
  /\ pushResult' = "ok"
  /\ ppc' = "idle"
  /\ UNCHANGED <<slots, tail, pItem, cpc, cItem, popResult, received>>

PopBegin ==
  /\ cpc = "idle"
  /\ cpc' = "load"
  /\ popResult' = "none"
  /\ UNCHANGED <<slots, head, tail, ppc, pItem, cItem, pushResult, sent, received>>

PopLoad ==
  /\ cpc = "load"
  /\ IF tail = head
       THEN cpc' = "idle" /\ popResult' = "empty"
       ELSE cpc' = "move" /\ UNCHANGED popResult
  /\ UNCHANGED <<slots, head, tail, ppc, pItem, cItem, pushResult, sent, received>>

\* Mutant of PopMove: takes the slot after the one at tail_.
PopMoveAhead ==
  /\ cpc = "move"
  /\ cItem' = slots[SlotOf(tail + 1)]
  /\ cpc' = "release"
  /\ UNCHANGED <<slots, head, tail, ppc, pItem, pushResult, popResult, sent, received>>

PopMove ==
  /\ cpc = "move"
  /\ cItem' = slots[SlotOf(tail)]
  /\ cpc' = "release"
  /\ UNCHANGED <<slots, head, tail, ppc, pItem, pushResult, popResult, sent, received>>

PopRelease ==
  /\ cpc = "release"
  /\ tail' = Succ(tail)
  /\ received' = Append(received, cItem)
  /\ popResult' = "item"
  /\ cpc' = "idle"
  /\ UNCHANGED <<slots, head, ppc, pItem, cItem, pushResult, sent>>

Next ==
  \/ \E item \in Item : PushBegin(item)
  \/ PushLoad \/ PushWrite \/ PushPublish
  \/ PopBegin \/ PopLoad \/ PopMove \/ PopRelease

Spec == Init /\ [][Next]_vars

-----------------------------------------------------------------------------
(* Type correctness of the ring's memory and of the two threads' positions. *)
TypeOK ==
  /\ slots \in [0..Mask -> Item \cup {None}]
  /\ head \in 0..(IndexSpan - 1) /\ tail \in 0..(IndexSpan - 1)
  /\ ppc \in {"idle", "load", "write", "publish"}
  /\ cpc \in {"idle", "load", "move", "release"}
  /\ pItem \in Item \cup {None} /\ cItem \in Item \cup {None}
  /\ pushResult \in {"none", "ok", "full"}
  /\ popResult \in {"none", "item", "empty"}
  /\ sent \in Seq(Item) /\ received \in Seq(Item)

(* The threads never touch one slot at the same time: while tryPush is about *)
(* to write or has written but not yet published a slot, tryPop is not       *)
(* moving that slot out.  This is what lets SpscRing do without a lock.       *)
NoSlotRace ==
  (ppc \in {"write", "publish"} /\ cpc \in {"move", "release"})
     => SlotOf(head) # SlotOf(tail)

(* tryPop returns exactly the items tryPush accepted, each once, in order,   *)
(* with nothing overwritten before it was read, across index wrap-around.     *)
FifoOrder ==
  /\ Len(received) <= Len(sent)
  /\ Len(sent) - Len(received) <= Cap
  /\ \A k \in 1..Len(received) : received[k] = sent[k]

\* The queue the ring stands for: the slots from tail to head.
contents == [k \in 1..Distance(head, tail) |-> slots[SlotOf(tail + k - 1)]]

Fifo == INSTANCE BoundedFifo WITH queue <- contents, delivered <- received

(* Each tryPush and tryPop takes effect in one step of a bounded FIFO: a     *)
(* "full" answer is given only by a full ring and "empty" only by an empty    *)
(* one, although each thread reads the other's index without a lock.          *)
RefinesFifo == Fifo!Spec
===============================================================================
