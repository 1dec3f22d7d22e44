--------------------------- MODULE SpscRingProofs ---------------------------
(***************************************************************************)
(* Proofs about the ring, for every capacity, index width and item set.     *)
(***************************************************************************)
EXTENDS SpscRing, TLAPS

(* A quotient and a remainder below the divisor are unique. *)
LEMMA RemainderUnique ==
  ASSUME NEW w \in Nat \ {0}, NEW q1 \in Int, NEW q2 \in Int,
         NEW r1 \in 0..(w-1), NEW r2 \in 0..(w-1), w * q1 + r1 = w * q2 + r2
  PROVE  r1 = r2
<1>1. w * (q1 - q2) = r2 - r1
  OBVIOUS
<1>2. CASE q1 - q2 >= 1
  <2>1. w * (q1 - q2) >= w
    BY <1>2
  <2> QED BY <2>1, <1>1
<1>3. CASE q1 - q2 <= -1
  <2>1. w * (q1 - q2) <= -w
    BY <1>3
  <2> QED BY <2>1, <1>1
<1>4. CASE q1 = q2
  BY <1>4, <1>1
<1> QED BY <1>2, <1>3, <1>4

(* Whatever decomposes a number by a divisor gives its remainder. *)
LEMMA ModUnique ==
  ASSUME NEW w \in Nat \ {0}, NEW a \in Int, NEW q \in Int, NEW r \in 0..(w-1),
         a = w * q + r
  PROVE  a % w = r
<1>1. (a \div w) \in Int /\ (a % w) \in 0..(w-1)
  OBVIOUS
<1>2. w * (a \div w) + (a % w) = w * q + r
  OBVIOUS
<1> QED BY <1>1, <1>2, RemainderUnique, Zenon

(* Incrementing a wrapped index wraps the incremented count: Succ. *)
LEMMA ModSucc ==
  ASSUME NEW w \in Nat \ {0}, NEW a \in Nat
  PROVE  ((a % w) + 1) % w = (a + 1) % w
<1> DEFINE q == a \div w
           r == a % w
<1>1. a = w * q + r /\ q \in Int /\ r \in 0..(w-1)
  OBVIOUS
<1> HIDE DEF q, r
<1>2. CASE r + 1 < w
  <2>1. a + 1 = w * q + (r + 1) /\ a + 1 \in Int /\ r + 1 \in 0..(w-1)
    BY <1>1, <1>2
  <2>2. (a + 1) % w = r + 1
    BY <1>1, <2>1, ModUnique, Zenon
  <2>3. (r + 1) % w = r + 1
    BY <1>1, <1>2
  <2> QED BY <2>2, <2>3 DEF r
<1>3. CASE r + 1 = w
  <2>1. a + 1 = w * (q + 1) + 0 /\ a + 1 \in Int /\ q + 1 \in Int /\ 0 \in 0..(w-1)
    BY <1>1, <1>3
  <2>2. (a + 1) % w = 0
    BY <2>1, ModUnique, Zenon
  <2>3. (r + 1) % w = 0
    BY <1>1, <1>3
  <2> QED BY <2>2, <2>3 DEF r
<1> QED BY <1>1, <1>2, <1>3

(* The unsigned difference of two wrapped counts less than a span apart is  *)
(* their real difference: head - tail in tryPush.                            *)
LEMMA ModDiff ==
  ASSUME NEW w \in Nat \ {0}, NEW a \in Nat, NEW b \in Nat, b <= a, a - b < w
  PROVE  ((a % w) - (b % w)) % w = a - b
<1> DEFINE qa == a \div w
           qb == b \div w
           ra == a % w
           rb == b % w
<1>1. a = w * qa + ra /\ qa \in Int /\ ra \in 0..(w-1)
  OBVIOUS
<1>2. b = w * qb + rb /\ qb \in Int /\ rb \in 0..(w-1)
  OBVIOUS
<1> HIDE DEF qa, qb, ra, rb
<1>3. /\ ra - rb = w * (qb - qa) + (a - b)
      /\ ra - rb \in Int /\ qb - qa \in Int /\ a - b \in 0..(w-1)
  BY <1>1, <1>2
<1>4. (ra - rb) % w = a - b
  BY <1>3, ModUnique, Zenon
<1> QED BY <1>4 DEF ra, rb

(* Two counts less than a capacity apart use different slots. *)
LEMMA ModDistinct ==
  ASSUME NEW w \in Nat \ {0}, NEW a \in Nat, NEW b \in Nat, b < a, a - b < w
  PROVE  a % w # b % w
<1>1. SUFFICES ASSUME a % w = b % w PROVE FALSE
  OBVIOUS
<1>2. b <= a
  OBVIOUS
<1>3. ((a % w) - (b % w)) % w = a - b
  BY <1>2, ModDiff, Zenon
<1>4. (a % w) - (b % w) = 0 /\ 0 % w = 0
  BY <1>1
<1> QED BY <1>3, <1>4

(* Masking a wrapped index gives the slot of the unwrapped count. *)
LEMMA ModMod ==
  ASSUME NEW c \in Nat \ {0}, NEW m \in Nat \ {0}, NEW a \in Nat
  PROVE  (a % (c * m)) % c = a % c
<1> DEFINE w == c * m
           q == a \div w
           r == a % w
           s == r \div c
           x == r % c
<1>0. w \in Nat \ {0}
  OBVIOUS
<1> HIDE DEF w
<1>1. a = w * q + r /\ q \in Int /\ r \in 0..(w-1)
  BY <1>0
<1> HIDE DEF q, r
<1>2. r = c * s + x /\ s \in Int /\ x \in 0..(c-1)
  BY <1>0, <1>1
<1> HIDE DEF s, x
<1>3. w * q = c * (m * q) /\ m * q \in Int
  BY <1>1 DEF w
<1>4. a = c * (m * q + s) + x /\ m * q + s \in Int /\ a \in Int
  BY <1>1, <1>2, <1>3
<1>6. a % c = x
  BY <1>2, <1>4, ModUnique, Zenon
<1> QED BY <1>6 DEF x, r, w

(* The facts about the constants that the proofs use: a ring of at least one *)
(* slot whose indices span at least two laps.                                 *)
LEMMA ConstantFacts ==
  /\ Cap \in Nat \ {0} /\ Mask = Cap - 1 /\ Mask \in Nat
  /\ IndexSpan \in Nat \ {0} /\ Cap < IndexSpan
<1>1. Cap \in Nat \ {0} /\ Laps \in Nat \ {0, 1}
  BY RingAssumption
<1>2. Cap * Laps \in Nat \ {0} /\ Cap < Cap * Laps
  <2> DEFINE c == Cap
  <2>1. c \in Nat \ {0}
    BY <1>1
  <2> HIDE DEF c
  <2>2. c * Laps \in Nat \ {0} /\ c < c * Laps
    BY <1>1, <2>1
  <2> QED
    BY <2>2 DEF c
<1> QED
  BY <1>1, <1>2 DEF Mask, IndexSpan

(* The inductive invariant: the indices are the wrapped lengths of the two   *)
(* histories, the slots between them hold what was sent and not yet received, *)
(* and a thread past its check still has the room, or the item, it saw.       *)
RingInv ==
  /\ TypeOK
  /\ head = Len(sent) % IndexSpan
  /\ tail = Len(received) % IndexSpan
  /\ FifoOrder
  /\ \A k \in (Len(received) + 1)..Len(sent) : slots[(k - 1) % Cap] = sent[k]
  /\ ppc # "idle" => pItem \in Item
  /\ ppc \in {"write", "publish"} => Len(sent) - Len(received) < Cap
  /\ ppc = "publish" => slots[Len(sent) % Cap] = pItem
  /\ cpc \in {"move", "release"} => Len(received) < Len(sent)
  /\ cpc = "release" => cItem = sent[Len(received) + 1]

(* What the index arithmetic of tryPush and tryPop computes in such a state. *)
LEMMA IndexFacts ==
  ASSUME RingInv
  PROVE  /\ Len(sent) \in Nat /\ Len(received) \in Nat
         /\ SlotOf(head) = Len(sent) % Cap
         /\ SlotOf(tail) = Len(received) % Cap
         /\ Distance(head, tail) = Len(sent) - Len(received)
         /\ Succ(head) = (Len(sent) + 1) % IndexSpan
         /\ Succ(tail) = (Len(received) + 1) % IndexSpan
<1> DEFINE n == Len(sent)
           m == Len(received)
<1>1. n \in Nat /\ m \in Nat
  BY DEF RingInv, TypeOK
<1>2. m <= n /\ n - m < IndexSpan
  BY <1>1, ConstantFacts DEF RingInv, FifoOrder
<1>3. head = n % IndexSpan /\ tail = m % IndexSpan
  BY DEF RingInv
<1> HIDE DEF n, m
<1>4. Cap \in Nat \ {0} /\ Laps \in Nat \ {0} /\ IndexSpan \in Nat \ {0}
  BY ConstantFacts, RingAssumption
<1>5. SlotOf(head) = n % Cap
  BY <1>1, <1>3, <1>4, ModMod, Zenon DEF SlotOf, IndexSpan
<1>6. SlotOf(tail) = m % Cap
  BY <1>1, <1>3, <1>4, ModMod, Zenon DEF SlotOf, IndexSpan
<1>7. Distance(head, tail) = n - m
  BY <1>1, <1>2, <1>3, <1>4, ModDiff, Zenon DEF Distance
<1>8. Succ(head) = (n + 1) % IndexSpan /\ Succ(tail) = (m + 1) % IndexSpan
  BY <1>1, <1>3, <1>4, ModSucc, Zenon DEF Succ
<1> QED
  BY <1>1, <1>5, <1>6, <1>7, <1>8 DEF n, m

(* Counts less than a capacity apart have different slots, in either order.  *)
LEMMA SlotsDistinct ==
  ASSUME NEW a \in Nat, NEW b \in Nat, b < a, a - b < Cap
  PROVE  a % Cap # b % Cap
<1>1. Cap \in Nat \ {0}
  BY ConstantFacts
<1> QED
  BY <1>1, ModDistinct, Zenon

(* The type invariant in one step: RingInv supplies the ranges. *)
LEMMA RingTypeStep ==
  ASSUME RingInv, [Next]_vars
  PROVE  TypeOK'
<1> USE ConstantFacts
<1>0. TypeOK /\ (ppc # "idle" => pItem \in Item)
  BY DEF RingInv
<1>1. ASSUME NEW item \in Item, PushBegin(item) PROVE TypeOK'
  BY <1>0, <1>1 DEF TypeOK, PushBegin
<1>2. CASE PushLoad
  BY <1>0, <1>2 DEF TypeOK, PushLoad
<1>3. CASE PushWrite
  BY <1>0, <1>3 DEF TypeOK, PushWrite
<1>4. CASE PushPublish
  <2>1. Succ(head) \in 0..(IndexSpan - 1)
    BY <1>0 DEF Succ, TypeOK
  <2> QED
    BY <1>0, <1>4, <2>1 DEF TypeOK, PushPublish
<1>5. CASE PopBegin
  BY <1>0, <1>5 DEF TypeOK, PopBegin
<1>6. CASE PopLoad
  BY <1>0, <1>6 DEF TypeOK, PopLoad
<1>7. CASE PopMove
  <2>1. SlotOf(tail) \in 0..Mask
    BY <1>0 DEF TypeOK, SlotOf
  <2> QED
    BY <1>0, <1>7, <2>1 DEF TypeOK, PopMove
<1>8. CASE PopRelease
  <2>1. Succ(tail) \in 0..(IndexSpan - 1)
    BY <1>0 DEF Succ, TypeOK
  <2>2. cItem \in Item
    BY <1>0, <1>8 DEF RingInv, TypeOK, PopRelease
  <2> QED
    BY <1>0, <1>8, <2>1, <2>2 DEF TypeOK, PopRelease
<1>9. CASE UNCHANGED vars
  BY <1>0, <1>9 DEF TypeOK, vars
<1> QED
  BY <1>1, <1>2, <1>3, <1>4, <1>5, <1>6, <1>7, <1>8, <1>9 DEF Next

(* Every shared-memory access of either thread preserves RingInv. *)
LEMMA RingStep ==
  ASSUME RingInv, [Next]_vars
  PROVE  RingInv'
<1> DEFINE n == Len(sent)
           m == Len(received)
<1>0. TypeOK /\ TypeOK'
  BY RingTypeStep DEF RingInv
<1>i. /\ n \in Nat /\ m \in Nat /\ m <= n /\ n - m <= Cap
      /\ SlotOf(head) = n % Cap /\ SlotOf(tail) = m % Cap
      /\ Distance(head, tail) = n - m
      /\ Succ(head) = (n + 1) % IndexSpan /\ Succ(tail) = (m + 1) % IndexSpan
  BY IndexFacts DEF RingInv, FifoOrder
<1>c. /\ Cap \in Nat \ {0} /\ Mask = Cap - 1
      /\ IndexSpan \in Nat \ {0} /\ Cap < IndexSpan
  BY ConstantFacts
<1>1. ASSUME NEW item \in Item, PushBegin(item) PROVE RingInv'
  BY <1>0, <1>1 DEF RingInv, PushBegin, FifoOrder
<1>2. CASE PushLoad
  <2>1. ppc' = "write" => n - m < Cap
    BY <1>2, <1>i, <1>c DEF PushLoad, RingFull
  <2> QED
    BY <1>0, <1>2, <2>1 DEF RingInv, PushLoad, FifoOrder, TypeOK
<1>3. CASE PushWrite
  <2>1. n - m < Cap /\ n % Cap \in 0..Mask
    BY <1>3, <1>i, <1>c DEF RingInv, PushWrite
  <2>2. slots' = [slots EXCEPT ![n % Cap] = pItem]
    BY <1>3, <1>i DEF PushWrite
  <2>3. slots'[n % Cap] = pItem
    BY <1>0, <2>1, <2>2 DEF TypeOK
  <2>4. ASSUME NEW k \in (m + 1)..n PROVE slots'[(k - 1) % Cap] = sent[k]
    <3>1. k - 1 \in Nat /\ k - 1 < n /\ n - (k - 1) < Cap
      BY <1>i, <1>c, <2>1
    <3>2. n % Cap # (k - 1) % Cap
      BY <1>i, <3>1, SlotsDistinct, Zenon
    <3>3. (k - 1) % Cap \in 0..Mask
      BY <1>c, <3>1
    <3>4. slots'[(k - 1) % Cap] = slots[(k - 1) % Cap]
      BY <1>0, <2>2, <3>2, <3>3, Zenon DEF TypeOK
    <3> QED
      BY <3>4 DEF RingInv
  <2> QED
    BY <1>0, <1>3, <2>1, <2>3, <2>4 DEF RingInv, PushWrite, FifoOrder
<1>4. CASE PushPublish
  <2>1. /\ sent' = Append(sent, pItem) /\ Len(sent') = n + 1
        /\ sent'[n + 1] = pItem /\ \A k \in 1..n : sent'[k] = sent[k]
    BY <1>0, <1>4 DEF PushPublish, TypeOK, RingInv
  <2>2. n - m < Cap /\ slots[n % Cap] = pItem
    BY <1>4 DEF RingInv, PushPublish
  <2>3. FifoOrder'
    BY <1>i, <1>c, <1>4, <2>1, <2>2 DEF RingInv, FifoOrder, PushPublish
  <2>4. \A k \in (m + 1)..(n + 1) : slots[(k - 1) % Cap] = sent'[k]
    <3> TAKE k \in (m + 1)..(n + 1)
    <3>1. CASE k = n + 1
      <4>1. k - 1 = n
        BY <1>i, <3>1
      <4> QED
        BY <2>1, <2>2, <3>1, <4>1
    <3>2. CASE k \in (m + 1)..n
      BY <1>i, <2>1, <3>2 DEF RingInv
    <3> QED
      BY <1>i, <3>1, <3>2
  <2>5. head' = Len(sent') % IndexSpan
    BY <1>i, <1>4, <2>1 DEF PushPublish
  <2>6. cpc = "release" => sent'[m + 1] = sent[m + 1]
    BY <1>i, <2>1 DEF RingInv
  <2> QED
    BY <1>0, <1>i, <1>4, <2>1, <2>3, <2>4, <2>5, <2>6 DEF RingInv, PushPublish
<1>5. CASE PopBegin
  BY <1>0, <1>5 DEF RingInv, PopBegin, FifoOrder
<1>6. CASE PopLoad
  <2>1. cpc' = "move" => m < n
    BY <1>6, <1>i DEF PopLoad, RingInv
  <2> QED
    BY <1>0, <1>6, <2>1 DEF RingInv, PopLoad, FifoOrder, TypeOK
<1>7. CASE PopMove
  <2>1. m < n
    BY <1>7 DEF PopMove, RingInv
  <2>2. slots[m % Cap] = sent[m + 1]
    <3>1. m + 1 \in (m + 1)..n /\ (m + 1) - 1 = m
      BY <1>i, <2>1
    <3> QED
      BY <3>1 DEF RingInv
  <2>3. cItem' = sent[m + 1]
    BY <1>7, <1>i, <2>2 DEF PopMove
  <2> QED
    BY <1>0, <1>7, <2>1, <2>3 DEF RingInv, PopMove, FifoOrder
<1>8. CASE PopRelease
  <2>1. m < n /\ cItem = sent[m + 1] /\ cItem \in Item
    BY <1>0, <1>8 DEF PopRelease, RingInv, TypeOK
  <2>2. /\ received' = Append(received, cItem) /\ Len(received') = m + 1
        /\ received'[m + 1] = cItem /\ \A k \in 1..m : received'[k] = received[k]
    BY <1>0, <1>8, <2>1 DEF PopRelease, TypeOK
  <2>3. FifoOrder'
    <3>1. \A k \in 1..(m + 1) : received'[k] = sent[k]
      BY <1>i, <2>1, <2>2 DEF RingInv, FifoOrder
    <3> QED
      BY <1>i, <1>c, <1>8, <2>1, <2>2, <3>1 DEF FifoOrder, PopRelease
  <2>4. tail' = Len(received') % IndexSpan
    BY <1>i, <1>8, <2>2 DEF PopRelease
  <2>5. \A k \in (m + 2)..n : slots[(k - 1) % Cap] = sent[k]
    BY <1>i DEF RingInv
  <2>6. ppc \in {"write", "publish"} => n - (m + 1) < Cap
    BY <1>i, <1>c DEF RingInv
  <2> QED
    BY <1>0, <1>i, <1>8, <2>2, <2>3, <2>4, <2>5, <2>6 DEF RingInv, PopRelease
<1>9. CASE UNCHANGED vars
  BY <1>0, <1>9 DEF RingInv, vars, FifoOrder
<1> QED
  BY <1>1, <1>2, <1>3, <1>4, <1>5, <1>6, <1>7, <1>8, <1>9 DEF Next

(* The empty ring satisfies the invariant. *)
LEMMA RingStart == Init => RingInv
<1> SUFFICES ASSUME Init PROVE RingInv
  OBVIOUS
<1>1. TypeOK
  BY ConstantFacts DEF Init, TypeOK
<1>2. 0 % IndexSpan = 0
  BY ConstantFacts
<1> QED
  BY <1>1, <1>2, ConstantFacts DEF Init, RingInv, FifoOrder

(* RingInv holds in every behaviour of the two threads. *)
THEOREM RingInvariant == Spec => []RingInv
BY RingStart, RingStep, PTL DEF Spec

(* The ring's memory and the two threads are well typed in every behaviour. *)
THEOREM RingTypes == Spec => []TypeOK
<1>1. RingInv => TypeOK
  BY DEF RingInv
<1> QED
  BY <1>1, RingInvariant, PTL

(* What tryPop returns is what tryPush accepted, in order, and the ring never *)
(* holds more than its capacity: for every capacity and index width.          *)
THEOREM RingIsFifo == Spec => []FifoOrder
<1>1. RingInv => FifoOrder
  BY DEF RingInv
<1> QED
  BY <1>1, RingInvariant, PTL

(* The producer's slot and the consumer's slot differ while both are in use. *)
THEOREM RingIsRaceFree == Spec => []NoSlotRace
<1>1. RingInv => NoSlotRace
  <2> SUFFICES ASSUME RingInv, ppc \in {"write", "publish"}, cpc \in {"move", "release"}
               PROVE  SlotOf(head) # SlotOf(tail)
    BY DEF NoSlotRace
  <2>1. /\ Len(sent) \in Nat /\ Len(received) \in Nat
        /\ Len(received) < Len(sent) /\ Len(sent) - Len(received) < Cap
    BY IndexFacts DEF RingInv
  <2>2. Len(sent) % Cap # Len(received) % Cap
    BY <2>1, SlotsDistinct, Zenon
  <2> QED
    BY <2>2, IndexFacts
<1> QED
  BY <1>1, RingInvariant, PTL
=============================================================================
