--------------------------- MODULE VoxelEchoProofs ---------------------------
(***************************************************************************)
(* The clients converge: with every edit accepted and delivered in order,    *)
(* and pending edits free to expire at any time, Converged holds for every   *)
(* set of clients and every number of edits.                                 *)
(***************************************************************************)
EXTENDS VoxelEcho, TLAPS

\* No edit is refused, lost, overtaken or repeated, and nothing is hydrated meanwhile.
Reliable == Faults \subseteq {"expire"}

AnyEdit == [by : Clients \cup {"none"}, n : Nat]
Entry == [edit : AnyEdit, stale : BOOLEAN]

Occurs(e, s) == \E j \in 1 .. Len(s) : s[j] = e

(* The invariant speaks of one client c at a time: its pending edits p, the edits u under *)
(* way to the server and d from it, what it shows x, what the server holds w, and the     *)
(* number n of the newest edit.                                                           *)

TypesAt(p, u, d, x) ==
  p \in Seq(Entry) /\ u \in Seq(AnyEdit) /\ d \in Seq(AnyEdit) /\ x \in AnyEdit

\* Every number under way was given to an edit, and a client sends its own edits.
NumberedAt(c, u, d, n) ==
  /\ \A j \in 1 .. Len(u) : u[j].n <= n /\ u[j].by = c
  /\ \A j \in 1 .. Len(d) : d[j].n <= n

\* A client's edits are pending in the order in which they were made.
OrderedAt(p, n) ==
  \A k \in 1 .. Len(p) :
    p[k].edit.n <= n /\ \A j \in 1 .. Len(p) : j < k => p[j].edit.n < p[k].edit.n

\* They reach the server, and their echoes come back, in that order.
OwnOrderAt(c, u, d) ==
  /\ \A j, k \in 1 .. Len(u) : j < k => u[j].n < u[k].n
  /\ \A j, k \in 1 .. Len(d) : j < k /\ d[j].by = c /\ d[k].by = c => d[j].n < d[k].n
  /\ \A j \in 1 .. Len(d), k \in 1 .. Len(u) : d[j].by = c => d[j].n < u[k].n

\* A pending edit is the client's own, and under way to the server or back.
UnderWayAt(c, p, u, d) ==
  \A k \in 1 .. Len(p) : p[k].edit.by = c /\ (Occurs(p[k].edit, u) \/ Occurs(p[k].edit, d))

\* A newest pending edit that is not stale is shown.
ShownAt(p, x) == Len(p) > 0 /\ p[Len(p)].stale = FALSE => x = p[Len(p)].edit

\* The last message to a client is what the server holds; a client nothing is under way
\* to or from shows it.
LastWordAt(u, d, x, w) ==
  /\ Len(d) > 0 => d[Len(d)] = w
  /\ Len(u) = 0 /\ Len(d) = 0 => x = w

ClientInv(c, p, u, d, x, w, n) ==
  /\ TypesAt(p, u, d, x) /\ NumberedAt(c, u, d, n) /\ OrderedAt(p, n) /\ OwnOrderAt(c, u, d)
  /\ UnderWayAt(c, p, u, d) /\ ShownAt(p, x) /\ LastWordAt(u, d, x, w)

EchoInv ==
  /\ edits \in Nat /\ world \in AnyEdit /\ cache \in [Clients -> AnyEdit]
  /\ pending \in [Clients -> Seq(Entry)]
  /\ up \in [Clients -> Seq(AnyEdit)] /\ down \in [Clients -> Seq(AnyEdit)]
  /\ \A c \in Clients : ClientInv(c, pending[c], up[c], down[c], cache[c], world, edits)

-----------------------------------------------------------------------------

\* Removing the k-th element of a sequence (edits->erase(echoed)).
LEMMA WithoutFacts ==
  ASSUME NEW S, NEW s \in Seq(S), NEW k \in 1 .. Len(s)
  PROVE  /\ Without(s, k) \in Seq(S) /\ Len(Without(s, k)) = Len(s) - 1
         /\ \A j \in 1 .. Len(s) - 1 : Without(s, k)[j] = IF j < k THEN s[j] ELSE s[j + 1]
<1>1. Len(s) - 1 \in Nat
  OBVIOUS
<1>2. \A j \in 1 .. Len(s) - 1 : (IF j < k THEN s[j] ELSE s[j + 1]) \in S
  OBVIOUS
<1> QED
  BY <1>1, <1>2 DEF Without

\* What is left after the first element was taken still occurs.
LEMMA TailOccurs ==
  ASSUME NEW S, NEW s \in Seq(S), s # << >>, NEW e, Occurs(e, s), e # s[1]
  PROVE  Occurs(e, Without(s, 1))
<1>1. PICK j \in 1 .. Len(s) : s[j] = e
  BY DEF Occurs
<1>2. 1 \in 1 .. Len(s) /\ j # 1
  BY <1>1
<1>3. /\ Len(Without(s, 1)) = Len(s) - 1
      /\ \A i \in 1 .. Len(s) - 1 : Without(s, 1)[i] = IF i < 1 THEN s[i] ELSE s[i + 1]
  BY <1>2, WithoutFacts
<1>4. j - 1 \in 1 .. Len(s) - 1 /\ (j - 1) + 1 = j /\ ~(j - 1 < 1)
  BY <1>2
<1>5. Without(s, 1)[j - 1] = e
  BY <1>1, <1>3, <1>4
<1> QED
  BY <1>3, <1>4, <1>5 DEF Occurs

\* Removing the first element shifts the others.
LEMMA TailFacts ==
  ASSUME NEW S, NEW s \in Seq(S), s # << >>
  PROVE  /\ Without(s, 1) \in Seq(S) /\ Len(Without(s, 1)) = Len(s) - 1
         /\ \A j \in 1 .. Len(Without(s, 1)) :
              j + 1 \in 1 .. Len(s) /\ Without(s, 1)[j] = s[j + 1]
<1>1. 1 \in 1 .. Len(s)
  OBVIOUS
<1>2. /\ Without(s, 1) \in Seq(S) /\ Len(Without(s, 1)) = Len(s) - 1
      /\ \A j \in 1 .. Len(s) - 1 : Without(s, 1)[j] = IF j < 1 THEN s[j] ELSE s[j + 1]
  BY <1>1, WithoutFacts
<1> QED
  BY <1>2

\* Appending keeps what is there and adds the new element.
LEMMA AppendFacts ==
  ASSUME NEW S, NEW s \in Seq(S), NEW x \in S
  PROVE  /\ Append(s, x) \in Seq(S) /\ Len(Append(s, x)) = Len(s) + 1
         /\ \A j \in 1 .. Len(Append(s, x)) :
              (j \in 1 .. Len(s) /\ Append(s, x)[j] = s[j]) \/ (j = Len(s) + 1 /\ Append(s, x)[j] = x)
         /\ \A e : Occurs(e, s) => Occurs(e, Append(s, x))
         /\ Occurs(x, Append(s, x))
  BY DEF Occurs

\* The fields of a pending entry and of an edit.
LEMMA EntryFacts ==
  ASSUME NEW s \in Seq(Entry), NEW k \in 1 .. Len(s)
  PROVE  s[k] \in Entry /\ s[k].edit \in AnyEdit /\ s[k].edit.n \in Nat /\ s[k].stale \in BOOLEAN
<1>1. s[k] \in Entry
  OBVIOUS
<1> QED
  BY <1>1 DEF Entry, AnyEdit

\* The same for the edits under way.
LEMMA EditFacts ==
  ASSUME NEW s \in Seq(AnyEdit), NEW k \in 1 .. Len(s)
  PROVE  s[k] \in AnyEdit /\ s[k].n \in Nat
<1>1. s[k] \in AnyEdit
  OBVIOUS
<1> QED
  BY <1>1 DEF AnyEdit

-----------------------------------------------------------------------------
(* What each step does to one client. *)

\* Another edit is made somewhere.
LEMMA LaterKeeps ==
  ASSUME NEW c \in Clients, NEW p, NEW u, NEW d, NEW x, NEW w, NEW n \in Nat,
         ClientInv(c, p, u, d, x, w, n)
  PROVE  ClientInv(c, p, u, d, x, w, n + 1)
<1>1. TypesAt(p, u, d, x) /\ NumberedAt(c, u, d, n) /\ OrderedAt(p, n)
  BY DEF ClientInv
<1>2. NumberedAt(c, u, d, n + 1)
  <2>1. \A j \in 1 .. Len(u) : u[j].n \in Nat
    BY <1>1, EditFacts DEF TypesAt
  <2>2. \A j \in 1 .. Len(d) : d[j].n \in Nat
    BY <1>1, EditFacts DEF TypesAt
  <2> QED
    BY <2>1, <2>2, <1>1 DEF NumberedAt
<1>3. OrderedAt(p, n + 1)
  <2>1. \A j \in 1 .. Len(p) : p[j].edit.n \in Nat
    BY <1>1, EntryFacts DEF TypesAt
  <2> QED
    BY <2>1, <1>1 DEF OrderedAt
<1> QED
  BY <1>2, <1>3 DEF ClientInv

\* The client makes an edit (setVoxel), shown at once or, when stale, not yet.
LEMMA NewEditKeeps ==
  ASSUME NEW c \in Clients, NEW p, NEW u, NEW d, NEW x, NEW w, NEW n \in Nat,
         ClientInv(c, p, u, d, x, w, n),
         NEW e, e = [by |-> c, n |-> n + 1], NEW r \in Entry, r.edit = e,
         NEW y \in AnyEdit, r.stale = FALSE => y = e
  PROVE  ClientInv(c, Append(p, r), Append(u, e), d, y, w, n + 1)
<1> DEFINE q == Append(p, r)
           v == Append(u, e)
<1>1. /\ TypesAt(p, u, d, x) /\ NumberedAt(c, u, d, n) /\ OrderedAt(p, n) /\ OwnOrderAt(c, u, d)
      /\ UnderWayAt(c, p, u, d) /\ LastWordAt(u, d, x, w)
  BY DEF ClientInv
<1>2. e \in AnyEdit /\ e.n = n + 1 /\ e.by = c
  BY DEF AnyEdit
<1>3. p \in Seq(Entry) /\ u \in Seq(AnyEdit) /\ d \in Seq(AnyEdit)
  BY <1>1 DEF TypesAt
<1>4. /\ q \in Seq(Entry) /\ Len(q) = Len(p) + 1
      /\ \A j \in 1 .. Len(q) : (j \in 1 .. Len(p) /\ q[j] = p[j]) \/ (j = Len(p) + 1 /\ q[j] = r)
  BY <1>3, AppendFacts
<1>5. /\ v \in Seq(AnyEdit) /\ Len(v) = Len(u) + 1
      /\ \A j \in 1 .. Len(v) : (j \in 1 .. Len(u) /\ v[j] = u[j]) \/ (j = Len(u) + 1 /\ v[j] = e)
      /\ \A z : Occurs(z, u) => Occurs(z, v)
      /\ Occurs(e, v)
  BY <1>2, <1>3, AppendFacts
<1> HIDE DEF q, v
<1>6. \A j \in 1 .. Len(u) : u[j].n \in Nat /\ u[j].n <= n
  BY <1>1, <1>3, EditFacts DEF NumberedAt
<1>7. \A j \in 1 .. Len(d) : d[j].n \in Nat /\ d[j].n <= n
  BY <1>1, <1>3, EditFacts DEF NumberedAt
<1>8. \A j \in 1 .. Len(p) : p[j].edit.n \in Nat /\ p[j].edit.n <= n
  BY <1>1, <1>3, EntryFacts DEF OrderedAt
<1>9. Len(p) \in Nat /\ Len(u) \in Nat /\ Len(d) \in Nat
  BY <1>3
<1>10. TypesAt(q, v, d, y)
  BY <1>3, <1>4, <1>5 DEF TypesAt
<1>11. NumberedAt(c, v, d, n + 1)
  BY <1>1, <1>2, <1>5, <1>6, <1>7 DEF NumberedAt
<1>12. OrderedAt(q, n + 1)
  <2>1. ASSUME NEW k \in 1 .. Len(q), NEW j \in 1 .. Len(q), j < k
        PROVE  q[j].edit.n < q[k].edit.n
    <3>1. j \in 1 .. Len(p) /\ q[j] = p[j]
      BY <2>1, <1>4, <1>9
    <3>2. CASE k \in 1 .. Len(p) /\ q[k] = p[k]
      BY <3>1, <3>2, <2>1, <1>1 DEF OrderedAt
    <3>3. CASE q[k] = r
      BY <3>1, <3>3, <1>2, <1>8
    <3> QED
      BY <3>2, <3>3, <1>4
  <2>2. ASSUME NEW k \in 1 .. Len(q)
        PROVE  q[k].edit.n <= n + 1
    BY <1>2, <1>4, <1>8
  <2> QED
    BY <2>1, <2>2 DEF OrderedAt
<1>13. OwnOrderAt(c, v, d)
  <2>1. ASSUME NEW j \in 1 .. Len(v), NEW k \in 1 .. Len(v), j < k
        PROVE  v[j].n < v[k].n
    <3>1. j \in 1 .. Len(u) /\ v[j] = u[j]
      BY <2>1, <1>5, <1>9
    <3>2. CASE k \in 1 .. Len(u) /\ v[k] = u[k]
      BY <3>1, <3>2, <2>1, <1>1 DEF OwnOrderAt
    <3>3. CASE v[k] = e
      BY <3>1, <3>3, <1>2, <1>6
    <3> QED
      BY <3>2, <3>3, <1>5
  <2>2. ASSUME NEW j \in 1 .. Len(d), NEW k \in 1 .. Len(v), d[j].by = c
        PROVE  d[j].n < v[k].n
    <3>1. CASE k \in 1 .. Len(u) /\ v[k] = u[k]
      BY <3>1, <2>2, <1>1 DEF OwnOrderAt
    <3>2. CASE v[k] = e
      BY <3>2, <1>2, <1>7
    <3> QED
      BY <3>1, <3>2, <1>5
  <2> QED
    BY <2>1, <2>2, <1>1 DEF OwnOrderAt
<1>14. UnderWayAt(c, q, v, d)
  BY <1>1, <1>2, <1>4, <1>5 DEF UnderWayAt
<1>15. ShownAt(q, y)
  <2>1. q[Len(q)] = r
    BY <1>4, <1>9
  <2> QED
    BY <2>1 DEF ShownAt
<1>16. LastWordAt(v, d, y, w)
  BY <1>1, <1>5, <1>9 DEF LastWordAt
<1> QED
  BY <1>10, <1>11, <1>12, <1>13, <1>14, <1>15, <1>16 DEF ClientInv, q, v

\* The oldest pending edit is forgotten (livePending).
LEMMA ExpiredKeeps ==
  ASSUME NEW c \in Clients, NEW p, NEW u, NEW d, NEW x, NEW w, NEW n \in Nat,
         ClientInv(c, p, u, d, x, w, n), p # << >>
  PROVE  ClientInv(c, Without(p, 1), u, d, x, w, n)
<1> DEFINE q == Without(p, 1)
<1>1. TypesAt(p, u, d, x) /\ OrderedAt(p, n) /\ UnderWayAt(c, p, u, d) /\ ShownAt(p, x)
  BY DEF ClientInv
<1>2. p \in Seq(Entry) /\ Len(p) \in Nat
  BY <1>1 DEF TypesAt
<1>3. /\ q \in Seq(Entry) /\ Len(q) = Len(p) - 1
      /\ \A j \in 1 .. Len(q) : j + 1 \in 1 .. Len(p) /\ q[j] = p[j + 1]
  BY <1>2, TailFacts
<1> HIDE DEF q
<1>4. TypesAt(q, u, d, x)
  BY <1>1, <1>3 DEF TypesAt
<1>5. OrderedAt(q, n)
  <2>1. ASSUME NEW k \in 1 .. Len(q), NEW j \in 1 .. Len(q), j < k
        PROVE  q[j].edit.n < q[k].edit.n
    <3>1. j + 1 < k + 1
      BY <2>1
    <3> QED
      BY <3>1, <1>1, <1>3 DEF OrderedAt
  <2> QED
    BY <2>1, <1>1, <1>3 DEF OrderedAt
<1>6. UnderWayAt(c, q, u, d)
  BY <1>1, <1>3 DEF UnderWayAt
<1>7. ShownAt(q, x)
  <2>1. Len(q) > 0 => q[Len(q)] = p[Len(p)]
    BY <1>2, <1>3
  <2> QED
    BY <2>1, <1>1, <1>2, <1>3 DEF ShownAt
<1> QED
  BY <1>4, <1>5, <1>6, <1>7 DEF ClientInv, q

\* The server accepts the client's edit and sends it back.
LEMMA AcceptedKeeps ==
  ASSUME NEW c \in Clients, NEW p, NEW u, NEW d, NEW x, NEW w, NEW n \in Nat,
         ClientInv(c, p, u, d, x, w, n), u # << >>
  PROVE  ClientInv(c, p, Without(u, 1), Append(d, u[1]), x, u[1], n)
<1> DEFINE v == Without(u, 1)
           e == u[1]
           b == Append(d, e)
<1>1. /\ TypesAt(p, u, d, x) /\ NumberedAt(c, u, d, n) /\ OwnOrderAt(c, u, d)
      /\ UnderWayAt(c, p, u, d)
  BY DEF ClientInv
<1>2. u \in Seq(AnyEdit) /\ d \in Seq(AnyEdit) /\ 1 \in 1 .. Len(u) /\ Len(d) \in Nat
  BY <1>1 DEF TypesAt
<1>3. e \in AnyEdit /\ e.n <= n /\ e.by = c /\ \A j \in 1 .. Len(d) : d[j].by = c => d[j].n < e.n
  BY <1>1, <1>2, EditFacts DEF NumberedAt, OwnOrderAt
<1>4. /\ v \in Seq(AnyEdit) /\ Len(v) = Len(u) - 1
      /\ \A j \in 1 .. Len(v) : j + 1 \in 1 .. Len(u) /\ v[j] = u[j + 1]
  BY <1>2, TailFacts
<1>5. /\ b \in Seq(AnyEdit) /\ Len(b) = Len(d) + 1
      /\ \A j \in 1 .. Len(b) : (j \in 1 .. Len(d) /\ b[j] = d[j]) \/ (j = Len(d) + 1 /\ b[j] = e)
      /\ \A z : Occurs(z, d) => Occurs(z, b)
      /\ Occurs(e, b)
  BY <1>2, <1>3, AppendFacts
<1>6. \A z : Occurs(z, u) /\ z # e => Occurs(z, v)
  BY <1>2, TailOccurs
<1> HIDE DEF v, b, e
<1>7. TypesAt(p, v, b, x)
  BY <1>1, <1>4, <1>5 DEF TypesAt
<1>8. NumberedAt(c, v, b, n)
  BY <1>1, <1>3, <1>4, <1>5 DEF NumberedAt
<1>9. OwnOrderAt(c, v, b)
  <2>1. ASSUME NEW j \in 1 .. Len(v), NEW k \in 1 .. Len(v), j < k
        PROVE  v[j].n < v[k].n
    <3>1. j + 1 < k + 1
      BY <2>1
    <3> QED
      BY <3>1, <1>1, <1>4 DEF OwnOrderAt
  <2>2. ASSUME NEW j \in 1 .. Len(b), NEW k \in 1 .. Len(b), j < k, b[j].by = c, b[k].by = c
        PROVE  b[j].n < b[k].n
    <3>1. j \in 1 .. Len(d) /\ b[j] = d[j]
      BY <2>2, <1>2, <1>5
    <3>2. CASE k \in 1 .. Len(d) /\ b[k] = d[k]
      BY <3>1, <3>2, <2>2, <1>1 DEF OwnOrderAt
    <3>3. CASE b[k] = e
      BY <3>1, <3>3, <2>2, <1>3
    <3> QED
      BY <3>2, <3>3, <1>5
  <2>3. ASSUME NEW j \in 1 .. Len(b), NEW k \in 1 .. Len(v), b[j].by = c
        PROVE  b[j].n < v[k].n
    <3>1. CASE j \in 1 .. Len(d) /\ b[j] = d[j]
      BY <3>1, <2>3, <1>1, <1>4 DEF OwnOrderAt
    <3>2. CASE b[j] = e
      <4>1. 1 < k + 1
        OBVIOUS
      <4> QED
        BY <4>1, <3>2, <1>1, <1>2, <1>4 DEF OwnOrderAt, e
    <3> QED
      BY <3>1, <3>2, <1>5
  <2> QED
    BY <2>1, <2>2, <2>3 DEF OwnOrderAt
<1>10. UnderWayAt(c, p, v, b)
  BY <1>1, <1>5, <1>6 DEF UnderWayAt
<1>11. LastWordAt(v, b, x, e)
  <2>1. b[Len(b)] = e
    BY <1>2, <1>5
  <2> QED
    BY <2>1, <1>2, <1>5 DEF LastWordAt
<1> QED
  BY <1>7, <1>8, <1>9, <1>10, <1>11 DEF ClientInv, v, b, e

\* The server delivers another client's edit.
LEMMA DeliveredKeeps ==
  ASSUME NEW c \in Clients, NEW p, NEW u, NEW d, NEW x, NEW w, NEW n \in Nat,
         ClientInv(c, p, u, d, x, w, n), NEW e \in AnyEdit, e.by # c, e.n <= n
  PROVE  ClientInv(c, p, u, Append(d, e), x, e, n)
<1> DEFINE b == Append(d, e)
<1>1. /\ TypesAt(p, u, d, x) /\ NumberedAt(c, u, d, n) /\ OwnOrderAt(c, u, d)
      /\ UnderWayAt(c, p, u, d)
  BY DEF ClientInv
<1>2. d \in Seq(AnyEdit) /\ Len(d) \in Nat
  BY <1>1 DEF TypesAt
<1>3. /\ b \in Seq(AnyEdit) /\ Len(b) = Len(d) + 1
      /\ \A j \in 1 .. Len(b) : (j \in 1 .. Len(d) /\ b[j] = d[j]) \/ (j = Len(d) + 1 /\ b[j] = e)
      /\ \A z : Occurs(z, d) => Occurs(z, b)
  BY <1>2, AppendFacts
<1> HIDE DEF b
<1>4. TypesAt(p, u, b, x)
  BY <1>1, <1>3 DEF TypesAt
<1>5. NumberedAt(c, u, b, n)
  BY <1>1, <1>3 DEF NumberedAt
<1>6. OwnOrderAt(c, u, b)
  <2>1. \A j \in 1 .. Len(b) : b[j].by = c => j \in 1 .. Len(d) /\ b[j] = d[j]
    BY <1>3
  <2> QED
    BY <2>1, <1>1 DEF OwnOrderAt
<1>7. UnderWayAt(c, p, u, b)
  BY <1>1, <1>3 DEF UnderWayAt
<1>8. LastWordAt(u, b, x, e)
  <2>1. b[Len(b)] = e
    BY <1>2, <1>3
  <2> QED
    BY <2>1, <1>2, <1>3 DEF LastWordAt
<1> QED
  BY <1>4, <1>5, <1>6, <1>7, <1>8 DEF ClientInv, b

\* An edit that is not pending arrives: it is shown and the pending ones become stale.
LEMMA ForeignKeeps ==
  ASSUME NEW c \in Clients, NEW p, NEW u, NEW d, NEW x, NEW w, NEW n \in Nat,
         ClientInv(c, p, u, d, x, w, n), d # << >>,
         \A k \in 1 .. Len(p) : p[k].edit # d[1]
  PROVE  ClientInv(c, [j \in 1 .. Len(p) |-> [edit |-> p[j].edit, stale |-> TRUE]],
                   u, Without(d, 1), d[1], w, n)
<1> DEFINE q == [j \in 1 .. Len(p) |-> [edit |-> p[j].edit, stale |-> TRUE]]
           b == Without(d, 1)
           e == d[1]
<1>1. /\ TypesAt(p, u, d, x) /\ NumberedAt(c, u, d, n) /\ OrderedAt(p, n) /\ OwnOrderAt(c, u, d)
      /\ UnderWayAt(c, p, u, d) /\ LastWordAt(u, d, x, w)
  BY DEF ClientInv
<1>2. p \in Seq(Entry) /\ d \in Seq(AnyEdit) /\ Len(p) \in Nat /\ Len(d) \in Nat /\ 1 \in 1 .. Len(d)
  BY <1>1 DEF TypesAt
<1>3. e \in AnyEdit
  BY <1>2, EditFacts
<1>4. /\ b \in Seq(AnyEdit) /\ Len(b) = Len(d) - 1
      /\ \A j \in 1 .. Len(b) : j + 1 \in 1 .. Len(d) /\ b[j] = d[j + 1]
  BY <1>2, TailFacts
<1>5. \A z : Occurs(z, d) /\ z # e => Occurs(z, b)
  BY <1>2, TailOccurs
<1>6. \A j \in 1 .. Len(p) : p[j].edit \in AnyEdit
  BY <1>2, EntryFacts
<1>7. q \in Seq(Entry) /\ Len(q) = Len(p)
  <2>1. \A j \in 1 .. Len(p) : [edit |-> p[j].edit, stale |-> TRUE] \in Entry
    BY <1>6 DEF Entry
  <2> QED
    BY <2>1, <1>2
<1>8. \A j \in 1 .. Len(p) : q[j].edit = p[j].edit /\ q[j].stale = TRUE
  OBVIOUS
<1>9. \A j \in 1 .. Len(p) : p[j].edit # e
  OBVIOUS
<1> HIDE DEF q, b
<1>10. TypesAt(q, u, b, e)
  BY <1>1, <1>3, <1>4, <1>7 DEF TypesAt
<1>11. NumberedAt(c, u, b, n)
  BY <1>1, <1>4 DEF NumberedAt
<1>12. OrderedAt(q, n)
  BY <1>1, <1>7, <1>8 DEF OrderedAt
<1>13. OwnOrderAt(c, u, b)
  <2>1. ASSUME NEW j \in 1 .. Len(b), NEW k \in 1 .. Len(b), j < k, b[j].by = c, b[k].by = c
        PROVE  b[j].n < b[k].n
    <3>1. j + 1 < k + 1
      BY <2>1
    <3> QED
      BY <3>1, <2>1, <1>1, <1>4 DEF OwnOrderAt
  <2> QED
    BY <2>1, <1>1, <1>4 DEF OwnOrderAt
<1>14. UnderWayAt(c, q, u, b)
  BY <1>1, <1>5, <1>7, <1>8, <1>9 DEF UnderWayAt
<1>15. ShownAt(q, e)
  <2>1. Len(q) > 0 => Len(q) \in 1 .. Len(p)
    BY <1>2, <1>7
  <2> QED
    BY <2>1, <1>8 DEF ShownAt
<1>16. LastWordAt(u, b, e, w)
  <2>1. Len(b) > 0 => b[Len(b)] = d[Len(d)]
    BY <1>2, <1>4
  <2>2. ASSUME Len(b) = 0
        PROVE  e = d[Len(d)]
    <3>1. Len(d) = 1
      BY <2>2, <1>2, <1>4
    <3> QED
      BY <3>1
  <2> QED
    BY <2>1, <2>2, <1>1, <1>2, <1>4 DEF LastWordAt
<1> QED
  BY <1>10, <1>11, <1>12, <1>13, <1>14, <1>15, <1>16 DEF ClientInv, q, b

\* The echo of a pending edit is that of the oldest one.
LEMMA EchoIsOldest ==
  ASSUME NEW c \in Clients, NEW p, NEW u, NEW d, NEW x, NEW w, NEW n \in Nat,
         ClientInv(c, p, u, d, x, w, n), d # << >>,
         NEW k \in 1 .. Len(p), p[k].edit = d[1]
  PROVE  k = 1
<1>1. /\ TypesAt(p, u, d, x) /\ OrderedAt(p, n) /\ OwnOrderAt(c, u, d) /\ UnderWayAt(c, p, u, d)
  BY DEF ClientInv
<1>2. p \in Seq(Entry) /\ u \in Seq(AnyEdit) /\ d \in Seq(AnyEdit) /\ 1 \in 1 .. Len(d)
      /\ 1 \in 1 .. Len(p)
  BY <1>1 DEF TypesAt
<1> SUFFICES ASSUME k # 1
             PROVE  FALSE
  OBVIOUS
<1>3. p[1].edit.n < d[1].n /\ p[1].edit.n \in Nat /\ d[1].n \in Nat /\ d[1].by = c
  <2>1. 1 < k
    BY <1>2
  <2> QED
    BY <2>1, <1>1, <1>2, EntryFacts, EditFacts DEF OrderedAt, UnderWayAt
<1>4. p[1].edit.by = c /\ (Occurs(p[1].edit, u) \/ Occurs(p[1].edit, d))
  BY <1>1, <1>2 DEF UnderWayAt
<1>5. CASE Occurs(p[1].edit, u)
  <2>1. PICK i \in 1 .. Len(u) : u[i] = p[1].edit
    BY <1>5 DEF Occurs
  <2>2. d[1].n < u[i].n
    BY <1>1, <1>2, <1>3 DEF OwnOrderAt
  <2> QED
    BY <2>1, <2>2, <1>3
<1>6. CASE Occurs(p[1].edit, d)
  <2>1. PICK i \in 1 .. Len(d) : d[i] = p[1].edit
    BY <1>6 DEF Occurs
  <2>2. CASE i = 1
    BY <2>1, <2>2, <1>3
  <2>3. CASE i # 1
    <3>1. 1 < i
      BY <2>3
    <3>2. d[1].n < d[i].n
      BY <3>1, <2>1, <1>1, <1>2, <1>3, <1>4 DEF OwnOrderAt
    <3> QED
      BY <3>2, <2>1, <1>3
  <2> QED
    BY <2>2, <2>3
<1> QED
  BY <1>4, <1>5, <1>6

\* The echo of the oldest pending edit arrives (takeEcho).
LEMMA EchoKeeps ==
  ASSUME NEW c \in Clients, NEW p, NEW u, NEW d, NEW x, NEW w, NEW n \in Nat,
         ClientInv(c, p, u, d, x, w, n), d # << >>, p # << >>, p[1].edit = d[1],
         NEW y, y = IF p[1].stale /\ 1 = Len(p) THEN d[1] ELSE x
  PROVE  ClientInv(c, Without(p, 1), u, Without(d, 1), y, w, n)
<1> DEFINE q == Without(p, 1)
           b == Without(d, 1)
           e == d[1]
<1>1. /\ TypesAt(p, u, d, x) /\ NumberedAt(c, u, d, n) /\ OrderedAt(p, n) /\ OwnOrderAt(c, u, d)
      /\ UnderWayAt(c, p, u, d) /\ LastWordAt(u, d, x, w) /\ ShownAt(p, x)
  BY DEF ClientInv
<1>2. /\ p \in Seq(Entry) /\ d \in Seq(AnyEdit) /\ x \in AnyEdit /\ u \in Seq(AnyEdit)
      /\ Len(p) \in Nat /\ Len(d) \in Nat /\ 1 \in 1 .. Len(d) /\ 1 \in 1 .. Len(p)
  BY <1>1 DEF TypesAt
<1>3. e \in AnyEdit /\ e.n \in Nat /\ p[1].stale \in BOOLEAN
  BY <1>2, EditFacts, EntryFacts
<1>4. /\ b \in Seq(AnyEdit) /\ Len(b) = Len(d) - 1
      /\ \A j \in 1 .. Len(b) : j + 1 \in 1 .. Len(d) /\ b[j] = d[j + 1]
  BY <1>2, TailFacts
<1>5. \A z : Occurs(z, d) /\ z # e => Occurs(z, b)
  BY <1>2, TailOccurs
<1>6. ClientInv(c, q, u, d, x, w, n)
  BY ExpiredKeeps
<1>7. TypesAt(q, u, d, x) /\ OrderedAt(q, n) /\ UnderWayAt(c, q, u, d) /\ ShownAt(q, x)
  BY <1>6 DEF ClientInv
<1>8. /\ q \in Seq(Entry) /\ Len(q) = Len(p) - 1
      /\ \A j \in 1 .. Len(q) : j + 1 \in 1 .. Len(p) /\ q[j] = p[j + 1]
  BY <1>2, TailFacts
<1>9. \A j \in 1 .. Len(q) : q[j].edit # e
  <2>1. ASSUME NEW j \in 1 .. Len(q)
        PROVE  q[j].edit # e
    <3>1. 1 < j + 1 /\ j + 1 \in 1 .. Len(p) /\ q[j] = p[j + 1]
      BY <1>8
    <3>2. p[1].edit.n < q[j].edit.n
      BY <3>1, <1>1, <1>2 DEF OrderedAt
    <3> QED
      BY <3>2, <1>3
  <2> QED
    BY <2>1
<1> HIDE DEF q, b
<1>10. TypesAt(q, u, b, y)
  BY <1>2, <1>3, <1>4, <1>7 DEF TypesAt
<1>11. NumberedAt(c, u, b, n)
  BY <1>1, <1>4 DEF NumberedAt
<1>12. OwnOrderAt(c, u, b)
  <2>1. ASSUME NEW j \in 1 .. Len(b), NEW k \in 1 .. Len(b), j < k, b[j].by = c, b[k].by = c
        PROVE  b[j].n < b[k].n
    <3>1. j + 1 < k + 1
      BY <2>1
    <3> QED
      BY <3>1, <2>1, <1>1, <1>4 DEF OwnOrderAt
  <2> QED
    BY <2>1, <1>1, <1>4 DEF OwnOrderAt
<1>13. UnderWayAt(c, q, u, b)
  BY <1>5, <1>7, <1>9 DEF UnderWayAt
<1>14. ShownAt(q, y)
  <2>1. Len(q) > 0 => y = x
    BY <1>2, <1>8
  <2> QED
    BY <2>1, <1>7 DEF ShownAt
<1>15. LastWordAt(u, b, y, w)
  <2>1. Len(b) > 0 => b[Len(b)] = d[Len(d)]
    BY <1>2, <1>4
  <2>2. ASSUME Len(u) = 0, Len(b) = 0
        PROVE  y = w
    <3>1. Len(d) = 1 /\ e = w
      <4>1. Len(d) = 1
        BY <2>2, <1>2, <1>4
      <4>2. d[Len(d)] = w
        BY <4>1, <1>1 DEF LastWordAt
      <4> QED
        BY <4>1, <4>2
    <3>2. Len(q) = 0
      <4>1. ASSUME 1 \in 1 .. Len(q)
            PROVE  FALSE
        BY <4>1, <1>13, <2>2 DEF UnderWayAt, Occurs
      <4> QED
        BY <4>1, <1>2, <1>8
    <3>3. Len(p) = 1
      BY <3>2, <1>2, <1>8
    <3>4. CASE p[1].stale = TRUE
      BY <3>1, <3>3, <3>4
    <3>5. CASE p[1].stale = FALSE
      <4>1. x = p[1].edit
        BY <3>3, <3>5, <1>1 DEF ShownAt
      <4>2. y = x
        BY <3>5
      <4> QED
        BY <4>1, <4>2, <3>1
    <3> QED
      BY <3>4, <3>5, <1>3
  <2> QED
    BY <2>1, <2>2, <1>1, <1>2, <1>4 DEF LastWordAt
<1> QED
  BY <1>7, <1>10, <1>11, <1>12, <1>13, <1>14, <1>15 DEF ClientInv, q, b

-----------------------------------------------------------------------------
(* The steps of the specification. *)

\* What the state's functions hold, as the steps need it.
LEMMA EchoTypes ==
  ASSUME EchoInv
  PROVE  /\ edits \in Nat /\ world \in AnyEdit /\ cache \in [Clients -> AnyEdit]
         /\ pending \in [Clients -> Seq(Entry)]
         /\ up \in [Clients -> Seq(AnyEdit)] /\ down \in [Clients -> Seq(AnyEdit)]
         /\ \A c \in Clients : ClientInv(c, pending[c], up[c], down[c], cache[c], world, edits)
  BY DEF EchoInv

\* setVoxel keeps the invariant, whether it shows the edit at once or not.
LEMMA SetVoxelStep ==
  ASSUME EchoInv, NEW c \in Clients, NEW o \in BOOLEAN, SetVoxel(c, o)
  PROVE  EchoInv'
<1> DEFINE e == Edit(c)
           r == RememberEdit(e, o)
<1>1. /\ edits \in Nat /\ world \in AnyEdit /\ cache \in [Clients -> AnyEdit]
      /\ pending \in [Clients -> Seq(Entry)]
      /\ up \in [Clients -> Seq(AnyEdit)] /\ down \in [Clients -> Seq(AnyEdit)]
      /\ \A a \in Clients : ClientInv(a, pending[a], up[a], down[a], cache[a], world, edits)
  BY EchoTypes
<1>2. e = [by |-> c, n |-> edits + 1] /\ e \in AnyEdit
  BY <1>1 DEF Edit, AnyEdit
<1>3. r \in Entry /\ r.edit = e
  BY <1>2 DEF RememberEdit, Entry
<1>4. r.stale = FALSE => o = TRUE
  BY DEF RememberEdit
<1>5. /\ edits' = edits + 1 /\ world' = world /\ down' = down
      /\ cache' = (IF o THEN [cache EXCEPT ![c] = e] ELSE cache)
      /\ up' = [up EXCEPT ![c] = Append(up[c], e)]
      /\ pending' = [pending EXCEPT ![c] = Append(pending[c], r)]
  BY DEF SetVoxel
<1> HIDE DEF e, r
<1>6. Append(pending[c], r) \in Seq(Entry) /\ Append(up[c], e) \in Seq(AnyEdit)
  BY <1>1, <1>2, <1>3
<1>7. /\ edits' \in Nat /\ world' \in AnyEdit /\ cache' \in [Clients -> AnyEdit]
      /\ pending' \in [Clients -> Seq(Entry)]
      /\ up' \in [Clients -> Seq(AnyEdit)] /\ down' \in [Clients -> Seq(AnyEdit)]
  BY <1>1, <1>2, <1>5, <1>6
<1>8. ASSUME NEW a \in Clients
      PROVE  ClientInv(a, pending'[a], up'[a], down'[a], cache'[a], world', edits')
  <2>1. CASE a = c
    <3>1. pending'[c] = Append(pending[c], r) /\ up'[c] = Append(up[c], e)
      BY <1>1, <1>5
    <3>2. cache'[c] \in AnyEdit
      BY <1>7
    <3>3. r.stale = FALSE => cache'[c] = e
      BY <1>1, <1>4, <1>5
    <3>4. ClientInv(c, pending[c], up[c], down[c], cache[c], world, edits)
      BY <1>1
    <3>5. ClientInv(c, Append(pending[c], r), Append(up[c], e), down[c], cache'[c], world, edits + 1)
      BY <3>2, <3>3, <3>4, <1>1, <1>2, <1>3, NewEditKeeps
    <3> QED
      BY <3>1, <3>5, <2>1, <1>5
  <2>2. CASE a # c
    <3>1. pending'[a] = pending[a] /\ up'[a] = up[a] /\ cache'[a] = cache[a]
      BY <2>2, <1>1, <1>5
    <3>2. ClientInv(a, pending[a], up[a], down[a], cache[a], world, edits + 1)
      BY <1>1, LaterKeeps
    <3> QED
      BY <3>1, <3>2, <1>5
  <2> QED
    BY <2>1, <2>2
<1> QED
  BY <1>7, <1>8 DEF EchoInv

\* livePending() keeps it.
LEMMA ExpireStep ==
  ASSUME EchoInv, NEW c \in Clients, Expire(c)
  PROVE  EchoInv'
<1>1. /\ edits \in Nat /\ world \in AnyEdit /\ cache \in [Clients -> AnyEdit]
      /\ pending \in [Clients -> Seq(Entry)]
      /\ up \in [Clients -> Seq(AnyEdit)] /\ down \in [Clients -> Seq(AnyEdit)]
      /\ \A a \in Clients : ClientInv(a, pending[a], up[a], down[a], cache[a], world, edits)
  BY EchoTypes
<1>2. /\ pending[c] # << >> /\ pending' = [pending EXCEPT ![c] = Without(pending[c], 1)]
      /\ cache' = cache /\ up' = up /\ down' = down /\ world' = world /\ edits' = edits
  BY DEF Expire
<1>3. Without(pending[c], 1) \in Seq(Entry)
  BY <1>1, <1>2, TailFacts
<1>4. pending' \in [Clients -> Seq(Entry)]
  BY <1>1, <1>2, <1>3
<1>5. ASSUME NEW a \in Clients
      PROVE  ClientInv(a, pending'[a], up[a], down[a], cache[a], world, edits)
  <2>1. ClientInv(a, pending[a], up[a], down[a], cache[a], world, edits)
    BY <1>1
  <2>2. CASE a = c
    <3>1. pending'[a] = Without(pending[a], 1) /\ pending[a] # << >>
      BY <2>2, <1>1, <1>2
    <3>2. ClientInv(a, Without(pending[a], 1), up[a], down[a], cache[a], world, edits)
      BY <3>1, <2>1, <1>1, ExpiredKeeps
    <3> QED
      BY <3>1, <3>2
  <2>3. CASE a # c
    <3>1. pending'[a] = pending[a]
      BY <2>3, <1>1, <1>2
    <3> QED
      BY <3>1, <2>1
  <2> QED
    BY <2>2, <2>3
<1> QED
  BY <1>1, <1>2, <1>4, <1>5 DEF EchoInv

\* The server's acceptance of the next edit of a client keeps it.
LEMMA AcceptStep ==
  ASSUME EchoInv, NEW c \in Clients, up[c] # << >>, Accept(c, 1)
  PROVE  EchoInv'
<1> DEFINE e == up[c][1]
<1>1. /\ edits \in Nat /\ world \in AnyEdit /\ cache \in [Clients -> AnyEdit]
      /\ pending \in [Clients -> Seq(Entry)]
      /\ up \in [Clients -> Seq(AnyEdit)] /\ down \in [Clients -> Seq(AnyEdit)]
      /\ \A a \in Clients : ClientInv(a, pending[a], up[a], down[a], cache[a], world, edits)
  BY EchoTypes
<1>2. /\ world' = e /\ up' = [up EXCEPT ![c] = Without(up[c], 1)]
      /\ down' = [a \in Clients |-> Append(down[a], e)]
      /\ cache' = cache /\ pending' = pending /\ edits' = edits
  BY DEF Accept
<1>3. up[c] \in Seq(AnyEdit) /\ 1 \in 1 .. Len(up[c])
  BY <1>1
<1>4. e \in AnyEdit
  BY <1>3, EditFacts
<1>5. e.n <= edits /\ e.by = c
  <2>1. NumberedAt(c, up[c], down[c], edits)
    BY <1>1 DEF ClientInv
  <2> QED
    BY <2>1, <1>3 DEF NumberedAt
<1>6. Without(up[c], 1) \in Seq(AnyEdit)
  BY <1>3, TailFacts
<1>7. up' \in [Clients -> Seq(AnyEdit)] /\ down' \in [Clients -> Seq(AnyEdit)]
  BY <1>1, <1>2, <1>4, <1>6
<1>8. ASSUME NEW a \in Clients
      PROVE  ClientInv(a, pending[a], up'[a], down'[a], cache[a], e, edits)
  <2>1. ClientInv(a, pending[a], up[a], down[a], cache[a], world, edits)
    BY <1>1
  <2>2. CASE a = c
    <3>1. up'[a] = Without(up[a], 1) /\ down'[a] = Append(down[a], up[a][1]) /\ e = up[a][1]
      BY <2>2, <1>1, <1>2
    <3>2. ClientInv(a, pending[a], Without(up[a], 1), Append(down[a], up[a][1]), cache[a], up[a][1], edits)
      BY <2>1, <2>2, <1>1, AcceptedKeeps
    <3> QED
      BY <3>1, <3>2
  <2>3. CASE a # c
    <3> HIDE DEF e
    <3>1. up'[a] = up[a] /\ down'[a] = Append(down[a], e)
      BY <2>3, <1>1, <1>2
    <3>2. e.by # a
      BY <2>3, <1>5
    <3>3. ClientInv(a, pending[a], up[a], Append(down[a], e), cache[a], e, edits)
      BY <3>2, <2>1, <1>1, <1>4, <1>5, DeliveredKeeps
    <3> QED
      BY <3>1, <3>3
  <2> QED
    BY <2>2, <2>3
<1> HIDE DEF e
<1> QED
  BY <1>1, <1>2, <1>4, <1>7, <1>8 DEF EchoInv

\* ingest() of the next message keeps it, whether the message is an echo or not.
LEMMA IngestStep ==
  ASSUME EchoInv, NEW c \in Clients, down[c] # << >>, Ingest(c, 1), "duplicate" \notin Faults
  PROVE  EchoInv'
<1> DEFINE p == pending[c]
           e == down[c][1]
           hits == Echoed(c, e)
           h == CHOOSE i \in hits : TRUE
<1>1. /\ edits \in Nat /\ world \in AnyEdit /\ cache \in [Clients -> AnyEdit]
      /\ pending \in [Clients -> Seq(Entry)]
      /\ up \in [Clients -> Seq(AnyEdit)] /\ down \in [Clients -> Seq(AnyEdit)]
      /\ \A a \in Clients : ClientInv(a, pending[a], up[a], down[a], cache[a], world, edits)
  BY EchoTypes
<1>2. /\ Merge(c, e) /\ down' = [down EXCEPT ![c] = Without(down[c], 1)]
      /\ up' = up /\ world' = world /\ edits' = edits
  BY DEF Ingest
<1>3. hits = {k \in 1 .. Len(p) : p[k].edit = e}
  BY DEF Echoed
<1>4. ClientInv(c, p, up[c], down[c], cache[c], world, edits)
  BY <1>1
<1>5. Without(down[c], 1) \in Seq(AnyEdit)
  BY <1>1, TailFacts
<1>6. \E q, y : /\ pending' = [pending EXCEPT ![c] = q] /\ cache' = [cache EXCEPT ![c] = y]
               /\ ClientInv(c, q, up[c], Without(down[c], 1), y, world, edits)
  <2>1. CASE hits = {}
    <3> DEFINE q == [j \in 1 .. Len(p) |-> [edit |-> p[j].edit, stale |-> TRUE]]
    <3>1. pending' = [pending EXCEPT ![c] = q] /\ cache' = [cache EXCEPT ![c] = e]
      BY <2>1, <1>2 DEF Merge
    <3>2. \A k \in 1 .. Len(p) : p[k].edit # down[c][1]
      BY <2>1, <1>3
    <3>3. ClientInv(c, q, up[c], Without(down[c], 1), e, world, edits)
      BY <3>2, <1>1, <1>4, ForeignKeeps
    <3> QED
      BY <3>1, <3>3
  <2>2. CASE hits # {}
    <3>1. h \in 1 .. Len(p) /\ p[h].edit = down[c][1]
      BY <2>2, <1>3
    <3>2. h = 1
      <4> HIDE DEF h
      <4> QED
        BY <3>1, <1>1, <1>4, EchoIsOldest
    <3> DEFINE y == IF p[1].stale /\ 1 = Len(p) THEN down[c][1] ELSE cache[c]
    <3>3. pending' = [pending EXCEPT ![c] = Without(p, h)]
      BY <2>2, <1>2 DEF Merge
    <3>4. cache' = IF p[h].stale /\ h = Len(p) THEN [cache EXCEPT ![c] = e] ELSE cache
      BY <2>2, <1>2 DEF Merge
    <3> HIDE DEF h
    <3>5. pending' = [pending EXCEPT ![c] = Without(p, 1)]
      BY <3>2, <3>3
    <3>6. cache' = [cache EXCEPT ![c] = y]
      BY <3>2, <3>4, <1>1
    <3>7. p # << >> /\ p[1].edit = down[c][1]
      BY <3>1, <3>2, <1>1
    <3>8. ClientInv(c, Without(p, 1), up[c], Without(down[c], 1), y, world, edits)
      BY <3>7, <1>1, <1>4, EchoKeeps
    <3> QED
      BY <3>5, <3>6, <3>8
  <2> QED
    BY <2>1, <2>2
<1>7. PICK q, y : /\ pending' = [pending EXCEPT ![c] = q] /\ cache' = [cache EXCEPT ![c] = y]
                 /\ ClientInv(c, q, up[c], Without(down[c], 1), y, world, edits)
  BY <1>6
<1>8. q \in Seq(Entry) /\ y \in AnyEdit
  BY <1>7 DEF ClientInv, TypesAt
<1>9. /\ pending' \in [Clients -> Seq(Entry)] /\ cache' \in [Clients -> AnyEdit]
      /\ down' \in [Clients -> Seq(AnyEdit)]
  BY <1>1, <1>2, <1>5, <1>7, <1>8
<1>10. ASSUME NEW a \in Clients
       PROVE  ClientInv(a, pending'[a], up[a], down'[a], cache'[a], world, edits)
  <2>1. CASE a = c
    <3>1. pending'[a] = q /\ cache'[a] = y /\ down'[a] = Without(down[c], 1)
      BY <2>1, <1>1, <1>2, <1>7
    <3> QED
      BY <3>1, <2>1, <1>7
  <2>2. CASE a # c
    <3>1. pending'[a] = pending[a] /\ cache'[a] = cache[a] /\ down'[a] = down[a]
      BY <2>2, <1>1, <1>2, <1>7
    <3>2. ClientInv(a, pending[a], up[a], down[a], cache[a], world, edits)
      BY <1>1
    <3> QED
      BY <3>1, <3>2
  <2> QED
    BY <2>1, <2>2
<1> QED
  BY <1>1, <1>2, <1>9, <1>10 DEF EchoInv

\* Clients that show nothing yet and have sent nothing satisfy it.
LEMMA EchoStart == Init => EchoInv
<1> SUFFICES ASSUME Init
             PROVE  EchoInv
  OBVIOUS
<1>1. NoEdit \in AnyEdit
  BY DEF NoEdit, AnyEdit
<1>2. /\ edits = 0 /\ world = NoEdit
      /\ \A c \in Clients : cache[c] = NoEdit /\ pending[c] = << >> /\ up[c] = << >> /\ down[c] = << >>
  BY DEF Init
<1>4. \A c \in Clients : ClientInv(c, << >>, << >>, << >>, NoEdit, NoEdit, 0)
  BY <1>1 DEF ClientInv, TypesAt, NumberedAt, OrderedAt, OwnOrderAt, UnderWayAt, ShownAt, LastWordAt
<1>5. \A c \in Clients : ClientInv(c, pending[c], up[c], down[c], cache[c], world, edits)
  BY <1>2, <1>4
<1>6. /\ edits \in Nat /\ world \in AnyEdit /\ cache \in [Clients -> AnyEdit]
      /\ pending \in [Clients -> Seq(Entry)]
      /\ up \in [Clients -> Seq(AnyEdit)] /\ down \in [Clients -> Seq(AnyEdit)]
  BY <1>1 DEF Init
<1> QED
  BY <1>5, <1>6 DEF EchoInv

\* Every step keeps the invariant.
LEMMA EchoStep ==
  ASSUME Reliable, setup \in Setups, EchoInv, [Next]_vars
  PROVE  EchoInv'
<1>1. CASE UNCHANGED vars
  BY <1>1 DEF vars, EchoInv
<1>2. CASE Next
  <2>1. PICK c \in Clients :
          \/ \E o \in Modes : SetVoxel(c, o) \/ SetVoxelUnsent(c, o)
          \/ Expire(c) \/ Hydrate(c)
          \/ \E k \in 1 .. Len(up[c]) : Accept(c, k) \/ Refuse(c, k)
          \/ \E k \in 1 .. Len(down[c]) : Ingest(c, k) \/ Lose(c, k)
    BY <1>2 DEF Next
  <2>2. /\ "unsent" \notin Faults /\ "hydrate" \notin Faults /\ "refuse" \notin Faults
        /\ "lose" \notin Faults /\ "reorder" \notin Faults /\ "duplicate" \notin Faults
    BY DEF Reliable
  <2>3. CASE \E o \in Modes : SetVoxel(c, o) \/ SetVoxelUnsent(c, o)
    <3>1. Modes \subseteq BOOLEAN
      BY EchoAssumption DEF Modes
    <3> QED
      BY <2>2, <2>3, <3>1, SetVoxelStep DEF SetVoxelUnsent
  <2>4. CASE Expire(c) \/ Hydrate(c)
    BY <2>2, <2>4, ExpireStep DEF Hydrate
  <2>5. CASE \E k \in 1 .. Len(up[c]) : Accept(c, k) \/ Refuse(c, k)
    <3>1. PICK k \in 1 .. Len(up[c]) : Accept(c, k)
      BY <2>2, <2>5 DEF Refuse
    <3>2. k = 1
      BY <2>2, <3>1 DEF Accept, Arrivals
    <3>3. up[c] # << >>
      BY <3>1
    <3> QED
      BY <3>1, <3>2, <3>3, AcceptStep
  <2>6. CASE \E k \in 1 .. Len(down[c]) : Ingest(c, k) \/ Lose(c, k)
    <3>1. PICK k \in 1 .. Len(down[c]) : Ingest(c, k)
      BY <2>2, <2>6 DEF Lose
    <3>2. k = 1
      BY <2>2, <3>1 DEF Ingest, Arrivals
    <3>3. down[c] # << >>
      BY <3>1
    <3> QED
      BY <3>1, <3>2, <3>3, <2>2, IngestStep
  <2> QED
    BY <2>1, <2>3, <2>4, <2>5, <2>6
<1> QED
  BY <1>1, <1>2

\* Once nothing is under way every client shows what the server holds: the clients of
\* ChunkStore agree after any sequence of concurrent edits, optimistic or not, although
\* takeEcho() skips echoes and livePending() may forget an edit at any time.
THEOREM EchoesConverge == Spec => []Converged
<1> DEFINE Inv == setup \in Setups /\ (Reliable => EchoInv)
<1>1. Inv => Converged
  <2> SUFFICES ASSUME EchoInv, Quiet, NEW c \in Clients
               PROVE  cache[c] = world
    BY DEF Converged, Reliable
  <2>1. LastWordAt(up[c], down[c], cache[c], world)
    BY EchoTypes DEF ClientInv
  <2>2. up[c] = << >> /\ down[c] = << >>
    BY DEF Quiet
  <2> QED
    BY <2>1, <2>2 DEF LastWordAt
<1>2. Init => Inv
  BY EchoStart DEF Init
<1>3. Inv /\ [Next /\ UNCHANGED setup]_<<vars, setup>> => Inv'
  <2> SUFFICES ASSUME Inv, [Next]_vars, UNCHANGED setup PROVE Inv'
    OBVIOUS
  <2>1. Reliable' <=> Reliable
    BY DEF Reliable, Faults
  <2> QED
    BY <2>1, EchoStep
<1> QED
  BY <1>1, <1>2, <1>3, PTL DEF Spec
=============================================================================
