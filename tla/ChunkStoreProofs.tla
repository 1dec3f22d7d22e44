-------------------------- MODULE ChunkStoreProofs --------------------------
(***************************************************************************)
(* The bookkeeping of the write-back for any number of chunks, attempts and *)
(* callers: the counter is the number of dirty chunks, retry state belongs   *)
(* to dirty chunks only, and no local content disappears unreported.         *)
(***************************************************************************)
EXTENDS ChunkStore, FiniteSetTheorems, TLAPS

(* The shape of a store.  How long a backoff is does not matter here. *)
Shape(s) ==
  /\ s = [cached |-> s.cached, dirty |-> s.dirty, count |-> s.count, retry |-> s.retry,
          content |-> s.content]
  /\ s.cached \subseteq Coords /\ s.dirty \subseteq s.cached
  /\ s.count = Cardinality(s.dirty)
  /\ s.retry = [c \in Coords |-> s.retry[c]] /\ s.content = [c \in Coords |-> s.content[c]]

\* A chunk that is not dirty has no retry state and nothing local to save.
SettledAt(s, c) ==
  c \notin s.dirty => s.retry[c] = NoRetry /\ s.content[c] # "local"

StoreInv(s) == Shape(s) /\ \A c \in Coords : SettledAt(s, c)

-----------------------------------------------------------------------------

\* setDirty() keeps the counter right and touches nothing else.
LEMMA SetDirtyFacts ==
  ASSUME NEW s, Shape(s), NEW c \in s.cached, NEW b \in BOOLEAN
  PROVE  LET t == SetDirty(s, c, b)
         IN /\ Shape(t) /\ t.cached = s.cached /\ t.retry = s.retry
            /\ t.content = s.content
            /\ t.dirty = IF b THEN s.dirty \cup {c} ELSE s.dirty \ {c}
<1>1. IsFiniteSet(s.dirty)
  BY ChunkAssumption, FS_Subset DEF Shape
<1>2. CASE (c \in s.dirty /\ b = TRUE) \/ (c \notin s.dirty /\ b = FALSE)
  <2>1. (c \in s.dirty) = b
    BY <1>2
  <2>2. SetDirty(s, c, b) = s
    BY <2>1 DEF SetDirty
  <2> QED
    BY <2>2, <1>2
<1>3. CASE c \notin s.dirty /\ b = TRUE
  <2>1. Cardinality(s.dirty \cup {c}) = Cardinality(s.dirty) + 1
    BY <1>1, <1>3, FS_AddElement
  <2>2. SetDirty(s, c, b) = [cached |-> s.cached, dirty |-> s.dirty \cup {c}, count |-> s.count + 1,
                            retry |-> s.retry, content |-> s.content]
    BY <1>3 DEF SetDirty, Shape
  <2> QED
    BY <2>1, <2>2, <1>3 DEF Shape
<1>4. CASE c \in s.dirty /\ b = FALSE
  <2>1. Cardinality(s.dirty \ {c}) = Cardinality(s.dirty) - 1
    BY <1>1, <1>4, FS_RemoveElement
  <2>2. SetDirty(s, c, b) = [cached |-> s.cached, dirty |-> s.dirty \ {c}, count |-> s.count - 1,
                            retry |-> s.retry, content |-> s.content]
    BY <1>4 DEF SetDirty, Shape
  <2> QED
    BY <2>1, <2>2, <1>4 DEF Shape
<1>5. b = TRUE \/ b = FALSE
  OBVIOUS
<1> QED
  BY <1>2, <1>3, <1>4, <1>5

\* A change of a chunk's retry state.
LEMMA RetryFacts ==
  ASSUME NEW s, Shape(s), NEW c \in Coords, NEW r
  PROVE  LET t == SetRetry(s, c, r)
         IN /\ Shape(t) /\ t.cached = s.cached /\ t.dirty = s.dirty /\ t.content = s.content
            /\ t.retry = [s.retry EXCEPT ![c] = r]
<1>1. SetRetry(s, c, r) =
        [cached |-> s.cached, dirty |-> s.dirty, count |-> s.count,
         retry |-> [s.retry EXCEPT ![c] = r], content |-> s.content]
  BY DEF SetRetry, Shape
<1> QED
  BY <1>1 DEF Shape

\* A change of what a chunk's content is.
LEMMA ContentFacts ==
  ASSUME NEW s, Shape(s), NEW c \in Coords, NEW k
  PROVE  LET t == Content(s, c, k)
         IN /\ Shape(t) /\ t.cached = s.cached /\ t.dirty = s.dirty /\ t.retry = s.retry
            /\ t.content = [s.content EXCEPT ![c] = k]
<1>1. Content(s, c, k) =
        [cached |-> s.cached, dirty |-> s.dirty, count |-> s.count, retry |-> s.retry,
         content |-> [s.content EXCEPT ![c] = k]]
  BY DEF Content, Shape
<1> QED
  BY <1>1 DEF Shape

\* A chunk enters the cache.
LEMMA CachedFacts ==
  ASSUME NEW s, StoreInv(s), NEW c \in Coords
  PROVE  LET t == [s EXCEPT !.cached = @ \cup {c}]
         IN StoreInv(t) /\ t.cached = s.cached \cup {c} /\ t.dirty = s.dirty
<1> DEFINE t == [s EXCEPT !.cached = @ \cup {c}]
<1>1. t = [cached |-> s.cached \cup {c}, dirty |-> s.dirty, count |-> s.count,
           retry |-> s.retry, content |-> s.content]
  BY DEF StoreInv, Shape
<1> HIDE DEF t
<1>2. Shape(t)
  BY <1>1 DEF StoreInv, Shape
<1>3. \A a \in Coords : SettledAt(t, a)
  BY <1>1 DEF StoreInv, SettledAt
<1> QED
  BY <1>1, <1>2, <1>3 DEF StoreInv, t

\* A cached chunk is made dirty, whatever its content is said to be.
LEMMA DirtiedKeeps ==
  ASSUME NEW s, StoreInv(s), NEW c \in Coords, c \in s.cached, NEW k
  PROVE  StoreInv(Content(SetDirty(s, c, TRUE), c, k))
<1> DEFINE t == SetDirty(s, c, TRUE)
           v == Content(t, c, k)
<1>1. Shape(s) /\ \A a \in Coords : SettledAt(s, a)
  BY DEF StoreInv
<1>2. Shape(t) /\ t.retry = s.retry /\ t.content = s.content /\ t.dirty = s.dirty \cup {c}
  BY <1>1, SetDirtyFacts
<1> HIDE DEF t
<1>3. /\ Shape(v) /\ v.retry = t.retry /\ v.dirty = t.dirty
      /\ v.content = [t.content EXCEPT ![c] = k]
  BY <1>2, ContentFacts
<1> HIDE DEF v
<1>4. ASSUME NEW a \in Coords
      PROVE  SettledAt(v, a)
  BY <1>1, <1>2, <1>3 DEF SettledAt, Shape
<1> QED
  BY <1>3, <1>4 DEF StoreInv, t, v

\* The store once a chunk's write is over, its content being k.
Settle(s, c, k) == Content(SetDirty(ForgetWriteBack(s, c), c, FALSE), c, k)

\* A chunk's write is over: no retry state, not dirty, nothing local.
LEMMA SettledKeeps ==
  ASSUME NEW s, StoreInv(s), NEW c \in Coords, c \in s.cached, NEW k, k # "local"
  PROVE  /\ StoreInv(Settle(s, c, k))
         /\ Settle(s, c, k).cached = s.cached /\ Settle(s, c, k).content[c] = k
         /\ Settle(s, c, k).dirty = s.dirty \ {c}
<1> DEFINE r == ForgetWriteBack(s, c)
           t == SetDirty(r, c, FALSE)
           v == Content(t, c, k)
<1>1. Shape(s) /\ \A a \in Coords : SettledAt(s, a)
  BY DEF StoreInv
<1>2. /\ Shape(r) /\ r.cached = s.cached /\ r.dirty = s.dirty /\ r.content = s.content
      /\ r.retry = [s.retry EXCEPT ![c] = NoRetry]
  BY <1>1, RetryFacts DEF ForgetWriteBack
<1> HIDE DEF r
<1>3. /\ Shape(t) /\ t.cached = r.cached /\ t.retry = r.retry /\ t.content = r.content
      /\ t.dirty = r.dirty \ {c}
  <2>1. c \in r.cached
    BY <1>2
  <2> QED
    BY <2>1, <1>2, SetDirtyFacts
<1> HIDE DEF t
<1>4. /\ Shape(v) /\ v.cached = t.cached /\ v.retry = t.retry /\ v.dirty = t.dirty
      /\ v.content = [t.content EXCEPT ![c] = k]
  BY <1>3, ContentFacts
<1> HIDE DEF v
<1>5. v.retry[c] = NoRetry /\ v.content[c] = k
  BY <1>1, <1>2, <1>3, <1>4 DEF Shape
<1>6. ASSUME NEW a \in Coords
      PROVE  SettledAt(v, a)
  <2>1. CASE a = c
    BY <2>1, <1>5 DEF SettledAt
  <2>2. CASE a # c
    <3>1. v.retry[a] = s.retry[a] /\ v.content[a] = s.content[a]
      BY <2>2, <1>1, <1>2, <1>3, <1>4 DEF Shape
    <3>2. a \in v.dirty <=> a \in s.dirty
      BY <2>2, <1>2, <1>3, <1>4
    <3> QED
      BY <3>1, <3>2, <1>1 DEF SettledAt
  <2> QED
    BY <2>1, <2>2
<1>7. v.dirty = s.dirty \ {c}
  BY <1>2, <1>3, <1>4
<1> QED
  BY <1>2, <1>3, <1>4, <1>5, <1>6, <1>7 DEF StoreInv, Settle, r, t, v

\* applyLocal() keeps the invariant.
LEMMA ApplyKeeps ==
  ASSUME NEW s, StoreInv(s), NEW c \in Coords, NEW b \in BOOLEAN
  PROVE  StoreInv(ApplyLocal(s, c, b))
<1> DEFINE t == [s EXCEPT !.cached = @ \cup {c}]
<1>1. StoreInv(t) /\ c \in t.cached
  BY CachedFacts
<1>2. ApplyLocal(s, c, b) = IF b THEN Content(SetDirty(t, c, TRUE), c, "local") ELSE t
  BY DEF ApplyLocal
<1> HIDE DEF t
<1>3. StoreInv(Content(SetDirty(t, c, TRUE), c, "local"))
  BY <1>1, DirtiedKeeps
<1> QED
  BY <1>1, <1>2, <1>3

\* attemptWriteBack() keeps it, and leaves nothing local unless the write is to be retried.
LEMMA AttemptKeeps ==
  ASSUME NEW s, StoreInv(s), NEW c \in s.dirty, NEW o, NEW undo \in BOOLEAN
  PROVE  LET v == AttemptWriteBack(s, c, o, undo)
         IN /\ StoreInv(v) /\ v.cached = s.cached
            /\ s.dirty \ {c} \subseteq v.dirty
            /\ Retries(s, c, o) => c \in v.dirty
            /\ ~Retries(s, c, o) => v.content[c] # "local"
<1> DEFINE saved == Settle(s, c, "saved")
           given == Settle(s, c, "dropped")
           again == SetRetry(s, c, Retry(s.retry[c].attempts + 1, Backoff * 2 ^ s.retry[c].attempts))
           undone == Content(ApplyLocal(given, c, TRUE), c, "saved")
<1>1. Shape(s) /\ (\A a \in Coords : SettledAt(s, a)) /\ c \in Coords /\ c \in s.cached
  BY DEF StoreInv, Shape
<1>a. "saved" # "local" /\ "dropped" # "local"
  OBVIOUS
<1>2. /\ StoreInv(saved) /\ saved.cached = s.cached /\ saved.content[c] = "saved"
      /\ saved.dirty = s.dirty \ {c}
  BY <1>1, <1>a, SettledKeeps
<1>3. /\ StoreInv(given) /\ given.cached = s.cached /\ given.content[c] = "dropped"
      /\ given.dirty = s.dirty \ {c}
  BY <1>1, <1>a, SettledKeeps
<1>4. StoreInv(again) /\ again.cached = s.cached /\ again.dirty = s.dirty
  <2> DEFINE r == Retry(s.retry[c].attempts + 1, Backoff * 2 ^ s.retry[c].attempts)
  <2> HIDE DEF r
  <2>1. /\ Shape(again) /\ again.cached = s.cached /\ again.dirty = s.dirty
        /\ again.content = s.content /\ again.retry = [s.retry EXCEPT ![c] = r]
    BY <1>1, RetryFacts DEF r
  <2> HIDE DEF again
  <2>2. \A a \in Coords : SettledAt(again, a)
    BY <2>1, <1>1 DEF SettledAt, Shape
  <2> QED
    BY <2>1, <2>2 DEF StoreInv
<1>5. /\ StoreInv(undone) /\ undone.cached = s.cached /\ undone.content[c] = "saved"
      /\ s.dirty \subseteq undone.dirty
  <2> HIDE DEF given
  <2> DEFINE t == [given EXCEPT !.cached = @ \cup {c}]
             d == SetDirty(t, c, TRUE)
             w == Content(d, c, "local")
  <2>1. StoreInv(t) /\ t.cached = s.cached /\ c \in t.cached /\ t.dirty = s.dirty \ {c}
    <3>1. StoreInv(t) /\ t.cached = given.cached \cup {c} /\ t.dirty = given.dirty
      BY <1>1, <1>3, CachedFacts
    <3> HIDE DEF t
    <3> QED
      BY <3>1, <1>1, <1>3
  <2>2. ApplyLocal(given, c, TRUE) = w
    BY DEF ApplyLocal
  <2> HIDE DEF t
  <2>3. StoreInv(w)
    BY <2>1, <1>1, DirtiedKeeps
  <2>4. Shape(d) /\ d.cached = t.cached /\ d.dirty = t.dirty \cup {c}
    BY <2>1, SetDirtyFacts DEF StoreInv
  <2> HIDE DEF d
  <2>5. w.cached = d.cached /\ w.dirty = d.dirty
    BY <2>4, <1>1, ContentFacts
  <2> HIDE DEF w
  <2> DEFINE z == Content(w, c, "saved")
  <2>6. /\ Shape(z) /\ z.cached = w.cached /\ z.dirty = w.dirty /\ z.retry = w.retry
        /\ z.content = [w.content EXCEPT ![c] = "saved"]
    BY <2>3, <1>1, ContentFacts DEF StoreInv
  <2> HIDE DEF z
  <2>7. z.content[c] = "saved" /\ \A a \in Coords : a # c => z.content[a] = w.content[a]
    BY <2>3, <2>6, <1>1 DEF StoreInv, Shape
  <2>8. \A a \in Coords : SettledAt(z, a)
    BY <2>3, <2>4, <2>5, <2>6, <2>7 DEF StoreInv, SettledAt
  <2>9. undone = z
    BY <2>2 DEF z
  <2> QED
    BY <2>1, <2>4, <2>5, <2>6, <2>7, <2>8, <2>9 DEF StoreInv
<1>b. Retries(s, c, o) => ~WriteOk(o)
  BY DEF Retries
<1>6. AttemptWriteBack(s, c, o, undo) =
        IF WriteOk(o) THEN saved ELSE IF Retries(s, c, o) THEN again
        ELSE IF undo THEN undone ELSE given
  BY DEF AttemptWriteBack, Settle
<1> HIDE DEF saved, given, again, undone
<1> QED
  BY <1>1, <1>2, <1>3, <1>4, <1>5, <1>6, <1>b

\* An eviction keeps it.
LEMMA EvictKeeps ==
  ASSUME NEW s, StoreInv(s), NEW c \in Coords, c \in s.cached
  PROVE  StoreInv(Evict(s, c)) /\ Evict(s, c).cached = s.cached \ {c}
<1> DEFINE t == SetDirty(s, c, FALSE)
           f == ForgetWriteBack(t, c)
           g == [f EXCEPT !.cached = @ \ {c}]
           v == Content(g, c, "saved")
<1>1. Shape(s) /\ \A a \in Coords : SettledAt(s, a)
  BY DEF StoreInv
<1>2. /\ Shape(t) /\ t.cached = s.cached /\ t.retry = s.retry /\ t.content = s.content
      /\ t.dirty = s.dirty \ {c}
  BY <1>1, SetDirtyFacts
<1> HIDE DEF t
<1>3. /\ Shape(f) /\ f.cached = t.cached /\ f.dirty = t.dirty /\ f.content = t.content
      /\ f.retry = [t.retry EXCEPT ![c] = NoRetry]
  BY <1>2, RetryFacts DEF ForgetWriteBack
<1> HIDE DEF f
<1>4. g = [cached |-> f.cached \ {c}, dirty |-> f.dirty, count |-> f.count, retry |-> f.retry,
           content |-> f.content]
  BY <1>3 DEF Shape
<1> HIDE DEF g
<1>5. Shape(g)
  BY <1>2, <1>3, <1>4 DEF Shape
<1>6. /\ Shape(v) /\ v.cached = g.cached /\ v.dirty = g.dirty /\ v.retry = g.retry
      /\ v.content = [g.content EXCEPT ![c] = "saved"]
  BY <1>5, ContentFacts
<1> HIDE DEF v
<1>7. v.retry[c] = NoRetry /\ v.content[c] = "saved"
  BY <1>1, <1>2, <1>3, <1>4, <1>6 DEF Shape
<1>8. ASSUME NEW a \in Coords
      PROVE  SettledAt(v, a)
  <2>1. CASE a = c
    BY <2>1, <1>7 DEF SettledAt
  <2>2. CASE a # c
    <3>1. v.retry[a] = s.retry[a] /\ v.content[a] = s.content[a]
      BY <2>2, <1>1, <1>2, <1>3, <1>4, <1>6 DEF Shape
    <3>2. a \in v.dirty <=> a \in s.dirty
      BY <2>2, <1>2, <1>3, <1>4, <1>6
    <3> QED
      BY <3>1, <3>2, <1>1 DEF SettledAt
  <2> QED
    BY <2>1, <2>2
<1>9. Evict(s, c) = v
  BY DEF Evict, v, g, f, t
<1> QED
  BY <1>2, <1>3, <1>4, <1>6, <1>8, <1>9 DEF StoreInv

\* Time that passes changes backoffs only, and those of dirty chunks.
LEMMA ElapsedKeeps ==
  ASSUME NEW s, StoreInv(s), NEW delta \in Nat
  PROVE  LET v == [s EXCEPT !.retry = [c \in Coords |-> Elapsed(s.retry[c], delta)]]
         IN StoreInv(v) /\ v.dirty = s.dirty
<1> DEFINE f == [c \in Coords |-> Elapsed(s.retry[c], delta)]
           v == [s EXCEPT !.retry = f]
<1>1. Elapsed(NoRetry, delta) = NoRetry
  BY DEF Elapsed, NoRetry, Retry
<1>2. \A a \in Coords : f[a] = Elapsed(s.retry[a], delta)
  OBVIOUS
<1>a. f = [c \in Coords |-> f[c]]
  OBVIOUS
<1> HIDE DEF f
<1>3. v = [cached |-> s.cached, dirty |-> s.dirty, count |-> s.count, retry |-> f,
           content |-> s.content]
  BY DEF StoreInv, Shape
<1> HIDE DEF v
<1>4. Shape(v)
  BY <1>3, <1>a DEF StoreInv, Shape
<1>5. \A a \in Coords : SettledAt(v, a)
  BY <1>1, <1>2, <1>3 DEF StoreInv, SettledAt
<1> QED
  BY <1>3, <1>4, <1>5 DEF StoreInv, v, f

-----------------------------------------------------------------------------
(* The loops of flush() and pruneBeyond(). *)

\* q visits distinct coordinates of S.
Visits(q, S) ==
  /\ q \in Seq(Coords)
  /\ \A i \in 1 .. Len(q) : q[i] \in S
  /\ \A i, j \in 1 .. Len(q) : q[i] = q[j] => i = j

\* The rest of a loop, when the step took nothing but its own coordinate out of S.
LEMMA TailVisits ==
  ASSUME NEW q, NEW S, Visits(q, S), q # << >>, NEW T, S \ {Head(q)} \subseteq T
  PROVE  Visits(Tail(q), T)
<1>1. q \in Seq(Coords) /\ Len(q) \in Nat /\ Len(q) > 0
  BY DEF Visits
<1>2. Tail(q) \in Seq(Coords) /\ Len(Tail(q)) = Len(q) - 1
  BY <1>1
<1>3. \A i \in 1 .. Len(q) - 1 : Tail(q)[i] = q[i + 1] /\ i + 1 \in 1 .. Len(q) /\ i + 1 # 1
  BY <1>1
<1>4. Head(q) = q[1] /\ 1 \in 1 .. Len(q)
  BY <1>1
<1>5. \A i \in 1 .. Len(q) - 1 : q[i + 1] \in S /\ q[i + 1] # Head(q)
  BY <1>3, <1>4 DEF Visits
<1>6. \A i, j \in 1 .. Len(q) - 1 : q[i + 1] = q[j + 1] => i = j
  <2> TAKE i, j \in 1 .. Len(q) - 1
  <2> HAVE q[i + 1] = q[j + 1]
  <2>1. i + 1 = j + 1
    BY <1>3 DEF Visits
  <2> QED
    BY <2>1
<1> QED
  BY <1>2, <1>3, <1>5, <1>6 DEF Visits

\* A loop over a finite set of coordinates starts with all of them.
LEMMA OrderVisits ==
  ASSUME NEW S \in SUBSET Coords, S # {}, NEW q \in Orders(S)
  PROVE  Visits(q, S) /\ q # << >>
<1>1. IsFiniteSet(S)
  BY ChunkAssumption, FS_Subset
<1>2. Cardinality(S) \in Nat /\ Cardinality(S) # 0
  BY <1>1, FS_CardinalityType, FS_EmptySet
<1> DEFINE n == Cardinality(S)
<1>3. q \in [1 .. n -> S] /\ \A i, j \in DOMAIN q : q[i] = q[j] => i = j
  BY DEF Orders
<1> HIDE DEF n
<1>4. n \in Nat /\ n # 0
  BY <1>2 DEF n
<1>5. q \in Seq(Coords) /\ Len(q) = n
  BY <1>3, <1>4
<1> QED
  BY <1>3, <1>4, <1>5 DEF Visits

-----------------------------------------------------------------------------
(* The inductive invariant. *)

LoopInv(p, q, s) ==
  /\ p \in {"idle", "flush", "prune"}
  /\ p = "flush" => q # << >> /\ Visits(q, s.dirty)
  /\ p = "prune" => q # << >> /\ Visits(q, s.cached)

Inv == StoreInv(store) /\ LoopInv(pc, todo, store) /\ lost = FALSE

\* A call that runs in one step, with no loop under way.
LEMMA IdleKeeps ==
  ASSUME Inv, pc = "idle", StoreInv(store'), UNCHANGED <<pc, todo, lost>>
  PROVE  Inv'
BY DEF Inv, LoopInv

\* Edits and generated chunks (setVoxel, insertGenerated, markDirty, ingest, ensureAround).
LEMMA CallsKeep ==
  ASSUME Inv, NEW c \in Coords,
         EditChunk(c) \/ InsertGenerated(c) \/ MarkDirty(c) \/ Ingest(c) \/ EnsureAround(c)
  PROVE  Inv'
<1> DEFINE t == [store EXCEPT !.cached = @ \cup {c}]
<1>1. StoreInv(store) /\ StoreInv(t) /\ c \in t.cached
  BY CachedFacts DEF Inv
<1>2. CASE EditChunk(c)
  BY <1>2, <1>1, ApplyKeeps, IdleKeeps DEF EditChunk
<1>3. CASE InsertGenerated(c)
  <2>1. store' = Content(SetDirty(t, c, TRUE), c, "local")
    BY <1>3 DEF InsertGenerated
  <2> HIDE DEF t
  <2>2. StoreInv(store')
    BY <2>1, <1>1, DirtiedKeeps
  <2> QED
    BY <1>3, <2>2, IdleKeeps DEF InsertGenerated
<1>4. CASE MarkDirty(c)
  <2>1. StoreInv(store')
    BY <1>4, <1>1, DirtiedKeeps DEF MarkDirty
  <2> QED
    BY <1>4, <2>1, IdleKeeps DEF MarkDirty
<1>5. CASE Ingest(c)
  BY <1>5, <1>1, ApplyKeeps, IdleKeeps DEF Ingest
<1>6. CASE EnsureAround(c)
  <2> DEFINE v == Content(t, c, "saved")
  <2>1. store' = v
    BY <1>6 DEF EnsureAround
  <2> HIDE DEF t
  <2>2. Shape(t) /\ \A a \in Coords : SettledAt(t, a)
    BY <1>1 DEF StoreInv
  <2>3. /\ Shape(v) /\ v.dirty = t.dirty /\ v.retry = t.retry
        /\ v.content = [t.content EXCEPT ![c] = "saved"]
    BY <2>2, ContentFacts
  <2> HIDE DEF v
  <2>4. v.content[c] = "saved" /\ \A a \in Coords : a # c => v.content[a] = t.content[a]
    BY <2>2, <2>3 DEF Shape
  <2>5. \A a \in Coords : SettledAt(v, a)
    BY <2>2, <2>3, <2>4 DEF SettledAt
  <2> QED
    BY <1>6, <2>1, <2>3, <2>5, IdleKeeps DEF StoreInv, EnsureAround
<1> QED
  BY <1>2, <1>3, <1>4, <1>5, <1>6

\* The throttled write-back of a frame (tick).
LEMMA TickKeeps ==
  ASSUME Inv, NEW delta \in Steps, Tick(delta)
  PROVE  Inv'
<1> DEFINE s == [store EXCEPT !.retry = [c \in Coords |-> Elapsed(store.retry[c], delta)]]
<1>1. StoreInv(s)
  BY ElapsedKeeps, ChunkAssumption DEF Inv
<1>2. pc = "idle" /\ UNCHANGED <<pc, todo, lost>>
  BY DEF Tick
<1>3. \/ store' = s
      \/ \E c \in Due(s), o \in Outcomes, undo \in Handler :
           store' = AttemptWriteBack(s, c, o, undo)
  BY DEF Tick
<1> HIDE DEF s
<1>4. StoreInv(store')
  <2>1. CASE store' = s
    BY <2>1, <1>1
  <2>2. CASE \E c \in Due(s), o \in Outcomes, undo \in Handler :
               store' = AttemptWriteBack(s, c, o, undo)
    <3>1. PICK c \in Due(s), o \in Outcomes, undo \in Handler :
            store' = AttemptWriteBack(s, c, o, undo)
      BY <2>2
    <3>2. c \in s.dirty /\ undo \in BOOLEAN
      BY DEF Due, Handler
    <3> QED
      BY <3>1, <3>2, <1>1, AttemptKeeps
  <2> QED
    BY <1>3, <2>1, <2>2
<1> QED
  BY <1>2, <1>4, IdleKeeps

\* flush() starts with the dirty chunks, pruneBeyond() with distant cached ones.
LEMMA BeginKeeps ==
  ASSUME Inv, \/ FlushBegin
              \/ \E distant \in (SUBSET store.cached) \ {{}} : PruneBegin(distant)
  PROVE  Inv'
<1>1. store.dirty \subseteq Coords /\ store.cached \subseteq Coords
  BY DEF Inv, StoreInv, Shape
<1>2. CASE FlushBegin
  <2>1. Visits(todo', store.dirty) /\ todo' # << >>
    BY <1>1, <1>2, OrderVisits DEF FlushBegin
  <2> QED
    BY <1>2, <2>1 DEF FlushBegin, Inv, LoopInv
<1>3. CASE \E distant \in (SUBSET store.cached) \ {{}} : PruneBegin(distant)
  <2>1. PICK distant \in (SUBSET store.cached) \ {{}} : PruneBegin(distant)
    BY <1>3
  <2>a. distant \in SUBSET Coords /\ distant # {}
    BY <1>1
  <2>b. todo' \in Orders(distant) /\ pc' = "prune" /\ UNCHANGED <<store, lost>>
    BY <2>1 DEF PruneBegin
  <2>2. Visits(todo', distant) /\ todo' # << >>
    BY <2>a, <2>b, OrderVisits
  <2>3. Visits(todo', store.cached)
    BY <2>2 DEF Visits
  <2> QED
    BY <2>b, <2>2, <2>3 DEF Inv, LoopInv
<1> QED
  BY <1>2, <1>3

\* The loop has gone on, or ended.
LEMMA VisitedKeeps ==
  ASSUME NEW S, Visits(todo, S), todo # << >>, Visited, NEW T, S \ {Head(todo)} \subseteq T
  PROVE  \/ pc' = "idle"
         \/ pc' = pc /\ todo' # << >> /\ Visits(todo', T)
<1>1. todo \in Seq(Coords) /\ Len(todo) \in Nat /\ Len(todo) # 0
  BY DEF Visits
<1>2. Visits(Tail(todo), T)
  BY TailVisits
<1>a. Len(Tail(todo)) = Len(todo) - 1 /\ Len(<< >>) = 0
  BY <1>1
<1>b. Len(todo) # 1 => Len(Tail(todo)) # 0
  BY <1>1, <1>a
<1>3. Len(todo) # 1 => Tail(todo) # << >>
  BY <1>a, <1>b
<1> QED
  BY <1>2, <1>3 DEF Visited

\* One attempt of flush().
LEMMA FlushKeeps ==
  ASSUME Inv, FlushNext
  PROVE  Inv'
<1>1. pc = "flush" /\ lost' = lost /\ todo # << >> /\ Visits(todo, store.dirty) /\ StoreInv(store)
  BY DEF Inv, LoopInv, FlushNext
<1>2. PICK o \in Outcomes, undo \in Handler :
        /\ store' = AttemptWriteBack(store, Head(todo), o, undo)
        /\ IF Retries(store, Head(todo), o) THEN UNCHANGED <<todo, pc>> ELSE Visited
  BY DEF FlushNext
<1> DEFINE c == Head(todo)
<1>3. c \in store.dirty /\ undo \in BOOLEAN
  <2>1. Head(todo) = todo[1] /\ 1 \in 1 .. Len(todo)
    BY <1>1 DEF Visits
  <2> QED
    BY <2>1, <1>1 DEF Visits, Handler
<1> HIDE DEF c
<1>4. /\ StoreInv(store') /\ store.dirty \ {c} \subseteq store'.dirty
      /\ Retries(store, c, o) => c \in store'.dirty
  BY <1>1, <1>2, <1>3, AttemptKeeps DEF c
<1>5. CASE Retries(store, c, o)
  <2>1. store.dirty \subseteq store'.dirty /\ UNCHANGED <<todo, pc>>
    BY <1>2, <1>4, <1>5 DEF c
  <2> QED
    BY <1>1, <1>4, <2>1 DEF Inv, LoopInv, Visits
<1>6. CASE ~Retries(store, c, o)
  <2>1. Visited
    BY <1>2, <1>6 DEF c
  <2>2. pc' = "idle" \/ (pc' = pc /\ todo' # << >> /\ Visits(todo', store'.dirty))
    BY <1>1, <1>4, <2>1, VisitedKeeps DEF c
  <2> QED
    BY <1>1, <1>4, <2>2 DEF Inv, LoopInv
<1> QED
  BY <1>5, <1>6

\* One chunk of pruneBeyond(): an attempt if it is dirty, and the eviction.
LEMMA PruneKeeps ==
  ASSUME Inv, PruneNext
  PROVE  Inv'
<1> DEFINE c == Head(todo)
<1>1. /\ pc = "prune" /\ lost = FALSE /\ todo # << >> /\ Visits(todo, store.cached)
      /\ StoreInv(store) /\ Visited
  BY DEF Inv, LoopInv, PruneNext
<1>2. PICK o \in Outcomes, undo \in Handler :
        LET t == IF c \in store.dirty THEN AttemptWriteBack(store, c, o, undo) ELSE store
            stays == c \in store.dirty /\ Retries(store, c, o)
        IN /\ store' = IF stays THEN t ELSE Evict(t, c)
           /\ lost' = (lost \/ (~stays /\ t.content[c] = "local"))
  BY DEF PruneNext
<1> DEFINE t == IF c \in store.dirty THEN AttemptWriteBack(store, c, o, undo) ELSE store
           stays == c \in store.dirty /\ Retries(store, c, o)
<1>3. c \in store.cached /\ c \in Coords /\ undo \in BOOLEAN
  <2>1. Head(todo) = todo[1] /\ 1 \in 1 .. Len(todo)
    BY <1>1 DEF Visits
  <2>2. Head(todo) \in store.cached
    BY <2>1, <1>1 DEF Visits
  <2> QED
    BY <2>2, <1>1 DEF StoreInv, Shape, Handler
<1>4. /\ store' = IF stays THEN t ELSE Evict(t, c)
      /\ lost' = (lost \/ (~stays /\ t.content[c] = "local"))
  BY <1>2
<1> HIDE DEF c
<1>5. StoreInv(t) /\ t.cached = store.cached /\ (~stays => t.content[c] # "local")
  <2>1. CASE c \in store.dirty
    BY <2>1, <1>1, <1>3, AttemptKeeps
  <2>2. CASE c \notin store.dirty
    BY <2>2, <1>1, <1>3 DEF StoreInv, SettledAt
  <2> QED
    BY <2>1, <2>2
<1> HIDE DEF t, stays
<1>6. StoreInv(store') /\ store.cached \ {c} \subseteq store'.cached
  BY <1>3, <1>4, <1>5, EvictKeeps
<1>7. lost' = FALSE
  BY <1>1, <1>4, <1>5
<1>8. pc' = "idle" \/ (pc' = pc /\ todo' # << >> /\ Visits(todo', store'.cached))
  BY <1>1, <1>6, VisitedKeeps DEF c
<1> QED
  BY <1>1, <1>6, <1>7, <1>8 DEF Inv, LoopInv

-----------------------------------------------------------------------------

\* The bookkeeping of the write-back is an invariant of every behaviour.
THEOREM BookkeepingInvariant == Spec => []Inv
<1>1. Init => Inv
  <2> SUFFICES ASSUME Init PROVE Inv
    OBVIOUS
  <2>1. /\ store = [cached |-> {}, dirty |-> {}, count |-> 0,
                     retry |-> [c \in Coords |-> NoRetry], content |-> [c \in Coords |-> "saved"]]
        /\ pc = "idle" /\ lost = FALSE
    BY DEF Init
  <2>2. Shape(store)
    BY <2>1, FS_EmptySet DEF Shape
  <2>3. \A c \in Coords : SettledAt(store, c)
    BY <2>1 DEF SettledAt
  <2> QED
    BY <2>1, <2>2, <2>3 DEF Inv, StoreInv, LoopInv
<1>2. Inv /\ [Next /\ UNCHANGED setup]_<<vars, setup>> => Inv'
  <2> SUFFICES ASSUME Inv, [Next]_vars PROVE Inv'
    OBVIOUS
  <2>1. CASE UNCHANGED vars
    BY <2>1 DEF vars, Inv
  <2>2. CASE Next
    BY <2>2, CallsKeep, TickKeeps, BeginKeeps, FlushKeeps, PruneKeeps DEF Next
  <2> QED
    BY <2>1, <2>2
<1> QED
  BY <1>1, <1>2, PTL DEF Spec

\* pendingWriteBacks() is the number of dirty chunks.
THEOREM CounterExact == Spec => []CountAgrees
<1>1. Inv => CountAgrees
  BY DEF Inv, StoreInv, Shape, CountAgrees
<1> QED
  BY <1>1, BookkeepingInvariant, PTL

\* Only dirty chunks have attempts and backoffs (forgetWriteBack).
THEOREM RetryStateOfDirty == Spec => []RetryStateOnlyDirty
<1>1. Inv => RetryStateOnlyDirty
  BY DEF Inv, StoreInv, SettledAt, RetryStateOnlyDirty
<1> QED
  BY <1>1, BookkeepingInvariant, PTL

\* Local content is dirty until it is written, reported or refreshed, and is not evicted
\* before (attemptWriteBack, pruneBeyond).
THEOREM NothingLostSilently == Spec => []NoSilentLoss
<1>1. Inv => NoSilentLoss
  BY DEF Inv, StoreInv, SettledAt, NoSilentLoss
<1> QED
  BY <1>1, BookkeepingInvariant, PTL
=============================================================================
