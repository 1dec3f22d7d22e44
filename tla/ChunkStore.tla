----------------------------- MODULE ChunkStore -----------------------------
(***************************************************************************)
(* The durable write-back of ChunkStore: which cached chunks are dirty, the *)
(* attempts and backoffs of their writes, and the callers that attempt one: *)
(* tick(), flush() and pruneBeyond().  Everything runs on the game thread;  *)
(* flush() and pruneBeyond() attempt several writes, and a handler of       *)
(* onWriteBackFailed may edit the chunk again inside an attempt.            *)
(*                                                                          *)
(* Time is relative to the last tick: due is what is left of a backoff,     *)
(* since what has passed after the last attempt of tick(), at most          *)
(* Interval.  A durable store is attached and write-back is on.  What a     *)
(* voxel holds is in VoxelEcho and ChunkGrid; here a chunk's content is     *)
(* saved, local or dropped.                                                *)
(***************************************************************************)
EXTENDS Naturals, FiniteSets, Sequences

CONSTANTS Coords,
          Interval,   \* writeBackIntervalMs
          Attempts,   \* writeBackAttempts
          Backoff,    \* writeBackBackoffMs
          Steps,      \* time between two ticks
          Outcomes,   \* answers of writeChunk that occur
          MaxEdits    \* bound: local edits

ASSUME ChunkAssumption ==
  /\ IsFiniteSet(Coords)
  /\ Interval \in Nat \ {0} /\ Attempts \in Nat \ {0} /\ Backoff \in Nat
  /\ Steps \subseteq Nat \ {0} /\ MaxEdits \in Nat

VARIABLES
  store,       \* what ChunkStore holds, a record: see Init
  since,       \* time since lastWriteBackMs_, at most Interval
  pc, todo,    \* idle, or the loop that runs and the coordinates it still has to visit
  edits,       \* local edits so far
  lost,        \* history: local content gone unseen
  setup        \* how the game uses the store

Undo == setup.undo  \* the onWriteBackFailed handler may undo the edit

vars == <<store, since, pc, todo, edits, lost>>

\* The entries of writeBackAttempts_ and writeBackDueAt_.
Retry(attempts, due) == [attempts |-> attempts, due |-> due]
NoRetry == Retry(0, 0)

Init ==
  /\ store = [cached |-> {}, dirty |-> {}, count |-> 0, retry |-> [c \in Coords |-> NoRetry],
              content |-> [c \in Coords |-> "saved"]]
  /\ since = 0 /\ pc = "idle" /\ todo = << >> /\ edits = 0
  /\ lost = FALSE
  /\ setup \in [undo : BOOLEAN]

-----------------------------------------------------------------------------
(* What the private functions do to a store s. *)

SetDirty(s, c, dirty) ==
  IF (c \in s.dirty) = dirty THEN s
  ELSE IF dirty THEN [s EXCEPT !.dirty = @ \cup {c}, !.count = @ + 1]
  ELSE [s EXCEPT !.dirty = @ \ {c}, !.count = @ - 1]

SetRetry(s, c, r) == [s EXCEPT !.retry = [s.retry EXCEPT ![c] = r]]
ForgetWriteBack(s, c) == SetRetry(s, c, NoRetry)

Content(s, c, k) == [s EXCEPT !.content = [s.content EXCEPT ![c] = k]]

\* applyLocal() of a local edit, and of an inbound one.
ApplyLocal(s, c, markDirty) ==
  LET t == [s EXCEPT !.cached = @ \cup {c}]
  IN IF markDirty THEN Content(SetDirty(t, c, TRUE), c, "local") ELSE t

\* A GraphQL error that a write sent again unchanged would meet again.
Refusal(e) ==
  /\ e.code \notin {"PLATFORM_BUSY", "UNAUTHENTICATED"}
  /\ ~e.retryable \/ e.code = "refusal" \/ e.status = "refusal"

WriteBackRetryable(o) ==
  CASE o.kind \in {"Network", "Timeout", "Protocol", "None"} -> TRUE
    [] o.kind = "Http" -> o.status # "refusal"
    [] o.kind = "Cancelled" -> FALSE
    [] o.kind = "GraphQL" -> \A e \in o.errors : ~Refusal(e)

WriteOk(o) == o.kind = "ok"

\* One attempt too many.
RetriesLate(s, c, o) ==
  ~WriteOk(o) /\ WriteBackRetryable(o) /\ s.retry[c].attempts < Attempts

\* Whether an attempt ends in WriteBack::Retry.
Retries(s, c, o) ==
  ~WriteOk(o) /\ WriteBackRetryable(o) /\ s.retry[c].attempts + 1 < Attempts

\* An attempt that leaves the backoff of a settled write behind.
AttemptForgetful(s, c, o, undo) ==
  IF WriteOk(o) THEN Content(SetDirty(s, c, FALSE), c, "saved")
  ELSE IF Retries(s, c, o)
  THEN SetRetry(s, c, Retry(s.retry[c].attempts + 1, Backoff * 2 ^ s.retry[c].attempts))
  ELSE LET t == Content(SetDirty(ForgetWriteBack(s, c), c, FALSE), c, "dropped")
       IN IF undo THEN Content(ApplyLocal(t, c, TRUE), c, "saved") ELSE t

\* An attempt that is not counted.
AttemptUncounted(s, c, o, undo) ==
  IF WriteOk(o) THEN Content(SetDirty(ForgetWriteBack(s, c), c, FALSE), c, "saved")
  ELSE IF Retries(s, c, o) THEN SetRetry(s, c, Retry(s.retry[c].attempts, Backoff))
  ELSE Content(SetDirty(ForgetWriteBack(s, c), c, FALSE), c, "dropped")

\* attemptWriteBack().  The handler of a dropped write may put the chunk back to what the
\* server has, with an edit that makes it dirty again.
AttemptWriteBack(s, c, o, undo) ==
  IF WriteOk(o) THEN Content(SetDirty(ForgetWriteBack(s, c), c, FALSE), c, "saved")
  ELSE IF Retries(s, c, o)
  THEN SetRetry(s, c, Retry(s.retry[c].attempts + 1, Backoff * 2 ^ s.retry[c].attempts))
  ELSE LET t == Content(SetDirty(ForgetWriteBack(s, c), c, FALSE), c, "dropped")
       IN IF undo THEN Content(ApplyLocal(t, c, TRUE), c, "saved") ELSE t

\* An eviction that does not count the chunk out.
EvictUncounted(s, c) ==
  LET t == ForgetWriteBack(s, c)
  IN Content([t EXCEPT !.cached = @ \ {c}, !.dirty = @ \ {c}], c, "saved")

Evict(s, c) ==
  LET t == ForgetWriteBack(SetDirty(s, c, FALSE), c)
  IN Content([t EXCEPT !.cached = @ \ {c}], c, "saved")

Handler == IF Undo THEN BOOLEAN ELSE {FALSE}

-----------------------------------------------------------------------------
(* Calls of the game. *)

\* setVoxel() with optimistic, insertGenerated() and markDirty(): the chunk is to be saved.
EditChunk(c) ==
  /\ pc = "idle" /\ edits < MaxEdits
  /\ store' = ApplyLocal(store, c, TRUE) /\ edits' = edits + 1
  /\ UNCHANGED <<since, pc, todo, lost>>

InsertGenerated(c) ==
  /\ pc = "idle" /\ edits < MaxEdits
  /\ store' = Content(SetDirty([store EXCEPT !.cached = @ \cup {c}], c, TRUE), c, "local")
  /\ edits' = edits + 1
  /\ UNCHANGED <<since, pc, todo, lost>>

MarkDirty(c) ==
  /\ pc = "idle" /\ edits < MaxEdits /\ c \in store.cached \ store.dirty
  /\ store' = Content(SetDirty(store, c, TRUE), c, "local")
  /\ edits' = edits + 1
  /\ UNCHANGED <<since, pc, todo, lost>>

\* ingest() of another client's edit, which the server has recorded.
Ingest(c) ==
  /\ pc = "idle"
  /\ store' = ApplyLocal(store, c, FALSE)
  /\ UNCHANGED <<since, pc, todo, edits, lost>>

\* ensureAround() replaces the content by what the server has, a dirty chunk's too; a dirty
\* chunk stays dirty.
EnsureAround(c) ==
  /\ pc = "idle"
  /\ store' = Content([store EXCEPT !.cached = @ \cup {c}], c, "saved")
  /\ UNCHANGED <<since, pc, todo, edits, lost>>

Elapsed(r, delta) == Retry(r.attempts, IF r.due > delta THEN r.due - delta ELSE 0)

\* The dirty chunks that tick() may attempt.
Due(s) == {c \in s.dirty : s.retry[c].due = 0}

\* At most one attempt per interval, of the first dirty chunk in the map that is due.
Tick(delta) ==
  LET s == [store EXCEPT !.retry = [c \in Coords |-> Elapsed(store.retry[c], delta)]]
  IN /\ pc = "idle"
     /\ \/ /\ since + delta < Interval \/ Due(s) = {}
           /\ store' = s
           /\ since' = IF since + delta < Interval THEN since + delta ELSE Interval
        \/ /\ since + delta >= Interval
           /\ \E c \in Due(s), o \in Outcomes, undo \in Handler :
                store' = AttemptWriteBack(s, c, o, undo)
           /\ since' = 0
     /\ UNCHANGED <<pc, todo, edits, lost>>

\* The order in which a loop meets the coordinates of S.
Orders(S) ==
  {q \in [1 .. Cardinality(S) -> S] : \A i, j \in DOMAIN q : q[i] = q[j] => i = j}

FlushBegin ==
  /\ pc = "idle" /\ store.dirty # {}
  /\ pc' = "flush" /\ todo' \in Orders(store.dirty)
  /\ UNCHANGED <<store, since, edits, lost>>

\* The loop goes on with the next coordinate, or has ended.
Visited == todo' = Tail(todo) /\ pc' = IF Len(todo) = 1 THEN "idle" ELSE pc

\* A flush that gives every chunk one attempt.
FlushOnce ==
  /\ pc = "flush"
  /\ \E o \in Outcomes, undo \in Handler :
       store' = AttemptWriteBack(store, Head(todo), o, undo)
  /\ Visited
  /\ UNCHANGED <<since, edits, lost>>

\* flush() waits out a backoff and stays with a chunk until it is written or dropped.
FlushNext ==
  /\ pc = "flush"
  /\ \E o \in Outcomes, undo \in Handler :
       /\ store' = AttemptWriteBack(store, Head(todo), o, undo)
       /\ IF Retries(store, Head(todo), o) THEN UNCHANGED <<todo, pc>> ELSE Visited
  /\ UNCHANGED <<since, edits, lost>>

PruneBegin(distant) ==
  /\ pc = "idle"
  /\ pc' = "prune" /\ todo' \in Orders(distant)
  /\ UNCHANGED <<store, since, edits, lost>>

\* A prune that evicts whatever the attempt came to.
PruneHasty ==
  /\ pc = "prune"
  /\ \E o \in Outcomes, undo \in Handler :
       LET c == Head(todo)
           t == IF c \in store.dirty THEN AttemptWriteBack(store, c, o, undo) ELSE store
       IN store' = Evict(t, c) /\ lost' = (lost \/ t.content[c] = "local")
  /\ Visited
  /\ UNCHANGED <<since, edits>>

\* A dirty chunk gets one attempt and stays when that can be repeated; the rest is evicted.
PruneNext ==
  /\ pc = "prune"
  /\ \E o \in Outcomes, undo \in Handler :
       LET c == Head(todo)
           dirty == c \in store.dirty
           t == IF dirty THEN AttemptWriteBack(store, c, o, undo) ELSE store
           stays == dirty /\ Retries(store, c, o)
       IN /\ store' = IF stays THEN t ELSE Evict(t, c)
          /\ lost' = (lost \/ (~stays /\ t.content[c] = "local"))
  /\ Visited
  /\ UNCHANGED <<since, edits>>

Next ==
  \/ \E c \in Coords : EditChunk(c) \/ InsertGenerated(c) \/ MarkDirty(c) \/ Ingest(c) \/ EnsureAround(c)
  \/ \E delta \in Steps : Tick(delta)
  \/ FlushBegin \/ FlushNext \/ PruneNext
  \/ \E distant \in (SUBSET store.cached) \ {{}} : PruneBegin(distant)

Spec == Init /\ [][Next /\ UNCHANGED setup]_<<vars, setup>>

\* The game calls tick() once a frame, whatever else it does in that frame, and the loops
\* of flush() and pruneBeyond() run on.
FairSpec ==
  /\ Spec /\ WF_vars(FlushNext \/ PruneNext)
  /\ SF_vars(\E delta \in Steps : Tick(delta))

-----------------------------------------------------------------------------
(* Properties. *)

\* Types of the state.
TypeOK ==
  /\ store.cached \subseteq Coords /\ store.dirty \subseteq store.cached
  /\ store.count \in Nat /\ store.retry \in [Coords -> [attempts : 0 .. Attempts - 1, due : Nat]]
  /\ store.content \in [Coords -> {"saved", "local", "dropped"}]
  /\ since \in 0 .. Interval /\ edits \in 0 .. MaxEdits
  /\ pc \in {"idle", "flush", "prune"} /\ todo \in Seq(Coords) /\ (pc = "idle") = (todo = << >>)
  /\ lost \in BOOLEAN

\* pendingWriteBacks() is the number of dirty chunks, after any mixture of edits, drops,
\* undos and evictions.
CountAgrees == store.count = Cardinality(store.dirty)

\* Only a dirty chunk has attempts and a backoff to its name: a chunk that was written,
\* dropped or evicted starts over when it is edited again (forgetWriteBack).
RetryStateOnlyDirty ==
  \A c \in Coords : store.retry[c] # NoRetry => c \in store.dirty

\* Local content stays dirty until it is written, its loss was reported or ensureAround()
\* has refreshed the chunk, and is not evicted before (attemptWriteBack, pruneBeyond).
NoSilentLoss == ~lost /\ \A c \in Coords : store.content[c] = "local" => c \in store.dirty

\* "Persist every dirty chunk now (ignoring the write-back throttle)": unless a handler
\* edits chunks again, flush() leaves no dirty chunk behind.
FlushSettles == [][~Undo /\ pc = "flush" /\ pc' = "idle" => store'.dirty = {}]_vars

\* Unless handlers edit them again, every dirty chunk is written, dropped or evicted in the
\* end, whatever the fate of the others: the throttle, the backoffs and the choice of the
\* first due chunk starve none (tick).
DirtySettles == \A c \in Coords : (~Undo /\ c \in store.dirty) ~> c \notin store.dirty
=============================================================================
