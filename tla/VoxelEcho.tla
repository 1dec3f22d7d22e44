------------------------------ MODULE VoxelEcho ------------------------------
(***************************************************************************)
(* The echoes of ChunkStore::setVoxel: one voxel, the clients that edit it  *)
(* and the server that orders their edits and delivers each to everybody,   *)
(* its sender included.  A client shows its edit at once and remembers it    *)
(* until the echo; ingest() decides whether an inbound edit is applied.      *)
(*                                                                          *)
(* Edits are numbered in the order they are made; who made it and its number *)
(* stand for the voxel's new content and for the uuid and sequence number.   *)
(* A behaviour has one setup: what may go wrong on the way (faults), how     *)
(* setVoxel is called (modes) and how many edits are made (maxEdits).        *)
(***************************************************************************)
EXTENDS Naturals, Sequences

CONSTANTS Clients,
          Setups

FaultKinds == {"unsent", "refuse", "lose", "reorder", "duplicate", "expire", "hydrate"}

ASSUME EchoAssumption ==
  Setups \subseteq [faults : SUBSET FaultKinds, modes : SUBSET BOOLEAN, maxEdits : Nat]

VARIABLES
  cache,     \* per client, the content shown
  pending,   \* per client, pending_: its edits not echoed yet, oldest first
  up, down,  \* per client, edits under way to the server, and from it
  world,     \* the content after the edits the server has accepted
  edits,     \* how many edits were made
  accepted,  \* history: the edits the server accepted
  setup      \* which of the setups this is

Faults == setup.faults
Modes == setup.modes        \* values of setVoxel's argument optimistic that are used
MaxEdits == setup.maxEdits  \* bound: edits made in all

vars == <<cache, pending, up, down, world, edits, accepted>>

NoEdit == [by |-> "none", n |-> 0]
Edit(c) == [by |-> c, n |-> edits + 1]

Init ==
  /\ cache = [c \in Clients |-> NoEdit] /\ world = NoEdit
  /\ pending = [c \in Clients |-> << >>]
  /\ up = [c \in Clients |-> << >>] /\ down = [c \in Clients |-> << >>]
  /\ edits = 0 /\ accepted = {} /\ setup \in Setups

-----------------------------------------------------------------------------

Without(s, k) == [j \in 1 .. Len(s) - 1 |-> IF j < k THEN s[j] ELSE s[j + 1]]

\* Which of the messages under way may arrive next.
Arrivals(s) == {k \in 1 .. Len(s) : k = 1 \/ "reorder" \in Faults}

\* An edit whose pending entry does not say that nothing was applied yet.
RememberFresh(e, optimistic) == [edit |-> e, stale |-> FALSE]

\* An entry under the number the next send will have.
RememberNext(e, optimistic) == [edit |-> [by |-> e.by, n |-> e.n + 1], stale |-> ~optimistic]

\* The pending entry of an edit: an echo still has to be applied when nothing was.
RememberEdit(e, optimistic) == [edit |-> e, stale |-> ~optimistic]

SetVoxel(c, optimistic) ==
  /\ edits < MaxEdits
  /\ edits' = edits + 1
  /\ cache' = IF optimistic THEN [cache EXCEPT ![c] = Edit(c)] ELSE cache
  /\ up' = [up EXCEPT ![c] = Append(@, Edit(c))]
  /\ pending' = [pending EXCEPT ![c] = Append(@, RememberEdit(Edit(c), optimistic))]
  /\ UNCHANGED <<down, world, accepted>>

\* A setVoxel that shows the edit although it was asked not to.
SetVoxelShown(c, optimistic) ==
  /\ "unsent" \in Faults /\ edits < MaxEdits
  /\ edits' = edits + 1
  /\ cache' = [cache EXCEPT ![c] = Edit(c)]
  /\ UNCHANGED <<pending, up, down, world, accepted>>

\* sendVoxelUpdate fails: what was applied stays, nothing is remembered.
SetVoxelUnsent(c, optimistic) ==
  /\ "unsent" \in Faults /\ edits < MaxEdits
  /\ edits' = edits + 1
  /\ cache' = IF optimistic THEN [cache EXCEPT ![c] = Edit(c)] ELSE cache
  /\ UNCHANGED <<pending, up, down, world, accepted>>

\* takeEcho() finds the edit by uuid and sequence.
Echoed(c, e) == {k \in 1 .. Len(pending[c]) : pending[c][k].edit = e}

\* Echoes are never applied.
MergeSkipping(c, e) ==
  LET hits == Echoed(c, e)
      k == CHOOSE h \in hits : TRUE
  IN IF hits = {}
     THEN /\ cache' = [cache EXCEPT ![c] = e]
          /\ pending' = [pending EXCEPT ![c] =
               [j \in 1 .. Len(@) |-> [edit |-> @[j].edit, stale |-> TRUE]]]
     ELSE pending' = [pending EXCEPT ![c] = Without(@, k)] /\ UNCHANGED cache

\* A newer edit counts only while it is shown.
MergeOverHidden(c, e) ==
  LET hits == Echoed(c, e)
      k == CHOOSE h \in hits : TRUE
      newest == pending[c][Len(pending[c])]
  IN IF hits = {}
     THEN /\ cache' = [cache EXCEPT ![c] = e]
          /\ pending' = [pending EXCEPT ![c] =
               [j \in 1 .. Len(@) |-> [edit |-> @[j].edit, stale |-> TRUE]]]
     ELSE /\ pending' = [pending EXCEPT ![c] = Without(@, k)]
          /\ cache' = IF pending[c][k].stale /\ newest.stale
                      THEN [cache EXCEPT ![c] = e] ELSE cache

\* ingest(): another's edit is applied and makes the pending ones stale; the echo of an own
\* one is applied when it is stale and no newer one is pending.
Merge(c, e) ==
  LET hits == Echoed(c, e)
      k == CHOOSE h \in hits : TRUE
  IN IF hits = {}
     THEN /\ cache' = [cache EXCEPT ![c] = e]
          /\ pending' = [pending EXCEPT ![c] =
               [j \in 1 .. Len(@) |-> [edit |-> @[j].edit, stale |-> TRUE]]]
     ELSE /\ pending' = [pending EXCEPT ![c] = Without(@, k)]
          /\ cache' = IF pending[c][k].stale /\ k = Len(pending[c])
                      THEN [cache EXCEPT ![c] = e] ELSE cache

Ingest(c, k) ==
  /\ k \in Arrivals(down[c])
  /\ Merge(c, down[c][k])
  /\ \/ down' = [down EXCEPT ![c] = Without(@, k)]
     \/ "duplicate" \in Faults /\ UNCHANGED down
  /\ UNCHANGED <<up, world, edits, accepted>>

\* livePending() forgets the oldest edits once kPendingEditTtlMs is over.
Expire(c) ==
  /\ "expire" \in Faults /\ pending[c] # << >>
  /\ pending' = [pending EXCEPT ![c] = Without(@, 1)]
  /\ UNCHANGED <<cache, up, down, world, edits, accepted>>

\* ensureAround() puts the stored content over the cached one; pending edits stay as they are.
Hydrate(c) ==
  /\ "hydrate" \in Faults
  /\ cache' = [cache EXCEPT ![c] = world]
  /\ UNCHANGED <<pending, up, down, world, edits, accepted>>

\* The server: an accepted edit is the voxel's new content and goes to everybody.
Accept(c, k) ==
  /\ k \in Arrivals(up[c])
  /\ world' = up[c][k] /\ accepted' = accepted \cup {up[c][k]}
  /\ up' = [up EXCEPT ![c] = Without(@, k)]
  /\ down' = [d \in Clients |-> Append(down[d], up[c][k])]
  /\ UNCHANGED <<cache, pending, edits>>

\* An edit is refused, or lost on its way.
Refuse(c, k) ==
  /\ "refuse" \in Faults /\ k \in Arrivals(up[c])
  /\ up' = [up EXCEPT ![c] = Without(@, k)]
  /\ UNCHANGED <<cache, pending, down, world, edits, accepted>>

Lose(c, k) ==
  /\ "lose" \in Faults /\ k \in Arrivals(down[c])
  /\ down' = [down EXCEPT ![c] = Without(@, k)]
  /\ UNCHANGED <<cache, pending, up, world, edits, accepted>>

Next ==
  \E c \in Clients :
    \/ \E o \in Modes : SetVoxel(c, o) \/ SetVoxelUnsent(c, o)
    \/ Expire(c) \/ Hydrate(c)
    \/ \E k \in 1 .. Len(up[c]) : Accept(c, k) \/ Refuse(c, k)
    \/ \E k \in 1 .. Len(down[c]) : Ingest(c, k) \/ Lose(c, k)

Spec == Init /\ [][Next /\ UNCHANGED setup]_<<vars, setup>>

-----------------------------------------------------------------------------
(* Properties. *)

Made == [by : Clients, n : 1 .. edits]

\* Types of the state.
TypeOK ==
  /\ edits \in 0 .. MaxEdits /\ accepted \subseteq Made
  /\ cache \in [Clients -> Made \cup {NoEdit}] /\ world \in Made \cup {NoEdit}
  /\ pending \in [Clients -> Seq([edit : Made, stale : BOOLEAN])]
  /\ up \in [Clients -> Seq(Made)] /\ down \in [Clients -> Seq(Made)]

Quiet == \A c \in Clients : up[c] = << >> /\ down[c] = << >>

\* Once nothing is under way every client shows what the server holds, whatever the order
\* in which the edits were made, accepted and delivered and although the server's last
\* word may be an echo that takeEcho() skips; pending edits may expire at any time.
Converged ==
  Faults \subseteq {"expire"} => (Quiet => \A c \in Clients : cache[c] = world)

\* While the newest edit of a client waits for its echo and no other edit came in between,
\* the client shows it or a newer one of its own: the echoes of its earlier edits do not
\* take it back (takeEcho's newerLocalEdit), whatever was lost, refused, unsent, reordered,
\* repeated or expired.  (A hydration shows older content.)
OwnEditShown ==
  \A c \in Clients :
    LET p == pending[c] IN
    "hydrate" \notin Faults /\ p # << >> /\ ~p[Len(p)].stale =>
      cache[c].n >= p[Len(p)].edit.n /\ cache[c].by = c

\* "The echo of this client's own setVoxel is not applied again, and never over a newer
\* local edit of the same voxel." (ingest)  An echo that comes twice, or after its edit
\* has expired, passes for another client's edit.
NeverOverNewer ==
  [][\A c \in Clients :
       /\ Faults \cap {"expire", "duplicate"} = {}
       /\ edits' = edits /\ cache'[c] # cache[c] /\ cache'[c].by = c
       => \A j \in 1 .. Len(pending[c]) : pending[c][j].edit.n <= cache'[c].n]_vars

\* A client that edits with optimistic false only "holds only what the server accepted",
\* as the README has it, whatever is lost, refused, repeated or late.
OnlyAccepted ==
  TRUE \notin Modes => \A c \in Clients : cache[c] \in accepted \cup {NoEdit}

\* A client whose edit is the last one accepted shows it once its echo has arrived.  Of
\* optimistic false the README says that it "applies the edit when its echo arrives
\* instead"; of the others PendingEdit says that when another content arrived since, "the
\* echo must be applied".
AcceptedShown ==
  Quiet => \A c \in Clients : world.by = c => cache[c] = world
=============================================================================
