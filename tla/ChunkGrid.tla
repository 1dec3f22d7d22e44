------------------------------ MODULE ChunkGrid ------------------------------
(***************************************************************************)
(* What one cached chunk holds, and what reading it returns: the dense grid *)
(* of types, the states kept beside it, and the overlay of the voxels the   *)
(* grid cannot hold (a wide type, or a position outside the grid), against  *)
(* what the server has stored: a dense grid and an entry for every edit it  *)
(* recorded.  The chunk is one the server has stored from the start.        *)
(***************************************************************************)
EXTENDS Naturals

CONSTANTS InGrid, OutGrid,  \* positions inside and outside the dense grid
          Bytes, Wide,      \* types inside and outside 0-255; 0 is one of Bytes
          States,           \* non-empty voxel states
          NoState

ASSUME GridAssumption ==
  /\ InGrid \cap OutGrid = {} /\ 0 \in Bytes /\ Bytes \cap Wide = {}
  /\ NoState \notin States

VARIABLES
  voxels,       \* type per position of the grid
  voxelStates,  \* per position of the grid: its state, with the type it came with, or none
  overlay,      \* per position: the voxel kept outside the grid, or none
  stored,       \* the server's dense grid
  entries,      \* the server's voxelStates
  setup         \* the circumstances of this chunk

Refusals == setup.refusals  \* the server may refuse a local edit

vars == <<voxels, voxelStates, overlay, stored, entries>>

Positions == InGrid \cup OutGrid
Voxel == [type : Bytes \cup Wide, state : States \cup {NoState}]
None == [type |-> 0, state |-> "no entry"]

Init ==
  /\ voxels = [p \in InGrid |-> 0] /\ stored = [p \in InGrid |-> 0]
  /\ voxelStates = [p \in InGrid |-> None]
  /\ overlay = [p \in Positions |-> None] /\ entries = [p \in Positions |-> None]
  /\ setup \in [refusals : BOOLEAN]

-----------------------------------------------------------------------------

\* A grid that takes any type at a position inside it.
FitsPosition(p, v) == p \in InGrid

FitsDenseGrid(p, v) == p \in InGrid /\ v.type \in Bytes

\* putVoxel() without the erase of the other place.
PutKeepingOverlay(c, p, v) ==
  IF FitsDenseGrid(p, v)
  THEN [c EXCEPT !.voxels = [@ EXCEPT ![p] = v.type],
                 !.voxelStates = [@ EXCEPT ![p] = IF v.state = NoState THEN None ELSE v]]
  ELSE [voxels |-> IF p \in InGrid THEN [c.voxels EXCEPT ![p] = 0] ELSE c.voxels,
        voxelStates |-> IF p \in InGrid THEN [c.voxelStates EXCEPT ![p] = None] ELSE c.voxelStates,
        overlay |-> [c.overlay EXCEPT ![p] = v]]

\* putVoxel() on a chunk c.
PutVoxel(c, p, v) ==
  IF FitsDenseGrid(p, v)
  THEN [voxels |-> [c.voxels EXCEPT ![p] = v.type],
        voxelStates |-> [c.voxelStates EXCEPT ![p] = IF v.state = NoState THEN None ELSE v],
        overlay |-> [c.overlay EXCEPT ![p] = None]]
  ELSE [voxels |-> IF p \in InGrid THEN [c.voxels EXCEPT ![p] = 0] ELSE c.voxels,
        voxelStates |-> IF p \in InGrid THEN [c.voxelStates EXCEPT ![p] = None] ELSE c.voxelStates,
        overlay |-> [c.overlay EXCEPT ![p] = v]]

Chunk == [voxels |-> voxels, voxelStates |-> voxelStates, overlay |-> overlay]

\* The chunk becomes c.
Becomes(c) == voxels' = c.voxels /\ voxelStates' = c.voxelStates /\ overlay' = c.overlay

\* The overlay's voxel first, else the grid's.
VoxelTypeAt(p) ==
  IF overlay[p] # None THEN overlay[p].type ELSE IF p \in InGrid THEN voxels[p] ELSE 0

VoxelStateAt(p) ==
  IF overlay[p] # None THEN overlay[p].state
  ELSE IF p \in InGrid /\ voxelStates[p] # None THEN voxelStates[p].state ELSE NoState

-----------------------------------------------------------------------------

\* An edit, shown here and recorded by the server: the client's own once it was accepted,
\* or another's.
Edit(p, v) ==
  /\ Becomes(PutVoxel(Chunk, p, v))
  /\ entries' = [entries EXCEPT ![p] = v]
  /\ UNCHANGED stored

\* A local edit the server does not record.
RefusedEdit(p, v) ==
  /\ Refusals
  /\ Becomes(PutVoxel(Chunk, p, v))
  /\ UNCHANGED <<stored, entries>>

\* insertGenerated(): only the grid is replaced.
InsertGenerated(g) ==
  /\ voxels' = g
  /\ UNCHANGED <<voxelStates, overlay, stored, entries>>

\* The write-back of the dense grid.
WriteChunk ==
  /\ stored' = voxels
  /\ UNCHANGED <<voxels, voxelStates, overlay, entries>>

\* A hydration that copies the grid over the entries.
EnsureAroundGridLast ==
  /\ voxels' = stored
  /\ voxelStates' = [p \in InGrid |-> PutVoxel(Chunk, p, entries[p]).voxelStates[p]]
  /\ overlay' = [p \in Positions |->
                  IF entries[p] = None THEN overlay[p] ELSE PutVoxel(Chunk, p, entries[p]).overlay[p]]
  /\ UNCHANGED <<stored, entries>>

\* ensureAround(): the stored grid, and putVoxel() of every entry over it.
EnsureAround ==
  LET c == [Chunk EXCEPT !.voxels = stored]
      Over(p) == IF entries[p] = None THEN c ELSE PutVoxel(c, p, entries[p])
  IN /\ voxels' = [p \in InGrid |-> Over(p).voxels[p]]
     /\ voxelStates' = [p \in InGrid |-> Over(p).voxelStates[p]]
     /\ overlay' = [p \in Positions |-> Over(p).overlay[p]]
     /\ UNCHANGED <<stored, entries>>

Next ==
  \/ \E p \in Positions, v \in Voxel : Edit(p, v) \/ RefusedEdit(p, v)
  \/ \E g \in [InGrid -> Bytes] : InsertGenerated(g)
  \/ WriteChunk \/ EnsureAround

Spec == Init /\ [][Next /\ UNCHANGED setup]_<<vars, setup>>

-----------------------------------------------------------------------------
(* Properties. *)

\* Types of the state; the grid holds bytes only.
TypeOK ==
  /\ voxels \in [InGrid -> Bytes] /\ stored \in [InGrid -> Bytes]
  /\ voxelStates \in [InGrid -> Voxel \cup {None}]
  /\ overlay \in [Positions -> Voxel \cup {None}] /\ entries \in [Positions -> Voxel \cup {None}]

\* An edit is what reading its voxel returns, whichever place it moved from and to, and
\* no other voxel reads differently (putVoxel, voxelTypeAt, voxelStateAt).
ReadsBack ==
  [][\A p \in Positions, v \in Voxel :
       Edit(p, v) =>
         /\ VoxelTypeAt(p)' = v.type /\ VoxelStateAt(p)' = v.state
         /\ \A q \in Positions \ {p} :
              VoxelTypeAt(q)' = VoxelTypeAt(q) /\ VoxelStateAt(q)' = VoxelStateAt(q)]_vars

StoredType(p) ==
  IF entries[p] # None THEN entries[p].type ELSE IF p \in InGrid THEN stored[p] ELSE 0
StoredState(p) == IF entries[p] # None THEN entries[p].state ELSE NoState

\* "Coordinates already cached are refreshed": after ensureAround() every voxel reads as
\* the server has it, if the server has recorded every edit shown here.
Refreshed ==
  [][~Refusals /\ EnsureAround => \A p \in Positions :
       VoxelTypeAt(p)' = StoredType(p) /\ VoxelStateAt(p)' = StoredState(p)]_vars
=============================================================================
