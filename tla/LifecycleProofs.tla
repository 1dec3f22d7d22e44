--------------------------- MODULE LifecycleProofs ---------------------------
(***************************************************************************)
(* What Lifecycle keeps for any number of tokens, requests and refreshes,  *)
(* when the Connection owns its network thread, the game starts no second  *)
(* refresh before the first has ended, and the Game API answers usable ids.*)
(***************************************************************************)
EXTENDS Lifecycle, TLAPS

\* The network thread is out of housekeeping unless it lives.
ThreadInv == thread # "alive" => npc = "top"

\* Between storing a refreshed bearer and installing its key: the key is the bearer's,
\* and a server that was said to be told of it is the one the socket leads to.
FreshInv ==
  npc = "install" => /\ fresh.token = bearer
                     /\ (fresh.authorized /\ open /\ ~aborted) => fresh.token \in known

\* A server that was just assigned was told of the bearer.
AssignInv ==
  /\ npc = "open" => picked = {bearer}
  /\ (gpc = "open" /\ thread = "none") => chosen = {bearer}

\* A refresh is outstanding only on a quiesced connection, one at a time, and what it
\* would roll back to agrees.
RefreshInv ==
  /\ Outstanding => thread = "none" /\ ~open /\ gpc \in {"idle", "join"}
  /\ (gpc = "join" /\ caller # Game) => ~Outstanding
  /\ \A c, d \in Calls : (refresh[c].asked /\ refresh[d].asked) => c = d
  /\ \A c \in Calls : refresh[c].asked => refresh[c].oldNative = refresh[c].oldBearer

\* A connect() under way has left Closed behind.
GameInv == gpc \in {"assign", "open"} => state # "Closed"

SessionInv ==
  /\ CredentialsAgree /\ NeverMute /\ ClosedIsQuiet
  /\ ThreadInv /\ FreshInv /\ AssignInv /\ RefreshInv /\ GameInv

\* Rediscovery inside assignServer() leaves the request flag a flag.
LEMMA MoveTypes == requested \in BOOLEAN /\ MayMove => requested' \in BOOLEAN
BY Zenon DEF MayMove

\* A step keeps the types, in every mode.
LEMMA TypeStep == TypeOK /\ [Next /\ UNCHANGED setup]_<<vars, setup>> => TypeOK'
PROOF
  <1> SUFFICES ASSUME TypeOK, [Next]_vars PROVE TypeOK'
    BY Zenon
  <1>1. CASE HkReady
    BY <1>1, LifecycleAssumption DEF HkReady, TypeOK, ConnStates, Tokens, Refreshes, NoRefresh, NoFresh,
         ConnectEnter, netVars, gameVars, credentials, counters
  <1>2. CASE HkTokenKept
    BY <1>2, LifecycleAssumption DEF HkTokenKept, TypeOK, ConnStates, Tokens, Refreshes, NoRefresh, NoFresh,
         ConnectEnter, netVars, gameVars, credentials, counters
  <1>3. CASE HkTokenMinted
    BY <1>3, LifecycleAssumption DEF HkTokenMinted, TypeOK, ConnStates, Tokens, Refreshes, NoRefresh, NoFresh,
         ConnectEnter, netVars, gameVars, credentials, counters
  <1>4. CASE HkTokenInstalled
    BY <1>4, LifecycleAssumption DEF HkTokenInstalled, TypeOK, ConnStates, Tokens, Refreshes, NoRefresh, NoFresh,
         ConnectEnter, netVars, gameVars, credentials, counters
  <1>5. CASE HkTokenRefused
    BY <1>5, LifecycleAssumption DEF HkTokenRefused, TypeOK, ConnStates, Tokens, Refreshes, NoRefresh, NoFresh,
         ConnectEnter, netVars, gameVars, credentials, counters
  <1>6. CASE HkNothingAsked
    BY <1>6, LifecycleAssumption DEF HkNothingAsked, TypeOK, ConnStates, Tokens, Refreshes, NoRefresh, NoFresh,
         ConnectEnter, netVars, gameVars, credentials, counters
  <1>7. CASE HkReassign
    BY <1>7, LifecycleAssumption DEF HkReassign, TypeOK, ConnStates, Tokens, Refreshes, NoRefresh, NoFresh,
         ConnectEnter, netVars, gameVars, credentials, counters
  <1>8. CASE HkAssigned
    <2>1. requested' \in BOOLEAN
      BY <1>8, MoveTypes DEF HkAssigned, TypeOK
    <2> QED
      BY <1>8, <2>1 DEF HkAssigned, TypeOK, ConnStates, Tokens, netVars, gameVars, credentials, counters
  <1>9. CASE HkAssignFailed
    <2>1. requested' \in BOOLEAN
      BY <1>9, MoveTypes DEF HkAssignFailed, TypeOK
    <2> QED
      BY <1>9, <2>1 DEF HkAssignFailed, TypeOK, ConnStates, Tokens, netVars, gameVars, credentials, counters
  <1>10. CASE HkOpened
    BY <1>10, LifecycleAssumption DEF HkOpened, TypeOK, ConnStates, Tokens, Refreshes, NoRefresh, NoFresh,
         ConnectEnter, netVars, gameVars, credentials, counters
  <1>11. CASE NetLoop
    BY <1>11, LifecycleAssumption DEF NetLoop, TypeOK, ConnStates, Tokens, Refreshes, NoRefresh, NoFresh,
         ConnectEnter, netVars, gameVars, credentials, counters
  <1>12. CASE Watchdog
    BY <1>12, LifecycleAssumption DEF Watchdog, TypeOK, ConnStates, Tokens, Refreshes, NoRefresh, NoFresh,
         ConnectEnter, netVars, gameVars, credentials, counters
  <1>13. CASE RequestReassignment
    BY <1>13, LifecycleAssumption DEF RequestReassignment, TypeOK, ConnStates, Tokens, Refreshes, NoRefresh, NoFresh,
         ConnectEnter, netVars, gameVars, credentials, counters
  <1>14. CASE Connect
    BY <1>14, LifecycleAssumption DEF Connect, TypeOK, ConnStates, Tokens, Refreshes, NoRefresh, NoFresh,
         ConnectEnter, netVars, gameVars, credentials, counters
  <1>15. CASE ConnectAssigned
    <2>1. requested' \in BOOLEAN
      BY <1>15, MoveTypes DEF ConnectAssigned, TypeOK
    <2> QED
      BY <1>15, <2>1 DEF ConnectAssigned, TypeOK, ConnStates, Tokens, netVars, gameVars, credentials, counters
  <1>16. CASE ConnectFailed
    <2>1. requested' \in BOOLEAN
      BY <1>16, MoveTypes DEF ConnectFailed, TypeOK
    <2> QED
      BY <1>16, <2>1 DEF ConnectFailed, TypeOK, ConnStates, Tokens, netVars, gameVars, credentials, counters
  <1>17. CASE ConnectOpened
    <2>1. /\ known' \in SUBSET Tokens /\ chosen' \in SUBSET Tokens /\ gpc' = "idle" /\ open' = TRUE
      BY <1>17 DEF ConnectOpened, TypeOK
    <2>2. /\ running' \in BOOLEAN /\ aborted' \in BOOLEAN
          /\ thread' \in {"none", "alive", "dead"}
          /\ npc' \in {"top", "token", "install", "watch", "assign", "open", "loop"}
      BY <1>17, Zenon DEF ConnectOpened, TypeOK
    <2> QED
      BY <1>17, <2>1, <2>2 DEF ConnectOpened, TypeOK, credentials, counters
  <1>18. CASE Disconnect
    BY <1>18 DEF Disconnect, TypeOK, netVars, credentials, counters
  <1>19. CASE Disconnected
    <2>1. refresh' \in [Calls -> Refreshes]
      <3>1. CASE caller = Game
        BY <1>19, <3>1 DEF Disconnected, TypeOK
      <3>2. CASE caller # Game
        <4>1. caller \in Calls
          BY <3>2 DEF TypeOK
        <4>2. native \in Tokens /\ bearer \in Tokens /\ refresh \in [Calls -> Refreshes]
          BY DEF TypeOK
        <4>3. refresh[caller].reconnect \in BOOLEAN
          BY <4>1, <4>2 DEF Refreshes
        <4>4. refresh' = [refresh EXCEPT ![caller] = [asked |-> TRUE,
                            reconnect |-> refresh[caller].reconnect,
                            oldNative |-> native, oldBearer |-> bearer]]
          BY <1>19, <3>2, <4>1, <4>2 DEF Disconnected
        <4> QED
          BY <4>1, <4>2, <4>3, <4>4 DEF Refreshes
      <3> QED
        BY <3>1, <3>2
    <2> QED
      BY <1>19, <2>1 DEF Disconnected, TypeOK, ConnStates, netVars, credentials, counters
  <1>20. ASSUME NEW c \in Calls, RefreshBegin(c) PROVE TypeOK'
    <2>1. refresh' \in [Calls -> Refreshes]
      <3>1. (state \in Active) \in BOOLEAN /\ refresh \in [Calls -> Refreshes]
        BY DEF TypeOK
      <3>2. refresh' = [refresh EXCEPT ![c] = [asked |-> FALSE, reconnect |-> state \in Active,
                                               oldNative |-> 0, oldBearer |-> 0]]
        BY <1>20 DEF RefreshBegin
      <3>3. 0 \in Tokens
        BY LifecycleAssumption DEF Tokens
      <3> QED
        BY <3>1, <3>2, <3>3 DEF Refreshes
    <2>2. /\ running' = FALSE /\ gpc' = "join" /\ caller' = c
          /\ UNCHANGED <<state, open, known, native, bearer, minted, requested, thread, npc,
                         picked, fresh, chosen, requests, connects, aborted>>
      BY <1>20 DEF RefreshBegin, netVars, credentials, counters
    <2> QED
      BY <2>1, <2>2 DEF TypeOK, ConnStates
  <1>21. ASSUME NEW c \in Calls, RefreshFailed(c) PROVE TypeOK'
    BY <1>21, LifecycleAssumption DEF RefreshFailed, TypeOK, ConnStates, Tokens, Refreshes, NoRefresh, NoFresh,
         ConnectEnter, netVars, gameVars, credentials, counters
  <1>22. ASSUME NEW c \in Calls, RefreshInstall(c) PROVE TypeOK'
    BY <1>22, LifecycleAssumption DEF RefreshInstall, TypeOK, ConnStates, Tokens, Refreshes, NoRefresh, NoFresh,
         ConnectEnter, netVars, gameVars, credentials, counters
  <1>23. ASSUME NEW c \in Calls, RefreshRollback(c) PROVE TypeOK'
    BY <1>23, LifecycleAssumption DEF RefreshRollback, TypeOK, ConnStates, Tokens, Refreshes, NoRefresh, NoFresh,
         ConnectEnter, netVars, gameVars, credentials, counters
  <1>24. CASE UNCHANGED vars
    BY <1>24, LifecycleAssumption DEF vars, TypeOK, ConnStates, Tokens, Refreshes, NoRefresh, NoFresh,
         ConnectEnter, netVars, gameVars, credentials, counters
  <1> QED
    BY <1>1, <1>2, <1>3, <1>4, <1>5, <1>6, <1>7, <1>8, <1>9, <1>10, <1>11,
       <1>12, <1>13, <1>14, <1>15, <1>16, <1>17, <1>18, <1>19,
       <1>20, <1>21, <1>22, <1>23, <1>24 DEF Next, NetStep, GameStep

\* A step keeps the session invariant in the usual circumstances.
LEMMA SessionStep ==
  Usual /\ TypeOK /\ SessionInv /\ [Next /\ UNCHANGED setup]_<<vars, setup>> => SessionInv'
PROOF
  <1> SUFFICES ASSUME Usual, TypeOK, SessionInv, [Next]_vars, UNCHANGED setup PROVE SessionInv'
    BY Zenon
  <1>t. /\ refresh \in [Calls -> Refreshes]
        /\ open \in BOOLEAN /\ requested \in BOOLEAN /\ aborted \in BOOLEAN
        /\ thread \in {"none", "alive", "dead"}
    BY DEF TypeOK
  <1> USE DEF SessionInv, Usual, ManualPump, Overlap, BadIds, NetTurn, GameTurn, Outstanding, CredentialsAgree, NeverMute,
              ClosedIsQuiet, ThreadInv, FreshInv, AssignInv, RefreshInv, GameInv, netVars,
              gameVars, credentials, counters
  <1>1. CASE HkReady
    BY <1>1, <1>t DEF HkReady
  <1>2. CASE HkTokenKept
    BY <1>2, <1>t DEF HkTokenKept
  <1>3. CASE HkTokenMinted
    BY <1>3, <1>t DEF HkTokenMinted
  <1>4. CASE HkTokenInstalled
    BY <1>4, <1>t DEF HkTokenInstalled
  <1>5. CASE HkTokenRefused
    BY <1>5, <1>t DEF HkTokenRefused
  <1>6. CASE HkNothingAsked
    BY <1>6, <1>t DEF HkNothingAsked
  <1>7. CASE HkReassign
    BY <1>7, <1>t DEF HkReassign
  <1>8. CASE HkAssigned
    BY <1>8, <1>t DEF HkAssigned, MayMove
  <1>9. CASE HkAssignFailed
    BY <1>9, <1>t DEF HkAssignFailed, MayMove
  <1>10. CASE HkOpened
    BY <1>10, <1>t DEF HkOpened
  <1>11. CASE NetLoop
    BY <1>11, <1>t DEF NetLoop
  <1>12. CASE Watchdog
    BY <1>12, <1>t DEF Watchdog
  <1>13. CASE RequestReassignment
    BY <1>13, <1>t DEF RequestReassignment
  <1>14. CASE Connect
    BY <1>14, <1>t DEF Connect, ConnectEnter
  <1>15. CASE ConnectAssigned
    BY <1>15, <1>t DEF ConnectAssigned, MayMove
  <1>16. CASE ConnectFailed
    BY <1>16, <1>t DEF ConnectFailed, MayMove
  <1>17. CASE ConnectOpened
    BY <1>17, <1>t DEF ConnectOpened
  <1>18. CASE Disconnect
    BY <1>18, <1>t DEF Disconnect
  <1>19. CASE Disconnected
    BY <1>19, <1>t DEF Disconnected
  <1>20. ASSUME NEW c \in Calls, RefreshBegin(c) PROVE SessionInv'
    BY <1>20, <1>t, LifecycleAssumption DEF RefreshBegin, ConnectEnter, NoRefresh
  <1>21. ASSUME NEW c \in Calls, RefreshFailed(c) PROVE SessionInv'
    BY <1>21, <1>t, LifecycleAssumption DEF RefreshFailed, ConnectEnter, NoRefresh
  <1>22. ASSUME NEW c \in Calls, RefreshInstall(c) PROVE SessionInv'
    BY <1>22, <1>t, LifecycleAssumption DEF RefreshInstall, ConnectEnter, NoRefresh
  <1>23. ASSUME NEW c \in Calls, RefreshRollback(c) PROVE SessionInv'
    BY <1>23, <1>t, LifecycleAssumption DEF RefreshRollback, ConnectEnter, NoRefresh
  <1>24. CASE UNCHANGED vars
    BY <1>24 DEF vars
  <1> QED
    BY <1>1, <1>2, <1>3, <1>4, <1>5, <1>6, <1>7, <1>8, <1>9, <1>10, <1>11,
        <1>12, <1>13, <1>14, <1>15, <1>16, <1>17, <1>18, <1>19,
        <1>20, <1>21, <1>22, <1>23, <1>24 DEF Next, NetStep, GameStep

\* Every variable of the Connection and of its client keeps its type, in every mode.
THEOREM LifecycleTypes == Spec => []TypeOK
PROOF
  <1>1. Init => TypeOK
    <2>1. 0 \in Tokens /\ 0 \in 0 .. MaxRequests /\ 0 \in 0 .. MaxConnects
      BY LifecycleAssumption DEF Tokens
    <2>2. NoRefresh \in Refreshes /\ NoFresh \in [token : Tokens, authorized : BOOLEAN]
      BY <2>1 DEF Refreshes, NoRefresh, NoFresh
    <2>3. [c \in Calls |-> NoRefresh] \in [Calls -> Refreshes]
      BY <2>2
    <2> QED
      BY <2>1, <2>2, <2>3 DEF Init, TypeOK, ConnStates
  <1> QED
    BY <1>1, TypeStep, PTL DEF Spec

\* The inductive invariant of a session in the usual circumstances.
THEOREM SessionInvariant == Spec => [](Usual => SessionInv)
PROOF
  <1>1. Init => SessionInv
    BY DEF Init, SessionInv, Outstanding, CredentialsAgree, NeverMute, ClosedIsQuiet, ThreadInv,
           FreshInv, AssignInv, RefreshInv, GameInv, NoRefresh
  <1>2. [Next /\ UNCHANGED setup]_<<vars, setup>> => (Usual' <=> Usual)
    <2> SUFFICES ASSUME UNCHANGED setup PROVE Usual' <=> Usual
      BY Zenon
    <2> QED
      BY DEF Usual, ManualPump, Overlap, BadIds
  <1>3. TypeOK /\ (Usual => SessionInv) /\ [Next /\ UNCHANGED setup]_<<vars, setup>>
          => (Usual => SessionInv)'
    BY <1>2, SessionStep, Zenon
  <1> QED
    BY <1>1, <1>3, LifecycleTypes, PTL DEF Spec

\* housekeeping()'s refresh and reassignment, connect() and the client's rotation never
\* leave an open socket signed with a token its server was not told of, unless a
\* reassignment is on its way.
THEOREM ConnectionNeverMute == Spec => []NeverMute
PROOF
  <1>1. (Usual => SessionInv) => NeverMute
    BY Zenon DEF SessionInv, NeverMute
  <1> QED
    BY <1>1, SessionInvariant, PTL

\* The key of the datagrams and the bearer of the GraphQL calls are one token, also
\* after a refresh that failed or was rolled back.
THEOREM OneCredential == Spec => []CredentialsAgree
PROOF
  <1>1. (Usual => SessionInv) => CredentialsAgree
    BY Zenon DEF SessionInv, CredentialsAgree
  <1> QED
    BY <1>1, SessionInvariant, PTL

\* After disconnect() neither the network thread nor the socket is left.
THEOREM ClosedConnectionQuiet == Spec => []ClosedIsQuiet
PROOF
  <1>1. (Usual => SessionInv) => ClosedIsQuiet
    BY Zenon DEF SessionInv, ClosedIsQuiet
  <1> QED
    BY <1>1, SessionInvariant, PTL

\* installGameplayRefresh() replaces the key only while the socket is closed.
THEOREM RotationQuiesced == Spec => InstalledWhileClosed
PROOF
  <1>1. (Usual => SessionInv) => \A c \in Calls : Usual /\ refresh[c].asked => ~open
    BY DEF SessionInv, RefreshInv, Outstanding
  <1>2. (Usual => SessionInv) =>
          [\A c \in Calls : (Usual /\ refresh[c].asked /\ ~refresh'[c].asked /\ native' # native)
                            => ~open]_vars
    BY <1>1
  <1> QED
    BY <1>2, SessionInvariant, PTL DEF InstalledWhileClosed
=============================================================================
