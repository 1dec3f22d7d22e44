------------------------------ MODULE Lifecycle ------------------------------
(***************************************************************************)
(* The life of one replication Connection and of the credentials it shares *)
(* with its CrowdyClient: connect(), disconnect(), the housekeeping of the  *)
(* network thread (session-ready wait, proactive token refresh, watchdog,   *)
(* reassignment) and the client's gameplay-token rotation, which quiesces   *)
(* the connection, asks for a token and installs it when the answer comes.  *)
(*                                                                          *)
(* A token is a number, minted in order.  The bearer signs GraphQL calls,   *)
(* the native token signs datagrams; a server knows the tokens it was told  *)
(* of and drops everything else without a word.  HTTP calls take time: what *)
(* happens before and after one are two steps.  Bundles are in SendPath,    *)
(* the session epoch in AwaitedSend, status events in EventSignal.          *)
(***************************************************************************)
EXTENDS Naturals

CONSTANTS Calls,      \* refreshGameplayTokenAsync calls that may be outstanding
          Game,       \* a direct call of the game, as opposed to one for a refresh
          MaxTokens,  \* bound: tokens the Game API mints
          MaxRequests,\* bound: reassignments asked for from outside
          MaxConnects \* bound: connect() calls of the game

ASSUME LifecycleAssumption ==
  /\ Game \notin Calls
  /\ MaxTokens \in Nat /\ MaxRequests \in Nat /\ MaxConnects \in Nat

VARIABLES
  state,      \* state_
  open, known,\* the socket is open; tokens the server behind it was told of
  native,     \* token_ of the Connection
  bearer,     \* AuthState::token_
  minted,     \* tokens minted so far, 0 being the one the session started with
  requested,  \* reconnectRequested_
  running, thread, \* running_; netThread_: none, alive, or dead but not joined
  npc, picked, fresh, \* network thread: position; server assigned; token answered
  gpc, caller, chosen,\* game thread: position, on whose behalf; server assigned
  refresh,    \* the outstanding gameplay refreshes
  requests, connects, \* counted against their bounds
  aborted,    \* std::terminate was called
  setup       \* how this connection is used

ManualPump == setup.manualPump \* Config::manualPump, with pump() and poll() on one thread
Overlap == setup.overlap       \* the game starts a refresh while one is outstanding
BadIds == setup.badIds         \* the Game API may answer a gameTokenId that is no int64

\* The connection owns its network thread, refreshes come one at a time, ids are numbers.
Usual == ~ManualPump /\ ~Overlap /\ ~BadIds

netVars == <<npc, picked, fresh>>
gameVars == <<gpc, caller, chosen>>
credentials == <<native, bearer, minted>>
counters == <<requests, connects>>
vars == <<state, open, known, credentials, requested, running, thread, netVars,
          gameVars, refresh, counters, aborted>>

Tokens == 0 .. MaxTokens
ConnStates == {"Idle", "Connecting", "Connected", "Reconnecting", "Failed", "Closed"}
Active == {"Connecting", "Connected", "Reconnecting"}
NoRefresh == [asked |-> FALSE, reconnect |-> FALSE, oldNative |-> 0, oldBearer |-> 0]
NoFresh == [token |-> 0, authorized |-> FALSE]

Init ==
  /\ state = "Idle" /\ open = FALSE /\ known = {}
  /\ native = 0 /\ bearer = 0 /\ minted = 0
  /\ requested = FALSE /\ running = FALSE /\ thread = "none"
  /\ npc = "top" /\ picked = {} /\ fresh = NoFresh
  /\ gpc = "idle" /\ caller = Game /\ chosen = {}
  /\ refresh = [c \in Calls |-> NoRefresh]
  /\ requests = 0 /\ connects = 0
  /\ aborted = FALSE
  /\ setup \in [manualPump : BOOLEAN, overlap : BOOLEAN, badIds : BOOLEAN]

\* Who may take a step: in manual-pump mode pump() and the game share a thread.
NetTurn == ~aborted /\ IF ManualPump THEN gpc = "idle" ELSE thread = "alive"
GameTurn == ~aborted /\ (ManualPump => npc = "top")
Outstanding == \E c \in Calls : refresh[c].asked

-----------------------------------------------------------------------------
(* Housekeeping, on the network thread or in pump(). *)

\* The session-ready wait is over, or it is not yet.
HkReady ==
  /\ NetTurn /\ npc = "top"
  /\ npc' = "token"
  /\ \/ UNCHANGED state
     \/ state = "Connecting" /\ state' = "Connected"
  /\ UNCHANGED <<open, known, credentials, requested, running, thread, picked, fresh,
                 gameVars, refresh, counters, aborted>>

\* The token is not due, or the refresh failed and the expiry is pushed forward.
HkTokenKept ==
  /\ NetTurn /\ npc = "token"
  /\ npc' = "watch"
  /\ UNCHANGED <<state, open, known, credentials, requested, running, thread, picked,
                 fresh, gameVars, refresh, counters, aborted>>

\* A provider that asks twice and takes the second answer.
HkTokenMintedTwice ==
  /\ NetTurn /\ npc = "token" /\ minted < MaxTokens
  /\ minted' = minted + 2 /\ bearer' = minted + 2
  /\ fresh' = [token |-> minted + 2, authorized |-> FALSE]
  /\ npc' = "install"
  /\ UNCHANGED <<state, open, known, native, requested, running, thread, picked, gameVars,
                 refresh, counters, aborted>>

\* The provider rotates the token: portal().refresh() stores the bearer when the
\* answer comes, and the server named in the call may have been told of the token.
HkTokenMinted ==
  /\ NetTurn /\ npc = "token" /\ minted < MaxTokens
  /\ minted' = minted + 1 /\ bearer' = minted + 1
  /\ \E authorized \in BOOLEAN :
       /\ fresh' = [token |-> minted + 1, authorized |-> authorized]
       /\ known' = IF authorized /\ open THEN known \cup {minted + 1} ELSE known
  /\ npc' = "install"
  /\ UNCHANGED <<state, open, native, requested, running, thread, picked, gameVars,
                 refresh, counters, aborted>>

\* A refresh that forgets that the server may not know the new token.
HkTokenInstalledTrusting ==
  /\ NetTurn /\ npc = "install"
  /\ native' = fresh.token
  /\ fresh' = NoFresh /\ npc' = "watch"
  /\ UNCHANGED <<state, open, known, bearer, minted, requested, running, thread, picked,
                 gameVars, refresh, counters, aborted>>

\* setToken, and a reassignment unless the current server was told of the token.
HkTokenInstalled ==
  /\ NetTurn /\ npc = "install"
  /\ native' = fresh.token
  /\ requested' = (requested \/ ~fresh.authorized)
  /\ fresh' = NoFresh /\ npc' = "watch"
  /\ UNCHANGED <<state, open, known, bearer, minted, running, thread, picked, gameVars,
                 refresh, counters, aborted>>

\* The answer's gameTokenId is no int64: the provider fails after the bearer was stored.
HkTokenRefused ==
  /\ NetTurn /\ npc = "install" /\ BadIds
  /\ fresh' = NoFresh /\ npc' = "watch"
  /\ UNCHANGED <<state, open, known, credentials, requested, running, thread, picked,
                 gameVars, refresh, counters, aborted>>

Watchdog ==
  /\ NetTurn /\ npc = "watch" /\ state = "Connected" /\ requests < MaxRequests
  /\ requested' = TRUE /\ requests' = requests + 1
  /\ UNCHANGED <<state, open, known, credentials, running, thread, netVars, gameVars,
                 refresh, connects, aborted>>

\* A turn that looks at the request only sometimes.
HkNothingAskedAlways ==
  /\ NetTurn /\ npc = "watch"
  /\ npc' = "loop"
  /\ UNCHANGED <<state, open, known, credentials, requested, running, thread, picked,
                 fresh, gameVars, refresh, counters, aborted>>

HkNothingAsked ==
  /\ NetTurn /\ npc = "watch" /\ ~requested
  /\ npc' = "loop"
  /\ UNCHANGED <<state, open, known, credentials, requested, running, thread, picked,
                 fresh, gameVars, refresh, counters, aborted>>

\* The request is taken with one exchange; the socket closes before the assignment.
HkReassign ==
  /\ NetTurn /\ npc = "watch" /\ requested
  /\ requested' = FALSE /\ state' = "Reconnecting"
  /\ open' = FALSE /\ known' = {}
  /\ npc' = "assign"
  /\ UNCHANGED <<credentials, running, thread, picked, fresh, gameVars, refresh, counters,
                 aborted>>

\* assignServer(): the Game API tells the chosen server of the bearer's token.  A
\* first try that fails may have the client rediscover its endpoint and try again;
\* moveToDatacenter() then asks for a reassignment.
MayMove == requested' = TRUE \/ UNCHANGED requested

HkAssigned ==
  /\ NetTurn /\ npc = "assign"
  /\ picked' = {bearer} /\ MayMove
  /\ npc' = "open"
  /\ UNCHANGED <<state, open, known, credentials, running, thread, fresh, gameVars,
                 refresh, counters, aborted>>

\* No server or no usable address; or the socket does not open.
HkAssignFailed ==
  /\ NetTurn
  /\ \/ npc = "assign" /\ MayMove
     \/ npc = "open" /\ UNCHANGED requested
  /\ state' = "Failed" /\ npc' = "loop" /\ picked' = {}
  /\ UNCHANGED <<open, known, credentials, running, thread, fresh, gameVars, refresh,
                 counters, aborted>>

HkOpened ==
  /\ NetTurn /\ npc = "open"
  /\ open' = TRUE /\ known' = picked /\ picked' = {}
  /\ state' = "Connecting" /\ npc' = "loop"
  /\ UNCHANGED <<credentials, requested, running, thread, fresh, gameVars, refresh,
                 counters, aborted>>

\* The loop ends on Failed or when disconnect() cleared running_; pump() just returns.
NetLoop ==
  /\ NetTurn /\ npc = "loop"
  /\ npc' = "top"
  /\ thread' = IF ~ManualPump /\ (state = "Failed" \/ ~running) THEN "dead" ELSE thread
  /\ UNCHANGED <<state, open, known, credentials, requested, running, picked, fresh,
                 gameVars, refresh, counters, aborted>>

\* COMMAND_RECONNECT, TOKEN_EXPIRED seen by poll(), requestReassignment().
RequestReassignment ==
  /\ ~aborted /\ requests < MaxRequests /\ state # "Idle"
  /\ requested' = TRUE /\ requests' = requests + 1
  /\ UNCHANGED <<state, open, known, credentials, running, thread, netVars, gameVars,
                 refresh, connects, aborted>>

-----------------------------------------------------------------------------
(* connect() and disconnect(), on the game thread. *)

\* What connect() does first.  An active session is left alone.
ConnectEnter ==
  IF state \in {"Connected", "Connecting"}
  THEN gpc' = "idle" /\ UNCHANGED state
  ELSE gpc' = "assign" /\ state' = "Connecting"

Connect ==
  /\ GameTurn /\ gpc = "idle" /\ connects < MaxConnects /\ ~Outstanding
  /\ connects' = connects + 1
  /\ ConnectEnter
  /\ UNCHANGED <<open, known, credentials, requested, running, thread, netVars, caller,
                 chosen, refresh, requests, aborted>>

ConnectAssigned ==
  /\ GameTurn /\ gpc = "assign"
  /\ chosen' = {bearer} /\ MayMove
  /\ gpc' = "open"
  /\ UNCHANGED <<state, open, known, credentials, running, thread, netVars, caller,
                 refresh, counters, aborted>>

ConnectFailed ==
  /\ GameTurn
  /\ \/ gpc = "assign" /\ MayMove
     \/ gpc = "open" /\ UNCHANGED requested
  /\ state' = "Failed" /\ gpc' = "idle" /\ chosen' = {}
  /\ UNCHANGED <<open, known, credentials, running, thread, netVars, caller, refresh,
                 counters, aborted>>

\* The socket is open.  Starting the network thread over one that was never joined
\* is std::terminate.
ConnectOpened ==
  /\ GameTurn /\ gpc = "open"
  /\ open' = TRUE /\ known' = chosen /\ chosen' = {}
  /\ gpc' = "idle"
  /\ IF ManualPump
     THEN UNCHANGED <<running, thread, npc, aborted>>
     ELSE /\ running' = TRUE
          /\ IF thread = "none"
             THEN thread' = "alive" /\ npc' = "top" /\ UNCHANGED aborted
             ELSE aborted' = TRUE /\ UNCHANGED <<thread, npc>>
  /\ UNCHANGED <<state, credentials, requested, picked, fresh, caller, refresh, counters>>

Disconnect ==
  /\ GameTurn /\ gpc = "idle"
  /\ running' = FALSE /\ gpc' = "join" /\ caller' = Game
  /\ UNCHANGED <<state, open, known, credentials, requested, thread, netVars, chosen,
                 refresh, counters, aborted>>

\* A rotation quiesces without waiting for the network thread.
DisconnectedNoJoin ==
  /\ GameTurn /\ gpc = "join"
  /\ open' = FALSE /\ known' = {} /\ state' = "Closed"
  /\ gpc' = "idle"
  /\ refresh' = IF caller = Game THEN refresh
                ELSE [refresh EXCEPT ![caller] = [asked |-> TRUE, reconnect |-> @.reconnect,
                                                  oldNative |-> native, oldBearer |-> bearer]]
  /\ UNCHANGED <<thread, credentials, requested, running, netVars, caller, chosen, counters, aborted>>

\* The join: the network thread has left its loop.  A refresh goes on with its request,
\* and keeps the token the network thread left behind for a rollback.
Disconnected ==
  /\ GameTurn /\ gpc = "join" /\ thread # "alive"
  /\ thread' = "none"
  /\ open' = FALSE /\ known' = {} /\ state' = "Closed"
  /\ gpc' = "idle"
  /\ refresh' = IF caller = Game THEN refresh
                ELSE [refresh EXCEPT ![caller] = [asked |-> TRUE, reconnect |-> @.reconnect,
                                                  oldNative |-> native, oldBearer |-> bearer]]
  /\ UNCHANGED <<credentials, requested, running, netVars, caller, chosen, counters, aborted>>

-----------------------------------------------------------------------------
(* refreshGameplayToken and refreshGameplayTokenAsync. *)

\* A refresh that quiesces only a session that is up.
RefreshBeginConnected(c) ==
  /\ GameTurn /\ gpc = "idle" /\ ~refresh[c].asked
  /\ Outstanding => Overlap
  /\ IF state = "Connected"
     THEN /\ refresh' = [refresh EXCEPT ![c].reconnect = TRUE]
          /\ running' = FALSE /\ gpc' = "join" /\ caller' = c
     ELSE /\ refresh' = [refresh EXCEPT ![c] = [asked |-> TRUE, reconnect |-> state \in Active,
                                               oldNative |-> native, oldBearer |-> bearer]]
          /\ UNCHANGED <<running, gpc, caller>>
  /\ UNCHANGED <<state, open, known, credentials, requested, thread, netVars, chosen,
                 counters, aborted>>

\* Remember whether the connection was active, then disconnect().
RefreshBegin(c) ==
  /\ GameTurn /\ gpc = "idle" /\ ~refresh[c].asked
  /\ Outstanding => Overlap
  /\ refresh' = [refresh EXCEPT ![c] = [asked |-> FALSE, reconnect |-> state \in Active,
                                        oldNative |-> 0, oldBearer |-> 0]]
  /\ running' = FALSE /\ gpc' = "join" /\ caller' = c
  /\ UNCHANGED <<state, open, known, credentials, requested, thread, netVars, chosen,
                 counters, aborted>>

\* The request failed, or its token is no native token: nothing was installed.
RefreshFailed(c) ==
  /\ GameTurn /\ gpc = "idle" /\ refresh[c].asked
  /\ refresh' = [refresh EXCEPT ![c] = NoRefresh]
  /\ UNCHANGED <<state, open, known, credentials, requested, running, thread, netVars,
                 gameVars, counters, aborted>>

\* The native key, then the bearer, then connect() if the connection was active.
RefreshInstall(c) ==
  /\ GameTurn /\ gpc = "idle" /\ refresh[c].asked /\ minted < MaxTokens
  /\ minted' = minted + 1 /\ native' = minted + 1 /\ bearer' = minted + 1
  /\ refresh' = [refresh EXCEPT ![c] = NoRefresh]
  /\ IF refresh[c].reconnect THEN ConnectEnter ELSE UNCHANGED <<gpc, state>>
  /\ UNCHANGED <<open, known, requested, running, thread, netVars, caller, chosen,
                 counters, aborted>>

\* A rollback that forgets the native key.
RefreshRollbackBearer(c) ==
  /\ GameTurn /\ gpc = "idle" /\ refresh[c].asked /\ minted < MaxTokens
  /\ minted' = minted + 1
  /\ native' = minted + 1 /\ bearer' = refresh[c].oldBearer
  /\ refresh' = [refresh EXCEPT ![c] = NoRefresh]
  /\ UNCHANGED <<state, open, known, requested, running, thread, netVars, gameVars,
                 counters, aborted>>

\* Storing the bearer threw: both tokens go back to what the quiesced client had.
RefreshRollback(c) ==
  /\ GameTurn /\ gpc = "idle" /\ refresh[c].asked /\ minted < MaxTokens
  /\ minted' = minted + 1
  /\ native' = refresh[c].oldNative /\ bearer' = refresh[c].oldBearer
  /\ refresh' = [refresh EXCEPT ![c] = NoRefresh]
  /\ UNCHANGED <<state, open, known, requested, running, thread, netVars, gameVars,
                 counters, aborted>>

NetStep ==
  \/ HkReady \/ HkTokenKept \/ HkTokenMinted \/ HkTokenInstalled \/ HkTokenRefused
  \/ HkNothingAsked \/ HkReassign \/ HkAssigned \/ HkAssignFailed \/ HkOpened \/ NetLoop

GameStep ==
  \/ Connect \/ ConnectAssigned \/ ConnectFailed \/ ConnectOpened
  \/ Disconnect \/ Disconnected
  \/ \E c \in Calls : RefreshBegin(c) \/ RefreshFailed(c) \/ RefreshInstall(c)
                       \/ RefreshRollback(c)

Next == NetStep \/ Watchdog \/ RequestReassignment \/ GameStep

Spec == Init /\ [][Next /\ UNCHANGED setup]_<<vars, setup>>

\* Both threads keep running, and their HTTP calls end: housekeeping comes round again
\* and a connect() or disconnect() that was begun returns.
FairSpec ==
  /\ Spec /\ WF_vars(NetStep)
  /\ WF_vars(ConnectAssigned \/ ConnectFailed \/ ConnectOpened \/ Disconnected)

-----------------------------------------------------------------------------
Refreshes == [asked : BOOLEAN, reconnect : BOOLEAN, oldNative : Tokens, oldBearer : Tokens]

\* Every variable of the Connection and of the client keeps its type.
TypeOK ==
  /\ state \in ConnStates
  /\ open \in BOOLEAN /\ known \in SUBSET Tokens
  /\ native \in Tokens /\ bearer \in Tokens /\ minted \in Tokens
  /\ requested \in BOOLEAN /\ running \in BOOLEAN
  /\ thread \in {"none", "alive", "dead"}
  /\ npc \in {"top", "token", "install", "watch", "assign", "open", "loop"}
  /\ picked \in SUBSET Tokens
  /\ fresh \in [token : Tokens, authorized : BOOLEAN]
  /\ gpc \in {"idle", "assign", "open", "join"}
  /\ caller \in Calls \cup {Game} /\ chosen \in SUBSET Tokens
  /\ refresh \in [Calls -> Refreshes]
  /\ requests \in 0 .. MaxRequests /\ connects \in 0 .. MaxConnects
  /\ aborted \in BOOLEAN

\* The token datagrams are signed with is the one GraphQL calls carry, except while
\* the network thread is between storing a refreshed bearer and installing its key.
CredentialsAgree == Usual /\ npc # "install" => native = bearer

\* An open socket with no reassignment asked for leads to a server that was told of
\* the token the datagrams are signed with: the connection is never mute.
NeverMute ==
  (Usual /\ open /\ ~requested /\ ~aborted /\ npc # "install") => native \in known

\* A Closed connection has no network thread and no socket: disconnect() has stopped
\* both, and nothing but connect() starts them again.
ClosedIsQuiet ==
  (Usual /\ state = "Closed" /\ ~aborted) => (~open /\ thread # "alive")

\* A gameplay refresh installs its token while the socket is closed, so that no send
\* can be signed with a key the server does not know.
InstalledWhileClosed ==
  [][\A c \in Calls :
       (Usual /\ refresh[c].asked /\ ~refresh'[c].asked /\ native' # native) => ~open]_vars

\* A connect() that retries a Failed connection returns: it never starts a network
\* thread over one that ended and was not joined.
FailedRetryReturns == ~(aborted /\ thread = "dead")

\* A reassignment that was asked for is taken up while the network thread lives, and in
\* manual-pump mode as long as the connection is not closed.
ReassignmentTaken ==
  /\ (requested /\ thread = "alive") ~> (~requested \/ thread # "alive" \/ aborted)
  /\ (requested /\ ManualPump /\ state # "Closed") ~> (~requested \/ state = "Closed" \/ aborted)
=============================================================================
