------------------------------ MODULE SendPath ------------------------------
(***************************************************************************)
(* The send path of Connection: game threads encode a message and hand it  *)
(* to transmit(), which packs it into the pending MESSAGE_BUNDLE; the      *)
(* network thread sleeps in receive no longer than the bundle's window and *)
(* flushes it.  The socket may take a datagram, be full (WouldBlock) or     *)
(* fail.  The network thread replaces the socket when it is reassigned, and *)
(* disconnect() closes it.                                                  *)
(*                                                                          *)
(* Every step of a thread that runs under bundleMutex_ is one action.  Time *)
(* is relative: the age of the pending bundle, capped at the window, and    *)
(* how much longer the network thread sleeps.                               *)
(***************************************************************************)
EXTENDS Integers, Sequences

CONSTANTS Senders,      \* the game's sending threads
          Sizes,        \* encoded message lengths
          MaxDatagram,  \* kMaxDatagramSize, the bundle's buffer
          MaxMembers,   \* kMaxBundleMembers
          Window,       \* Config::bundleWindowMs
          MaxWait,      \* the longest receive wait of the network loop
          MaxSends,     \* bound: no message is begun once this many were accepted
          MaxServers    \* bound: sockets opened in all

Header == 1             \* kBundleHeaderSize
Prefix == 2             \* kBundleLengthPrefix
MaxMember == MaxDatagram - Header - Prefix   \* kMaxBundleMemberSize

ASSUME SendAssumption ==
  /\ MaxDatagram \in Nat /\ MaxDatagram > Header + Prefix
  /\ Sizes \subseteq 1..MaxDatagram
  /\ MaxMembers \in Nat \ {0}
  /\ Window \in Nat /\ MaxWait \in Nat \ {0}
  /\ MaxSends \in Nat /\ MaxServers \in Nat

VARIABLES
  bundling,  \* Config::bundleSends
  out,       \* the bundle, what reached the wire, and the counters of Stats
  age,       \* ms since the bundle opened, capped at Window
  encoding,  \* per sender: length of the message it is about to transmit, 0 if none
  server,    \* the server the socket is open to, 0 when it is closed
  servers,   \* sockets opened so far
  canWake,   \* the socket has its wake pipe
  pipe,      \* the wake pipe is readable
  npc, wait, \* network thread: position, ms of sleep left
  running    \* running_

sockVars == <<server, servers, canWake>>
netVars == <<npc, wait, running>>
vars == <<bundling, out, age, encoding, sockVars, pipe, netVars>>

Least(a, b) == IF a < b THEN a ELSE b

Init ==
  /\ bundling \in BOOLEAN
  /\ out = [bundle |-> << >>, offset |-> Header, wire |-> << >>,
            messagesSent |-> 0, messagesDropped |-> 0, bundlesSent |-> 0]
  /\ age = 0
  /\ encoding = [s \in Senders |-> 0]
  /\ server = 1 /\ servers = 1 /\ canWake \in BOOLEAN
  /\ pipe = FALSE
  /\ npc = "loop" /\ wait = 0 /\ running = TRUE

-----------------------------------------------------------------------------
(* The bundle and the socket, as functions of out.  r is what socket_.send   *)
(* returned: NotConnected, when it is closed, is a fault like any other.      *)

SocketResults == IF server = 0 THEN {"Fault"} ELSE {"Ok", "WouldBlock", "Fault"}

\* Mutant of Fits: forgets the length prefix of the new member.
FitsNoPrefix(o, len) ==
  /\ Len(o.bundle) < MaxMembers
  /\ o.offset + len <= MaxDatagram

Fits(o, len) ==
  /\ Len(o.bundle) < MaxMembers
  /\ o.offset + Prefix + len <= MaxDatagram

Message(o, len) == [id |-> o.messagesSent + 1, size |-> len, joined |-> server]

Addressed(ms) == [i \in 1..Len(ms) |-> [msg |-> ms[i], to |-> server]]

\* BundleWriter::append and countMessageSent.
Join(o, len) ==
  [o EXCEPT !.bundle = Append(@, Message(o, len)),
            !.offset = @ + Prefix + len,
            !.messagesSent = @ + 1]

\* Mutant of FlushBundle: drops the bundle when the socket is full.
FlushBundleDefer(o, r) ==
  IF o.bundle = << >> THEN o
  ELSE CASE r = "Ok" ->
              [o EXCEPT !.wire = @ \o Addressed(o.bundle),
                        !.bundlesSent = IF Len(o.bundle) > 1 THEN @ + 1 ELSE @,
                        !.bundle = << >>, !.offset = Header]
         [] r = "WouldBlock" ->
              [o EXCEPT !.bundle = << >>, !.offset = Header]
         [] OTHER ->
              [o EXCEPT !.messagesDropped = @ + Len(o.bundle),
                        !.bundle = << >>, !.offset = Header]

\* Mutant of FlushBundle: does not reset the writer after a sent datagram.
FlushBundleKeep(o, r) ==
  IF o.bundle = << >> THEN o
  ELSE CASE r = "Ok" ->
              [o EXCEPT !.wire = @ \o Addressed(o.bundle),
                        !.bundlesSent = IF Len(o.bundle) > 1 THEN @ + 1 ELSE @]
         [] r = "WouldBlock" -> o
         [] OTHER ->
              [o EXCEPT !.messagesDropped = @ + Len(o.bundle),
                        !.bundle = << >>, !.offset = Header]

\* flushBundleLocked: WouldBlock keeps the bundle, a fault loses it.
FlushBundle(o, r) ==
  IF o.bundle = << >> THEN o
  ELSE CASE r = "Ok" ->
              [o EXCEPT !.wire = @ \o Addressed(o.bundle),
                        !.bundlesSent = IF Len(o.bundle) > 1 THEN @ + 1 ELSE @,
                        !.bundle = << >>, !.offset = Header]
         [] r = "WouldBlock" -> o
         [] OTHER ->
              [o EXCEPT !.messagesDropped = @ + Len(o.bundle),
                        !.bundle = << >>, !.offset = Header]

\* sendDatagram of a message that travels alone, then countMessageSent.
SendAlone(o, len, r) ==
  IF r = "Ok"
    THEN [o EXCEPT !.wire = @ \o Addressed(<<Message(o, len)>>),
                   !.messagesSent = @ + 1]
    ELSE o

Expired == age >= Window

-----------------------------------------------------------------------------
(* transmit(): the three ways a message of length len may go. *)

\* bundleSends off: one datagram per message.
TransmitDirect(len) ==
  /\ ~bundling
  /\ \E r \in SocketResults : out' = SendAlone(out, len, r)
  /\ UNCHANGED <<age, pipe>>

\* Too big for any bundle: flush what is pending, then send it alone.
TransmitOversize(len) ==
  /\ bundling /\ len > MaxMember
  /\ \E r1, r2 \in SocketResults : out' = SendAlone(FlushBundle(out, r1), len, r2)
  /\ UNCHANGED <<age, pipe>>

\* Mutant of TransmitBundled: opening a bundle does not wake the network thread.
TransmitBundledNoWake(len) ==
  /\ bundling /\ len <= MaxMember
  /\ \E r \in SocketResults :
       LET flush == out.bundle # << >> /\ ((Window > 0 /\ Expired) \/ ~Fits(out, len))
           o == IF flush THEN FlushBundle(out, r) ELSE out
       IN IF Fits(o, len)
            THEN /\ out' = Join(o, len)
                 /\ age' = IF o.bundle = << >> THEN 0 ELSE age
                 /\ UNCHANGED pipe
            ELSE out' = o /\ UNCHANGED <<age, pipe>>

\* Flush an expired bundle, or one the message does not fit behind, then join.
\* A deferred flush leaves the bundle: the message joins it if it still fits,
\* otherwise the caller sees WouldBlock.
TransmitBundled(len) ==
  /\ bundling /\ len <= MaxMember
  /\ \E r \in SocketResults :
       LET flush == out.bundle # << >> /\ ((Window > 0 /\ Expired) \/ ~Fits(out, len))
           o == IF flush THEN FlushBundle(out, r) ELSE out
       IN IF Fits(o, len)
            THEN /\ out' = Join(o, len)
                 /\ age' = IF o.bundle = << >> THEN 0 ELSE age
                 /\ pipe' = IF o.bundle = << >> /\ canWake THEN TRUE ELSE pipe
            ELSE out' = o /\ UNCHANGED <<age, pipe>>

Transmit(len) == TransmitDirect(len) \/ TransmitOversize(len) \/ TransmitBundled(len)

-----------------------------------------------------------------------------
(* Game threads. *)

\* send*(): refused unless the socket is open, then encoded and signed.
SendEncode(s, len) ==
  /\ encoding[s] = 0 /\ server # 0
  /\ out.messagesSent < MaxSends
  /\ encoding' = [encoding EXCEPT ![s] = len]
  /\ UNCHANGED <<bundling, out, age, sockVars, pipe, netVars>>

SendTransmit(s) ==
  /\ encoding[s] # 0
  /\ Transmit(encoding[s])
  /\ encoding' = [encoding EXCEPT ![s] = 0]
  /\ UNCHANGED <<bundling, sockVars, netVars>>

\* flushSends(), at the end of a frame or before an awaited send waits.
FlushSends ==
  /\ bundling
  /\ \E r \in SocketResults : out' = FlushBundle(out, r)
  /\ UNCHANGED <<bundling, age, encoding, sockVars, pipe, netVars>>

-----------------------------------------------------------------------------
(* Network thread: netLoop. *)

\* Mutant of ReceiveWait: blocks for ever (-1) while nothing is pending.
ReceiveWaitForever ==
  IF out.bundle = << >> THEN -1 ELSE Least(Window - age, MaxWait)

\* receiveWaitMs: never past the bundle's window, and never past one window
\* while no bundle is open if the socket cannot be woken when one opens.
ReceiveWait ==
  IF ~bundling THEN MaxWait
  ELSE IF out.bundle # << >> THEN Least(Window - age, MaxWait)
  ELSE IF canWake THEN MaxWait
  ELSE Least(IF Window > 0 THEN Window ELSE 1, MaxWait)

NetSleep ==
  /\ npc = "loop" /\ running
  /\ npc' = "sleep" /\ wait' = ReceiveWait
  /\ UNCHANGED <<bundling, out, age, encoding, sockVars, pipe, running>>

\* The wait ran out, or the wake pipe is readable and is drained.
NetWoken ==
  /\ npc = "sleep" /\ (wait = 0 \/ pipe)
  /\ npc' = "flush" /\ wait' = 0 /\ pipe' = FALSE
  /\ UNCHANGED <<bundling, out, age, encoding, sockVars, running>>

\* A datagram ended the wait early, before the pipe became readable.
NetReceived ==
  /\ npc = "sleep" /\ server # 0
  /\ npc' = "flush" /\ wait' = 0
  /\ UNCHANGED <<bundling, out, age, encoding, sockVars, pipe, running>>

\* Mutant of NetFlush: leaves a bundle that has not filled up.
NetFlushFull ==
  /\ npc = "flush"
  /\ npc' = "house"
  /\ \E r \in SocketResults :
       out' = IF bundling /\ Expired /\ Len(out.bundle) = MaxMembers
                THEN FlushBundle(out, r) ELSE out
  /\ UNCHANGED <<bundling, age, encoding, sockVars, pipe, wait, running>>

\* flushExpiredBundle.
NetFlush ==
  /\ npc = "flush"
  /\ npc' = "house"
  /\ \E r \in SocketResults :
       out' = IF bundling /\ Expired THEN FlushBundle(out, r) ELSE out
  /\ UNCHANGED <<bundling, age, encoding, sockVars, pipe, wait, running>>

\* housekeeping advertises the capabilities through transmit().
NetCapabilities(len) ==
  /\ npc = "house"
  /\ out.messagesSent < MaxSends
  /\ Transmit(len)
  /\ npc' = "reassign"
  /\ UNCHANGED <<bundling, encoding, sockVars, wait, running>>

\* Nothing else to do in this pass.
NetAgain ==
  /\ npc \in {"house", "reassign"}
  /\ npc' = "loop"
  /\ UNCHANGED <<bundling, out, age, encoding, sockVars, pipe, wait, running>>

\* A reassignment was requested: flush, then close, then open the new socket.
NetReassign ==
  /\ npc \in {"house", "reassign"}
  /\ servers < MaxServers
  /\ npc' = "close"
  /\ \E r \in SocketResults : out' = IF bundling THEN FlushBundle(out, r) ELSE out
  /\ UNCHANGED <<bundling, age, encoding, sockVars, pipe, wait, running>>

NetClose ==
  /\ npc = "close"
  /\ npc' = "assign"
  /\ server' = 0 /\ canWake' = FALSE /\ pipe' = FALSE
  /\ UNCHANGED <<bundling, out, age, encoding, servers, wait, running>>

\* doAssign and socket_.open, which may fail and then end the loop (Failed).
NetAssign ==
  /\ npc = "assign"
  /\ \/ /\ npc' = "loop"
        /\ servers' = servers + 1 /\ server' = servers + 1
        /\ canWake' \in BOOLEAN
     \/ /\ npc' = "stopped"
        /\ UNCHANGED sockVars
  /\ UNCHANGED <<bundling, out, age, encoding, pipe, wait, running>>

\* running_ was cleared.
NetStop ==
  /\ npc = "loop" /\ ~running
  /\ npc' = "stopped"
  /\ UNCHANGED <<bundling, out, age, encoding, sockVars, pipe, wait, running>>

-----------------------------------------------------------------------------
(* disconnect(), and the passage of time. *)

DisconnectBegin ==
  /\ running
  /\ running' = FALSE
  /\ UNCHANGED <<bundling, out, age, encoding, sockVars, pipe, npc, wait>>

\* The network thread is joined; the bundle is flushed.
DisconnectFlush ==
  /\ ~running /\ npc = "stopped"
  /\ npc' = "joined"
  /\ \E r \in SocketResults : out' = IF bundling THEN FlushBundle(out, r) ELSE out
  /\ UNCHANGED <<bundling, age, encoding, sockVars, pipe, wait, running>>

DisconnectClose ==
  /\ npc = "joined"
  /\ npc' = "closed"
  /\ server' = 0 /\ canWake' = FALSE /\ pipe' = FALSE
  /\ UNCHANGED <<bundling, out, age, encoding, servers, wait, running>>

\* A millisecond passes.
Tick ==
  /\ age' = IF out.bundle # << >> /\ age < Window THEN age + 1 ELSE age
  /\ wait' = IF wait > 0 THEN wait - 1 ELSE wait
  /\ UNCHANGED <<bundling, out, encoding, sockVars, pipe, npc, running>>

-----------------------------------------------------------------------------
GameStep ==
  \/ \E s \in Senders : SendTransmit(s) \/ \E len \in Sizes : SendEncode(s, len)
  \/ FlushSends

NetStep ==
  \/ NetSleep \/ NetWoken \/ NetFlush \/ NetAgain \/ NetClose \/ NetAssign \/ NetStop

Next ==
  \/ GameStep \/ NetStep
  \/ NetReceived \/ NetReassign \/ \E len \in Sizes : NetCapabilities(len)
  \/ DisconnectBegin \/ DisconnectFlush \/ DisconnectClose
  \/ Tick

Spec == Init /\ [][Next]_vars

\* The network thread runs, time passes, and a full send buffer drains.
FairSpec ==
  /\ Spec
  /\ WF_vars(NetStep) /\ WF_vars(Tick)
  /\ SF_vars(NetFlush /\ out'.bundle = << >>)

-----------------------------------------------------------------------------
Messages == [id : Nat, size : Sizes, joined : Nat]
Outputs == [bundle : Seq(Messages), offset : Nat, wire : Seq([msg : Messages, to : Nat]),
            messagesSent : Nat, messagesDropped : Nat, bundlesSent : Nat]

(* Type correctness of the send path's state. *)
TypeOK ==
  /\ bundling \in BOOLEAN
  /\ out \in Outputs
  /\ age \in 0..Window
  /\ encoding \in [Senders -> Sizes \cup {0}]
  /\ server \in Nat /\ servers \in Nat
  /\ canWake \in BOOLEAN /\ pipe \in BOOLEAN
  /\ npc \in {"loop", "sleep", "flush", "house", "reassign", "close", "assign",
              "stopped", "joined", "closed"}
  /\ wait \in 0..MaxWait
  /\ running \in BOOLEAN

(* Stats accounts for every accepted message: it is on the wire, pending in   *)
(* the bundle, or counted in messagesDropped; nothing vanishes between a      *)
(* deferred flush, a fault and a reassignment.                                *)
NothingLost ==
  out.messagesSent = Len(out.wire) + Len(out.bundle) + out.messagesDropped

(* No datagram is too large: the pending bundle stays within the datagram     *)
(* size and the member cap the server accepts, whatever joined it behind a     *)
(* deferred flush.                                                             *)
BundleFits == out.offset <= MaxDatagram /\ Len(out.bundle) <= MaxMembers

(* The network thread never sleeps through a bundle's window: while it is in   *)
(* receive with a bundle pending and no wake on its way, it wakes before the   *)
(* window ends (within a millisecond when the window is 0).                    *)
NeverOversleeps ==
  (bundling /\ npc = "sleep" /\ out.bundle # << >> /\ ~pipe)
     => wait <= (IF Window > 0 THEN Window ELSE 1) - age

Bundled(e) == e.msg.size <= MaxMember

(* Messages that travel in bundles reach the wire once each and in the order   *)
(* transmit() accepted them, across deferred flushes and several senders.      *)
BundledInOrder ==
  bundling =>
    /\ \A i, j \in 1..Len(out.wire) :
         (i < j /\ Bundled(out.wire[i]) /\ Bundled(out.wire[j]))
            => out.wire[i].msg.id < out.wire[j].msg.id
    /\ \A i \in 1..Len(out.wire), j \in 1..Len(out.bundle) :
         Bundled(out.wire[i]) => out.wire[i].msg.id < out.bundle[j].id

(* A pending message does not stay pending: it leaves or is counted as         *)
(* dropped, as long as the network thread has not stopped.                     *)
PendingLeaves ==
  \A k \in 1..(MaxSends + 2) :
    (\E i \in 1..Len(out.bundle) : out.bundle[i].id = k)
      ~> (npc \in {"stopped", "joined", "closed"}
            \/ ~\E i \in 1..Len(out.bundle) : out.bundle[i].id = k)

(* "Pending sends were signed for the server we are leaving; get them out to   *)
(* it before the socket goes rather than to the next server": what joined the  *)
(* bundle while one server was connected goes to that server.                  *)
SentToItsServer ==
  \A i \in 1..Len(out.wire) :
    out.wire[i].msg.joined # 0 => out.wire[i].to = out.wire[i].msg.joined
===============================================================================
