----------------------------- MODULE AwaitedSend -----------------------------
(***************************************************************************)
(* send*AndWait of Connection: send, wait for the echo or the error that   *)
(* carries the send's sequence number, and retry once when a session's      *)
(* first awaited send fails or the connection moved on while waiting.       *)
(*                                                                          *)
(* The game thread runs sendAndWait and, inside it, awaitSequence and       *)
(* poll(); the network thread flushes, receives and reassigns.  Sessions    *)
(* are numbered as the server the socket leads to; sessionEpoch_ follows    *)
(* them, but not in the same step.  Datagrams may be lost, duplicated and    *)
(* reordered; none outlives SeqSpan - 1 later sends.                        *)
(***************************************************************************)
EXTENDS Naturals, Sequences

CONSTANTS SeqSpan,       \* sequence numbers there are (a uint8_t: 256)
          RingCapacity,  \* answers that fit into the ring
          MaxSends,      \* bound: messages sent in all
          MaxServers     \* bound: sessions started

ASSUME AwaitAssumption ==
  /\ SeqSpan \in Nat \ {0} /\ RingCapacity \in Nat \ {0} /\ MaxSends \in Nat /\ MaxServers \in Nat \ {0}

VARIABLES
  cstate, epoch,   \* state_, sessionEpoch_
  socket, servers, \* the session the socket leads to, 0 when closed; sessions so far
  npc,             \* network thread: idle, or where it is in a reassignment
  sent,            \* messages encoded so far; message i has sequence i % SeqSpan
  kindOf,          \* what each message is: an update or text of the actor that awaits, or
                   \* another sender's
  bundle,          \* messages pending in the bundle
  wentTo,          \* history: the session each message was sent to, 0 before or never
  ring,            \* answers queued for poll()
  pc, call,        \* game thread: position; the sendAndWait in progress
  wait,            \* pendingWait_
  confirmed,       \* confirmedEpoch_, 0 for the initial ~0
  answered,        \* history: sessions that answered an awaited send
  calm, missed     \* history: no reassignment overlapped the call; a wait that went on
                   \* although the session of its message was over

netVars == <<cstate, epoch, socket, servers, npc>>
wireVars == <<sent, kindOf, bundle, wentTo>>
waitVars == <<pc, call, wait, confirmed, answered, missed>>
vars == <<netVars, wireVars, ring, waitVars, calm>>

Ids == 1 .. MaxSends
Seq8(i) == i % SeqSpan
Kinds == {"echo", "Unauthorized", "other"}
NoCall == [echoed |-> FALSE, epoch |-> 0, sentEpoch |-> 0, id |-> 0, tries |-> 0]
NoWait == [active |-> FALSE, id |-> 0, epoch |-> 0, from |-> 0, done |-> FALSE,
           acknowledged |-> FALSE, by |-> 0, error |-> "none", changed |-> FALSE]

Init ==
  /\ cstate = "Connected" /\ epoch = 1 /\ socket = 1 /\ servers = 1 /\ npc = "idle"
  /\ sent = 0 /\ kindOf = [i \in Ids |-> "none"] /\ bundle = {} /\ wentTo = [i \in Ids |-> 0]
  /\ ring = << >>
  /\ pc = "idle" /\ call = NoCall /\ wait = NoWait
  /\ confirmed = 0 /\ answered = {} /\ calm = TRUE /\ missed = FALSE

-----------------------------------------------------------------------------
(* What leaves and what comes back. *)

\* A flush sends what is pending to the open socket, or keeps it when the socket would
\* block; with no socket it is dropped.
Flushed ==
  \/ /\ bundle' = {}
     /\ wentTo' = [i \in Ids |-> IF i \in bundle THEN socket ELSE wentTo[i]]
  \/ socket # 0 /\ UNCHANGED <<bundle, wentTo>>

\* No datagram is under way for longer than it takes to use up the sequence numbers.
Fresh(i) == sent - i < SeqSpan

\* Nor do they come round between two polls or while an answer is awaited.
Polled ==
  /\ \A k \in 1 .. Len(ring) : sent + 1 - ring[k].id < SeqSpan
  /\ pc \in {"flush", "arm", "wait", "check"} => sent + 1 - call.id < SeqSpan

-----------------------------------------------------------------------------
(* The network thread. *)

NetFlush ==
  /\ npc = "idle" /\ bundle # {}
  /\ Flushed
  /\ UNCHANGED <<netVars, sent, kindOf, ring, waitVars, calm>>

\* The socket is connected to its server and receives nothing else: an answer, at any
\* time and any number of times or never, to a message that went there.  The server
\* echoes updates and may refuse anything; a full ring drops what is received.
NetReceive(i, kind) ==
  /\ npc = "idle" /\ socket # 0 /\ wentTo[i] = socket /\ Fresh(i)
  /\ kind = "echo" => kindOf[i] # "text"
  /\ Len(ring) < RingCapacity
  /\ ring' = Append(ring, [id |-> i, kind |-> kind])
  /\ UNCHANGED <<netVars, wireVars, waitVars, calm>>

\* A reassignment is taken up: pending sends leave, the socket closes.
NetReassign ==
  /\ npc = "idle" /\ cstate \in {"Connected", "Connecting"} /\ servers < MaxServers
  /\ cstate' = "Reconnecting" /\ npc' = "assign"
  /\ Flushed
  /\ socket' = 0 /\ calm' = FALSE
  /\ UNCHANGED <<epoch, servers, sent, kindOf, ring, waitVars>>

\* doAssign() opens the socket to the next server ...
NetOpen ==
  /\ npc = "assign"
  /\ servers' = servers + 1 /\ socket' = servers + 1 /\ npc' = "opened"
  /\ UNCHANGED <<cstate, epoch, wireVars, ring, waitVars, calm>>

\* ... and setState(Connecting) starts the session's epoch.
NetConnecting ==
  /\ npc = "opened"
  /\ cstate' = "Connecting" /\ epoch' = epoch + 1 /\ npc' = "idle"
  /\ UNCHANGED <<socket, servers, wireVars, ring, waitVars, calm>>

\* No assignment: the connection has failed and its thread ends.
NetFailed ==
  /\ npc = "assign"
  /\ cstate' = "Failed" /\ npc' = "ended"
  /\ UNCHANGED <<epoch, socket, servers, wireVars, ring, waitVars, calm>>

NetReady ==
  /\ npc = "idle" /\ cstate = "Connecting"
  /\ cstate' = "Connected"
  /\ UNCHANGED <<epoch, socket, servers, npc, wireVars, ring, waitVars, calm>>

-----------------------------------------------------------------------------
(* The game thread. *)

\* Another sender of the process uses up a sequence number.
OtherSend ==
  /\ sent < MaxSends /\ Polled
  /\ sent' = sent + 1 /\ kindOf' = [kindOf EXCEPT ![sent + 1] = "other"]
  /\ bundle' = bundle \cup {sent + 1}
  /\ UNCHANGED <<netVars, wentTo, ring, waitVars, calm>>

\* poll() outside a wait: nothing is awaited.
GamePoll ==
  /\ pc = "idle" /\ ring # << >>
  /\ ring' = << >>
  /\ UNCHANGED <<netVars, wireVars, waitVars, calm>>

\* sendAndWait notes the epoch before it sends.
SendAndWait(echoed) ==
  /\ pc = "idle" /\ sent < MaxSends
  /\ call' = [NoCall EXCEPT !.echoed = echoed, !.epoch = epoch, !.sentEpoch = epoch]
  /\ wait' = NoWait
  /\ pc' = "send" /\ calm' = (npc = "idle")
  /\ UNCHANGED <<netVars, wireVars, ring, confirmed, answered, missed>>

\* Each send takes the next sequence number.
Send ==
  /\ pc = "send" /\ sent < MaxSends /\ Polled
  /\ sent' = sent + 1
  /\ kindOf' = [kindOf EXCEPT ![sent + 1] = IF call.echoed THEN "update" ELSE "text"]
  /\ bundle' = bundle \cup {sent + 1}
  /\ call' = [call EXCEPT !.id = sent + 1, !.tries = @ + 1]
  /\ pc' = "flush"
  /\ UNCHANGED <<netVars, wentTo, ring, wait, confirmed, answered, calm, missed>>

\* The send is refused locally, before or after its sequence number is taken: an empty
\* outcome, or the first attempt's.
SendFailed ==
  /\ pc = "send"
  /\ UNCHANGED sent \/ (sent < MaxSends /\ Polled /\ sent' = sent + 1)
  /\ call' = [call EXCEPT !.tries = @ + 1]
  /\ pc' = IF call.tries = 0 THEN "idle" ELSE "return"
  /\ UNCHANGED <<netVars, kindOf, bundle, wentTo, ring, wait, confirmed, answered, calm, missed>>

\* awaitSequence: flush, then arm the wait, then read the epoch to compare with.
AwaitFlush ==
  /\ pc = "flush"
  /\ Flushed
  /\ pc' = "arm"
  /\ UNCHANGED <<netVars, sent, kindOf, ring, call, wait, confirmed, answered, calm, missed>>

AwaitArm ==
  /\ pc = "arm"
  /\ wait' = [NoWait EXCEPT !.active = TRUE, !.id = call.id, !.epoch = epoch, !.from = socket]
  /\ pc' = "wait"
  /\ UNCHANGED <<netVars, wireVars, ring, call, confirmed, answered, calm, missed>>

\* A wait that takes any echo of its actor for its own.
MatchesActor(e) ==
  IF e.kind = "echo" THEN kindOf[e.id] # "other" ELSE Seq8(e.id) = Seq8(wait.id)

\* An echo matches by uuid and sequence, an error by sequence alone.
Matches(e) ==
  /\ Seq8(e.id) = Seq8(wait.id)
  /\ e.kind = "echo" => kindOf[e.id] # "other"

\* poll(): the first match ends the wait, what follows is only dispatched.
WaitPoll ==
  /\ pc = "wait" /\ ~wait.done
  /\ LET hits == {k \in 1 .. Len(ring) : Matches(ring[k])}
         first == ring[CHOOSE k \in hits : \A j \in hits : k <= j]
     IN wait' = IF hits = {} THEN wait
                ELSE [wait EXCEPT !.done = TRUE, !.by = first.id,
                                  !.acknowledged = (first.kind = "echo"),
                                  !.error = IF first.kind = "echo" THEN @ ELSE first.kind]
  /\ ring' = << >> /\ pc' = "check"
  /\ UNCHANGED <<netVars, wireVars, call, confirmed, answered, calm, missed>>

\* A wait that looks for the reassignment rather than for its outcome.
SessionChangedLeaving ==
  call.echoed /\ call.tries = 1 /\ ~wait.done /\ epoch # wait.epoch /\ cstate = "Reconnecting"

\* The first attempt of an update ends when a new session is connected.
SessionChanged ==
  call.echoed /\ call.tries = 1 /\ ~wait.done /\ epoch # wait.epoch /\ cstate = "Connected"

WaitCheck ==
  /\ pc = "check"
  /\ wait' = [wait EXCEPT !.changed = SessionChanged]
  /\ pc' = IF SessionChanged THEN "after" ELSE "wait"
  /\ missed' = (missed \/ (/\ call.echoed /\ call.tries = 1 /\ ~wait.done /\ ~SessionChanged
                            /\ cstate = "Connected" /\ wentTo[wait.id] \notin {0, socket}
                            /\ wait.from = wentTo[wait.id]))
  /\ UNCHANGED <<netVars, wireVars, ring, call, confirmed, answered, calm>>

\* Answered, or out of time: a timeout outlasts the instant in which the network thread
\* has opened the socket and not yet counted the session.
WaitEnd ==
  /\ pc = "wait" /\ (wait.done \/ npc # "opened")
  /\ wait' = [wait EXCEPT !.active = FALSE]
  /\ pc' = "after"
  /\ UNCHANGED <<netVars, wireVars, ring, call, confirmed, answered, calm, missed>>

IsFirstSendFailure ==
  IF wait.error # "none" THEN wait.error = "Unauthorized" ELSE call.echoed /\ ~wait.acknowledged

\* A sendAndWait that takes every session for confirmed once one was.
RetriesOnce == call.tries = 1 /\ (wait.changed \/ (confirmed = 0 /\ IsFirstSendFailure))

\* A sendAndWait that keeps trying.
RetriesAgain == wait.changed \/ (call.epoch # confirmed /\ IsFirstSendFailure)

\* One retry: after a reassignment, or for a session's first awaited send.
Retries == call.tries = 1 /\ (wait.changed \/ (call.epoch # confirmed /\ IsFirstSendFailure))

AfterWait ==
  /\ pc = "after"
  /\ call' = IF Retries THEN [call EXCEPT !.sentEpoch = epoch] ELSE call
  /\ pc' = IF Retries THEN "send" ELSE "return"
  /\ UNCHANGED <<netVars, wireVars, ring, wait, confirmed, answered, calm, missed>>

\* The session that an accepted send speaks for: where it went, or, for text that never
\* left, where it was meant to go.
Answerer == IF wentTo[call.id] = 0 THEN call.sentEpoch ELSE wentTo[call.id]

\* A sendAndWait that confirms the session as it is by now.
ReturnLate ==
  /\ pc = "return"
  /\ IF wait.acknowledged \/ (~call.echoed /\ wait.error = "none")
     THEN confirmed' = epoch /\ answered' = answered \cup {Answerer}
     ELSE UNCHANGED <<confirmed, answered>>
  /\ pc' = "idle"
  /\ UNCHANGED <<netVars, wireVars, ring, call, wait, calm, missed>>

\* An answer, or the silence that follows text, speaks for the session.
Return ==
  /\ pc = "return"
  /\ IF wait.acknowledged \/ (~call.echoed /\ wait.error = "none")
     THEN confirmed' = call.sentEpoch /\ answered' = answered \cup {Answerer}
     ELSE UNCHANGED <<confirmed, answered>>
  /\ pc' = "idle"
  /\ UNCHANGED <<netVars, wireVars, ring, call, wait, calm, missed>>

Next ==
  \/ \E i \in Ids, kind \in Kinds : NetReceive(i, kind)
  \/ NetFlush \/ NetReassign \/ NetOpen \/ NetConnecting \/ NetFailed \/ NetReady
  \/ OtherSend \/ GamePoll \/ (\E e \in BOOLEAN : SendAndWait(e))
  \/ Send \/ SendFailed \/ AwaitFlush \/ AwaitArm \/ WaitPoll \/ WaitCheck \/ WaitEnd
  \/ AfterWait \/ Return

Spec == Init /\ [][Next]_vars

-----------------------------------------------------------------------------
(* Properties. *)

Sessions == 0 .. MaxServers

\* Types of the state.
TypeOK ==
  /\ cstate \in {"Connected", "Reconnecting", "Connecting", "Failed"}
  /\ npc \in {"idle", "assign", "opened", "ended"}
  /\ epoch \in Sessions /\ socket \in Sessions /\ servers \in Sessions
  /\ sent \in 0 .. MaxSends /\ kindOf \in [Ids -> {"none", "update", "text", "other"}]
  /\ bundle \subseteq 1 .. sent /\ wentTo \in [Ids -> Sessions]
  /\ ring \in Seq([id : Ids, kind : Kinds]) /\ Len(ring) <= RingCapacity
  /\ pc \in {"idle", "send", "flush", "arm", "wait", "check", "after", "return"}
  /\ call.tries \in 0 .. 2 /\ call.epoch \in Sessions /\ call.sentEpoch \in Sessions
  /\ call.id \in 0 .. sent /\ wait.id \in 0 .. sent /\ wait.by \in 0 .. sent
  /\ wait.error \in Kinds \cup {"none"} /\ wait.epoch \in Sessions /\ wait.from \in Sessions
  /\ confirmed \in Sessions /\ answered \subseteq Sessions
  /\ missed \in BOOLEAN

\* What ends a wait is an answer to the very message that is awaited: neither an earlier
\* attempt of the call nor another sender's message, whatever the order of arrival and
\* although only SeqSpan sequence numbers exist (sequence and uuid match in poll()).
AckIsOwn == wait.done => wait.by = wait.id

\* confirmedEpoch_ never vouches for a session that answered nothing: when it is the epoch
\* of the session in place, that session accepted an awaited send.
ConfirmedSound == npc = "idle" /\ confirmed = epoch => epoch \in answered

\* A call during which the connection stays put gives up after one attempt only on a
\* session that has answered before: the first awaited send of a session is retried
\* when it is refused or, for an update, not echoed (sendAndWait).
QuietFirstRetried ==
  pc = "return" /\ calm /\ call.tries = 1 /\ IsFirstSendFailure /\ wentTo[call.id] # 0
    => wentTo[call.id] \in answered

\* An update whose wait began on the session it was sent to is not waited for any longer
\* once the connection is back on another one (the epoch check of awaitSequence).
WaitingIsResent == ~missed
=============================================================================
