---------------------------- MODULE VoiceGateway ----------------------------
(***************************************************************************)
(* One voice gateway task: the retry loop of VoiceGateway::run, a          *)
(* connection at a time with the tasks it owns (the heartbeat and the      *)
(* speak loop), and what is kept from one connection to the next.          *)
(*                                                                         *)
(* Discord's side is the environment: it may send any message, or none.    *)
(* A handler runs between the select! that picked its message and the next *)
(* one, and the two tasks run meanwhile.  Every state of a task here is at *)
(* an await, where an abort ends it.  DAVE is the gate of MediaGate; its   *)
(* own steps are in module Dave.                                           *)
(***************************************************************************)
EXTENDS Naturals

CONSTANTS
    MaxAttempts,    \* MAX_RECONNECT_ATTEMPTS
    MaxRetries,     \* FailurePolicy::max_retries: attempts that stay silent
    PersistEvery,   \* audio frames between two saves of the RTP state
    RtpMod          \* sequence numbers, 2^16 (and 2^32 nonces) in the code

ASSUME GatewayAssumption ==
    /\ MaxAttempts \in Nat /\ MaxRetries \in 0 .. MaxAttempts
    /\ PersistEvery \in Nat \ {0}
    /\ RtpMod \in Nat \ {0}

VARIABLES
    phase,      \* dial, hello, live, draining, closing, ended or aborted
    outcome,    \* how the last connection ended
    resume,     \* is_resume of the next handshake
    backoff,    \* attempts counted
    saved,      \* PersistentSessionState: whether there is a key (and address)
                \* and a loop used it, and the RTP state; late when that was
                \* stored by a loop that outlived its abort
    conn,       \* the connection: token, voice_failed, address, message at hand
    speak,      \* the speak loop
    stray,      \* RTP state of a loop that start_voice aborted and let go
    frames,     \* frames_sent, modulo PersistEvery; the player resets it
    last,       \* RTP state after the last packet under the key in use
    hb,         \* the heartbeat task and its counters
    gate,       \* DAVE: clear, closed or sealed
    voiceReady, \* what playerUpdate reports as connected
    told        \* whether the client was told of the close frame, if there was one

retryVars == <<phase, outcome, resume, backoff>>
voiceVars == <<saved, speak, stray, frames, last, gate, voiceReady>>
vars == <<retryVars, voiceVars, conn, hb, told>>

-----------------------------------------------------------------------------
(***************************************************************************)
(* Sequence number, timestamp and nonce advance together and wrap around:  *)
(* an RTP state is a number.  It starts at random.                         *)
(***************************************************************************)
NoRtp   == RtpMod
Started == 0 .. RtpMod - 1

NextRtp(r) == (r + 1) % RtpMod

NoSaved == [key |-> "none", rtp |-> NoRtp, late |-> FALSE]
NoLoop  == [pc |-> "none", rtp |-> NoRtp, waited |-> FALSE]
NoBeat  == [pc |-> "off", missed |-> 0, silent |-> 0]

NewConn == [cancelled |-> FALSE, failed |-> FALSE, addr |-> FALSE, busy |-> "none"]

\* The versions of a session description.
Descriptions == {"clear", "dave", "legacy", "unsupported", "malformed"}

\* Close codes, by whether they are retryable and how they are classified.
CloseCodes ==
    { [retryable |-> TRUE,  class |-> "reconnect"],     \* 1000, 1006, 4015, ...
      [retryable |-> TRUE,  class |-> "identify"],      \* 4006, 4009
      [retryable |-> FALSE, class |-> "identify"],      \* 4014
      [retryable |-> FALSE, class |-> "reconnect"],     \* any other
      [retryable |-> FALSE, class |-> "shutdown"] }     \* 4004, 4011, 4021, 4022

-----------------------------------------------------------------------------
(***************************************************************************)
(* The end of a connection: SessionState::shutdown, then what run() does.  *)
(***************************************************************************)
\* shutdown() cancels the token.  Until it has aborted the two tasks they go
\* on, and the speak loop may see the token and save its RTP state.
Ends(o) ==
    /\ phase' = "draining"
    /\ outcome' = o
    /\ conn' = [conn EXCEPT !.cancelled = TRUE, !.busy = "none"]
    /\ UNCHANGED <<resume, speak, stray, frames, last, hb, voiceReady>>

\* Fault: the speak loop is neither aborted nor awaited.
DrainLeavingLoop ==
    /\ phase = "draining"
    /\ phase' = "closing"
    /\ hb' = NoBeat
    /\ conn' = [NewConn EXCEPT !.cancelled = TRUE]
    /\ voiceReady' = FALSE
    /\ UNCHANGED <<outcome, resume, backoff, saved, speak, stray, frames, last, gate, told>>

\* Both tasks are aborted and awaited before voice_ready is cleared.
Drain ==
    /\ phase = "draining"
    /\ phase' = "closing"
    /\ speak' = NoLoop
    /\ hb' = NoBeat
    /\ conn' = [NewConn EXCEPT !.cancelled = TRUE]
    /\ voiceReady' = FALSE
    /\ UNCHANGED <<outcome, resume, backoff, saved, stray, frames, last, gate, told>>

\* A handler that ends the connection and changes nothing else.
JustEnds(o) == Ends(o) /\ UNCHANGED <<saved, backoff, gate, told>>

GateReset == IF gate = "clear" THEN "clear" ELSE "closed"

\* Fault: only a connection error clears what was kept.
RetryKeepingState ==
    /\ phase = "closing"
    /\ IF outcome = "shutdown" \/ backoff >= MaxAttempts
       THEN phase' = "ended" /\ UNCHANGED <<resume, backoff, saved, gate, voiceReady>>
       ELSE /\ phase' = "dial"
            /\ backoff' = backoff + 1
            /\ resume' = (outcome = "reconnect")
            /\ IF outcome \in {"reconnect", "identify"}
               THEN UNCHANGED <<saved, gate, voiceReady>>
               ELSE saved' = NoSaved /\ gate' = GateReset /\ voiceReady' = FALSE
    /\ UNCHANGED <<outcome, conn, speak, stray, frames, last, hb, told>>

\* Fault: an error is retried without counting the attempt.
RetryUncounted ==
    /\ phase = "closing"
    /\ IF outcome = "shutdown" \/ backoff >= MaxAttempts
       THEN phase' = "ended" /\ UNCHANGED <<resume, backoff, saved, gate, voiceReady>>
       ELSE /\ phase' = "dial"
            /\ backoff' = (IF outcome = "error" THEN backoff ELSE backoff + 1)
            /\ resume' = (outcome = "reconnect")
            /\ IF outcome = "reconnect"
               THEN UNCHANGED <<saved, gate, voiceReady>>
               ELSE saved' = NoSaved /\ gate' = GateReset /\ voiceReady' = FALSE
    /\ UNCHANGED <<outcome, conn, speak, stray, frames, last, hb, told>>

\* run(): give up, or sleep and connect again; only a reconnect resumes.
Retry ==
    /\ phase = "closing"
    /\ IF outcome = "shutdown" \/ backoff >= MaxAttempts
       THEN phase' = "ended" /\ UNCHANGED <<resume, backoff, saved, gate, voiceReady>>
       ELSE /\ phase' = "dial"
            /\ backoff' = backoff + 1
            /\ resume' = (outcome = "reconnect")
            /\ IF outcome = "reconnect"
               THEN UNCHANGED <<saved, gate, voiceReady>>
               ELSE saved' = NoSaved /\ gate' = GateReset /\ voiceReady' = FALSE
    /\ UNCHANGED <<outcome, conn, speak, stray, frames, last, hb, told>>

\* The player aborts the task: dropping SessionState aborts its two tasks.
Abort ==
    /\ phase \notin {"ended", "aborted"}
    /\ phase' = "aborted"
    /\ speak' = NoLoop
    /\ hb' = NoBeat
    /\ conn' = NewConn
    /\ UNCHANGED <<outcome, resume, backoff, saved, stray, frames, last, gate, voiceReady, told>>

-----------------------------------------------------------------------------
(***************************************************************************)
(* connect().                                                              *)
(***************************************************************************)
Dial ==
    /\ phase = "dial"
    /\ phase' = "hello"
    /\ conn' = NewConn
    /\ outcome' = "none"
    /\ told' = "none"
    /\ UNCHANGED <<resume, backoff, voiceVars, hb>>

DialFails ==
    /\ phase = "dial"
    /\ phase' = "closing"
    /\ outcome' = "error"
    /\ told' = "none"
    /\ UNCHANGED <<resume, backoff, voiceVars, conn, hb>>

\* select!, biased: a message is taken only when the connection is not
\* cancelled; the wait for the first one looks at nothing else.  The peer may
\* send what was not asked for.
Reads ==
    /\ phase = "hello" \/ (phase = "live" /\ ~conn.cancelled)
    /\ conn.busy = "none"

\* The messages whose handlers await something: what was read is at hand
\* meanwhile.  HELLO, a close frame and an acknowledgment are handled at once.
Messages == {"ready", "description", "resumed", "dave", "broken"}

Receive(m) ==
    /\ Reads
    /\ conn' = [conn EXCEPT !.busy = m]
    /\ UNCHANGED <<retryVars, voiceVars, hb, told>>

\* The cancelled token is seen at the next select!.
CancelSeen ==
    /\ phase = "live"
    /\ conn.busy = "none"
    /\ conn.cancelled
    /\ JustEnds(IF conn.failed THEN "identify" ELSE "reconnect")

Handles(m) == phase \in {"hello", "live"} /\ conn.busy = m

\* A handler that lets the connection go on and touches no task.  After the
\* first message the connection must have a heartbeat, so anything but HELLO
\* ends it there.
GoesOn(c) ==
    IF phase = "live"
    THEN /\ conn' = [c EXCEPT !.busy = "none"]
         /\ UNCHANGED <<phase, outcome, resume, saved, speak, stray, frames, last, hb,
                        voiceReady>>
    ELSE Ends("reconnect") /\ UNCHANGED saved

\* The write queue is full or gone: send_json cancels the token.
WriteFails ==
    /\ phase = "live"
    /\ conn.busy \in {"ready", "description", "resumed", "dave"}
    /\ ~conn.cancelled
    /\ conn' = [conn EXCEPT !.cancelled = TRUE]
    /\ UNCHANGED <<retryVars, voiceVars, hb, told>>

-----------------------------------------------------------------------------
(***************************************************************************)
(* The handlers.                                                           *)
(***************************************************************************)
\* on_hello, then the handshake, which is_resume was for; a second HELLO forces
\* a new identify.
OnHello ==
    /\ Reads
    /\ IF hb.pc # "off" THEN JustEnds("identify")
       ELSE /\ hb' = [NoBeat EXCEPT !.pc = "idle"]
            /\ phase' = "live"
            /\ conn' = [conn EXCEPT !.busy = "none"]
            /\ resume' = FALSE
            /\ UNCHANGED <<outcome, backoff, voiceVars, told>>

\* The handlers that only fail: a HELLO without interval, a malformed READY,
\* one without a mode we know or whose IP discovery fails, a bad secret_key,
\* the end of the stream, and an acknowledgment instead of HELLO.
OnBroken ==
    /\ Handles("broken")
    /\ JustEnds("reconnect")

OnReady ==
    /\ Handles("ready")
    /\ backoff' = 0
    /\ GoesOn([conn EXCEPT !.addr = TRUE])
    /\ UNCHANGED <<gate, told>>

\* The speak loop looks at the token before every tick, and only there.
AtTop == IF conn.cancelled THEN "exit" ELSE "wait"

\* start_voice: the old loop is aborted and awaited; when that takes two seconds
\* the connection is given up and no loop starts, but the old one is only let
\* go.  (One such loop at a time is a bound of the model.)
StartVoice(key) ==
    /\ voiceReady' = FALSE
    /\ \/ /\ \E r \in IF saved.rtp = NoRtp THEN Started ELSE {saved.rtp} :
                speak' = [NoLoop EXCEPT !.pc = AtTop, !.rtp = r]
          /\ conn' = [conn EXCEPT !.busy = "none", !.addr = TRUE]
          /\ saved' = [saved EXCEPT !.key = "used"]
          /\ last' = IF key = "new" THEN NoRtp ELSE last
          /\ UNCHANGED stray
       \/ /\ speak.pc # "none" /\ stray = NoRtp
          /\ speak' = NoLoop
          /\ stray' = speak.rtp
          /\ conn' = [conn EXCEPT !.busy = "none", !.cancelled = TRUE]
          /\ saved' = [saved EXCEPT !.key = key]
          /\ UNCHANGED last

\* on_session_description: the key is kept before DAVE is set up.  An active
\* DAVE session keeps its keys while the next one is prepared.
OnDescription(v) ==
    /\ Handles("description")
    /\ IF ~conn.addr THEN JustEnds("reconnect")
       ELSE /\ UNCHANGED told
            /\ \/ /\ v = "malformed"
                  /\ Ends("reconnect")
                  /\ saved' = [saved EXCEPT !.key = "new"]
                  /\ UNCHANGED <<backoff, gate>>
               \/ /\ v = "legacy" /\ gate # "clear"
                  /\ Ends("identify")
                  /\ saved' = [saved EXCEPT !.key = "new"]
                  /\ UNCHANGED <<backoff, gate>>
               \/ /\ v = "unsupported"
                  /\ Ends("identify")
                  /\ saved' = [saved EXCEPT !.key = "new"]
                  /\ gate' = "closed"
                  /\ UNCHANGED backoff
               \/ /\ v \in {"clear", "dave"} \/ (v = "legacy" /\ gate = "clear")
                  /\ gate' \in IF v = "dave" THEN {"closed"} \cup ({gate} \ {"clear"})
                                             ELSE {"clear"}
                  /\ StartVoice("new")
                  /\ backoff' = 0
                  /\ UNCHANGED <<phase, outcome, resume, frames, hb>>

\* on_resumed: with a saved key the voice loop goes on or is started again; the
\* attempts are not reset.  Before the first select! there is no speaking_tx and
\* no heartbeat: nothing starts and the connection ends.
OnResumed ==
    /\ Handles("resumed")
    /\ IF saved.key = "none" THEN JustEnds("identify")
       ELSE IF phase = "hello" THEN JustEnds("reconnect")
       ELSE /\ IF speak.pc # "none"
               THEN /\ conn' = [conn EXCEPT !.busy = "none", !.addr = TRUE]
                    /\ UNCHANGED <<saved, speak, stray, last, voiceReady>>
               ELSE StartVoice(saved.key)
            /\ UNCHANGED <<retryVars, frames, hb, gate, told>>

\* A DAVE message: whatever the gate does.
OnDave ==
    /\ Handles("dave")
    /\ gate' \in {"clear", "closed", "sealed"}
    /\ GoesOn(conn)
    /\ UNCHANGED <<backoff, told>>

\* A close frame: its code says what follows, and whether the client is told.
OnClose(code) ==
    /\ Reads
    /\ told' = IF code.retryable /\ backoff < MaxRetries THEN "quiet" ELSE "told"
    /\ Ends(code.class)
    /\ UNCHANGED <<saved, backoff, gate>>

-----------------------------------------------------------------------------
(***************************************************************************)
(* The heartbeat task, and its acknowledgments in the read loop.  silent   *)
(* counts the heartbeats sent since the last acknowledgment that matched.  *)
(***************************************************************************)
\* Fault: three misses are let pass.
TickBeatLater ==
    /\ hb.pc = "idle"
    /\ conn.busy # "ticked"
    /\ IF hb.missed >= 3
       THEN hb' = [hb EXCEPT !.pc = "dead"] /\ conn' = [conn EXCEPT !.cancelled = TRUE]
       ELSE /\ hb' = [hb EXCEPT !.pc = "send", !.missed = @ + 1]
            /\ conn' = [conn EXCEPT !.busy = IF @ = "acked" THEN "ticked" ELSE @]
    /\ UNCHANGED <<retryVars, voiceVars, told>>

\* Fault: the task ends without cancelling the connection.
TickBeatQuietly ==
    /\ hb.pc = "idle"
    /\ conn.busy # "ticked"
    /\ hb' = IF hb.missed >= 2 THEN [hb EXCEPT !.pc = "dead"]
             ELSE [hb EXCEPT !.pc = "send", !.missed = @ + 1]
    /\ UNCHANGED <<retryVars, voiceVars, conn, told>>

\* The counter is read and raised first.  A heartbeat interval is long: at
\* most one tick falls between the two steps of an acknowledgment.
TickBeat ==
    /\ hb.pc = "idle"
    /\ conn.busy # "ticked"
    /\ IF hb.missed >= 2
       THEN hb' = [hb EXCEPT !.pc = "dead"] /\ conn' = [conn EXCEPT !.cancelled = TRUE]
       ELSE /\ hb' = [hb EXCEPT !.pc = "send", !.missed = @ + 1]
            /\ conn' = [conn EXCEPT !.busy = IF @ = "acked" THEN "ticked" ELSE @]
    /\ UNCHANGED <<retryVars, voiceVars, told>>

\* Then the nonce is stored and sent.
SendBeat ==
    /\ hb.pc = "send"
    /\ hb' = [hb EXCEPT !.pc = "idle", !.silent = @ + 1]
    /\ conn' = [conn EXCEPT !.busy = IF @ = "acked" THEN "ticked" ELSE @]
    /\ UNCHANGED <<retryVars, voiceVars, told>>

SendBeatFails ==
    /\ hb.pc = "send"
    /\ hb' = [hb EXCEPT !.pc = "dead"]
    /\ conn' = [conn EXCEPT !.cancelled = TRUE]
    /\ UNCHANGED <<retryVars, voiceVars, told>>

\* validate_ack compares, then resets; on_heartbeat_ack resets once more, at
\* once.  The nonce matches until the next one is stored, as often as it comes;
\* an acknowledgment of any other nonce changes nothing.
AckMatches ==
    /\ Reads /\ phase = "live"
    /\ hb' = [hb EXCEPT !.silent = 0]
    /\ conn' = [conn EXCEPT !.busy = "acked"]
    /\ UNCHANGED <<retryVars, voiceVars, told>>

\* Fault: the counter is left alone.
AckUncounted ==
    /\ Handles("acked") \/ Handles("ticked")
    /\ conn' = [conn EXCEPT !.busy = "none"]
    /\ UNCHANGED <<retryVars, voiceVars, hb, told>>

AckResets ==
    /\ Handles("acked") \/ Handles("ticked")
    /\ hb' = [hb EXCEPT !.missed = 0]
    /\ conn' = [conn EXCEPT !.busy = "none"]
    /\ UNCHANGED <<retryVars, voiceVars, told>>

-----------------------------------------------------------------------------
(***************************************************************************)
(* The speak loop.                                                         *)
(***************************************************************************)
\* Fault: the wait is started afresh at every closed tick.
TickClosedAfresh ==
    /\ speak.pc = "wait"
    /\ gate = "closed"
    /\ voiceReady' = FALSE
    /\ speak' = [speak EXCEPT !.pc = IF frames = 0 THEN "persist" ELSE AtTop]
    /\ UNCHANGED <<retryVars, saved, stray, frames, last, gate, conn, hb, told>>

\* A closed gate: nothing is taken from the mixer or sent.
TickClosed ==
    /\ speak.pc = "wait"
    /\ gate = "closed"
    /\ voiceReady' = FALSE
    /\ speak' = [speak EXCEPT !.waited = TRUE,
                              !.pc = IF frames = 0 THEN "persist" ELSE AtTop]
    /\ UNCHANGED <<retryVars, saved, stray, frames, last, gate, conn, hb, told>>

\* An open gate: an audio frame, a frame of silence, or nothing to send.  The
\* silence that goes before the first audio packet is a tick of its own here.
TickOpen(audio, packet) ==
    /\ speak.pc = "wait"
    /\ gate # "closed"
    /\ audio => packet
    /\ voiceReady' = TRUE
    /\ frames' = IF audio THEN (frames + 1) % PersistEvery ELSE frames
    /\ LET r == IF packet THEN NextRtp(speak.rtp) ELSE speak.rtp
       IN  /\ speak' = [speak EXCEPT !.waited = FALSE, !.rtp = r,
                                     !.pc = IF frames' = 0 THEN "persist" ELSE AtTop]
           /\ last' = IF packet THEN r ELSE last
    /\ UNCHANGED <<retryVars, saved, stray, gate, conn, hb, told>>

Persist ==
    /\ speak.pc = "persist"
    /\ saved' = [saved EXCEPT !.rtp = speak.rtp, !.late = FALSE]
    /\ speak' = [speak EXCEPT !.pc = AtTop]
    /\ UNCHANGED <<retryVars, stray, frames, last, gate, voiceReady, conn, hb, told>>

\* The loop saw the token and ends in peace.
LoopExits ==
    /\ speak.pc = "exit"
    /\ saved' = [saved EXCEPT !.rtp = speak.rtp, !.late = FALSE]
    /\ speak' = NoLoop
    /\ voiceReady' = FALSE
    /\ UNCHANGED <<retryVars, stray, frames, last, gate, conn, hb, told>>

\* The wait for DAVE ran out, or encoder, encryption or transport failed.
LoopFails ==
    /\ speak.pc = "wait"
    /\ gate = "closed" => speak.waited
    /\ speak' = NoLoop
    /\ conn' = [conn EXCEPT !.failed = TRUE, !.cancelled = TRUE]
    /\ voiceReady' = FALSE
    /\ UNCHANGED <<retryVars, saved, stray, frames, last, gate, hb, told>>

\* A loop that was let go is in the middle of a tick, mixing or encoding, past
\* the place where it reports voice ready.  It may send that frame, under a key
\* that is no longer in use; then it sees its cancelled token, or the abort
\* reaches it at an await before or after it has saved its RTP state.
StrayEnds(audio) ==
    /\ stray # NoRtp
    /\ stray' = NoRtp
    /\ saved' \in {saved} \cup
          {[saved EXCEPT !.rtp = r, !.late = TRUE] : r \in {stray, NextRtp(stray)}}
    /\ frames' = IF audio THEN (frames + 1) % PersistEvery ELSE frames
    /\ voiceReady' \in {voiceReady, FALSE}
    /\ UNCHANGED <<retryVars, speak, last, gate, conn, hb, told>>

\* The player takes frames_sent when a track ends (stop_current_track).
TakeFrames ==
    /\ frames' = 0
    /\ UNCHANGED <<retryVars, saved, speak, stray, last, gate, voiceReady, conn, hb, told>>

-----------------------------------------------------------------------------
Init ==
    /\ phase = "dial" /\ outcome = "none" /\ resume = FALSE /\ backoff = 0
    /\ saved = NoSaved /\ conn = NewConn
    /\ speak = NoLoop /\ stray = NoRtp /\ frames = 0 /\ last = NoRtp
    /\ hb = NoBeat
    /\ gate = "clear" /\ voiceReady = FALSE /\ told = "none"

ReadNext ==
    \/ \E m \in Messages : Receive(m)
    \/ OnHello \/ OnBroken \/ OnReady \/ OnResumed \/ OnDave
    \/ \E v \in Descriptions : OnDescription(v)
    \/ \E c \in CloseCodes : OnClose(c)
    \/ AckMatches \/ AckResets

SpeakNext ==
    \/ TickClosed \/ Persist \/ LoopExits \/ LoopFails
    \/ \E a, p \in BOOLEAN : TickOpen(a, p)
    \/ \E a \in BOOLEAN : StrayEnds(a)
    \/ TakeFrames

Next ==
    \/ Dial \/ DialFails \/ Drain \/ Retry \/ Abort \/ CancelSeen \/ WriteFails
    \/ ReadNext
    \/ TickBeat \/ SendBeat \/ SendBeatFails
    \/ SpeakNext

Spec == Init /\ [][Next]_vars

\* The timers run: the heartbeat's, the speak loop's and the wait for DAVE; a
\* handler that was entered ends, and run() goes on after a connection.
Handling ==
    \/ OnBroken \/ OnReady \/ OnResumed \/ OnDave \/ AckResets
    \/ \E v \in Descriptions : OnDescription(v)

Fairness ==
    /\ WF_vars(TickBeat) /\ WF_vars(SendBeat)
    /\ WF_vars(Handling) /\ WF_vars(CancelSeen)
    /\ WF_vars(Dial \/ DialFails) /\ WF_vars(Drain) /\ WF_vars(Retry)
    /\ WF_vars(TickClosed) /\ WF_vars(Persist) /\ WF_vars(LoopExits)
    /\ SF_vars(gate = "closed" /\ LoopFails)

FairSpec == Spec /\ Fairness

-----------------------------------------------------------------------------
\* The parts of a connection.
KeptType == [key : {"none", "new", "used"}, rtp : 0 .. RtpMod, late : BOOLEAN]
ConnType == [cancelled : BOOLEAN, failed : BOOLEAN, addr : BOOLEAN,
             busy : Messages \cup {"none", "acked", "ticked"}]
LoopType == [pc : {"none", "wait", "persist", "exit"}, rtp : 0 .. RtpMod,
             waited : BOOLEAN]
BeatType == [pc : {"off", "idle", "send", "dead"}, missed : Nat, silent : Nat]

\* The attempts are bounded, and the parts of a connection are of their types.
GatewayTypeOK ==
    /\ phase \in {"dial", "hello", "live", "draining", "closing", "ended", "aborted"}
    /\ outcome \in {"none", "reconnect", "identify", "shutdown", "error"}
    /\ resume \in BOOLEAN
    /\ backoff \in 0 .. MaxAttempts
    /\ saved \in KeptType
    /\ conn \in ConnType
    /\ speak \in LoopType
    /\ stray \in 0 .. RtpMod /\ last \in 0 .. RtpMod
    /\ frames \in 0 .. PersistEvery - 1
    /\ hb \in BeatType
    /\ gate \in {"clear", "closed", "sealed"}
    /\ voiceReady \in BOOLEAN /\ told \in {"none", "quiet", "told"}

\* A connection that identifies starts from nothing: no key, no RTP state and
\* no DAVE keys of the session before it (mod.rs:131, 155).  The one exception
\* is an RTP state that a loop which outlived its abort stored since then.
IdentifyIsFresh ==
    phase \in {"dial", "hello"} /\ ~resume =>
        /\ saved.key = "none"
        /\ saved.rtp = NoRtp \/ saved.late
        /\ gate # "sealed"

\* The player is reported connected only during a connection, whatever its
\* speak loop was doing when it ended, a loop that outlived its abort included
\* (handler.rs:773).
ReadyOnlyLive == voiceReady => phase \in {"live", "draining", "aborted"}

\* A close frame after which the gateway does not come back is always told to
\* the client, be it final or the one at which the attempts are used up: what is
\* kept quiet is retried (policy.rs:20, mod.rs:124, 343).
LastCloseIsTold ==
    /\ phase = "ended" => told # "quiet"
    /\ phase \in {"hello", "live"} => told = "none"
    /\ outcome = "shutdown" => told = "told"
    /\ phase \in {"draining", "closing"} /\ told = "quiet" => backoff < MaxRetries

\* The speak loop and the heartbeat belong to a live connection, or to one that
\* is being shut down (handler.rs:773), and so does the address of READY.
TasksAreLive ==
    \/ phase \in {"live", "draining"}
    \/ /\ speak.pc = "none" /\ ~conn.addr
       /\ hb.pc = "off" /\ hb.missed = 0 /\ hb.silent = 0

\* A peer that stops answering is given up after at most three heartbeats: two,
\* and one more that was sent while its last answer was read (heartbeat.rs:80).
DeadPeerNoticed == hb.silent <= 3

\* missed_acks is behind the heartbeats by one at most, the one that is sent
\* while an answer resets it, and ahead of them only while that is going on.
Sending == IF hb.pc = "send" THEN 1 ELSE 0
MissedCounts ==
    /\ hb.missed <= 2
    /\ hb.silent + Sending <= hb.missed + 1
    /\ conn.busy = "acked" => hb.silent = 0
    /\ IF conn.busy \in {"acked", "ticked"} THEN hb.silent + Sending <= 1
       ELSE hb.pc # "dead" => hb.missed <= hb.silent + Sending

\* The five together.
GatewayInv ==
    GatewayTypeOK /\ LastCloseIsTold /\ TasksAreLive /\ DeadPeerNoticed /\ MissedCounts

\* It is given up only for two unanswered heartbeats, or one whose answer is
\* being read at that moment.
AnswerKeepsAlive ==
    [][hb.pc = "idle" /\ hb'.pc = "dead" => hb.silent >= 2 \/ conn.busy = "acked"]_vars

\* A live connection hears from its peer or ends.
SilentPeerDropped == phase = "live" ~> (conn.busy # "none" \/ phase # "live")

\* A speak loop never waits for DAVE for ever: the gate opens, the loop fails,
\* or a new session description replaces it (voice.rs:236).
DaveWaitEnds ==
    (speak.pc # "none" /\ gate = "closed")
        ~> (speak.pc = "none" \/ gate # "closed" \/ conn.busy = "description")

\* A gateway that connects again and again is answered with READY or a
\* description again and again: other attempts are bounded (mod.rs:123, 146).
RetriesBounded == []<>(phase = "closing") => []<>(conn.busy \in {"ready", "description"})

\* Under one key a packet follows the packet before it, over a resume too:
\* "reconnect does not reset the sequence".
SequenceContinues ==
    [][last # NoRtp /\ last' \notin {last, NoRtp} => last' = NextRtp(last)]_vars
=============================================================================
