------------------------------ MODULE Playback ------------------------------
(***************************************************************************)
(* One playing track: the decoder thread, the bounded channel of PCM to    *)
(* the mixer, the mixer's tick in the speak loop, the handle that requests *)
(* and the monitor hold, and the state cell they all write without a lock. *)
(*                                                                         *)
(* Sound is a sample number of the source, where the decoder really is in  *)
(* it, with the number of seeks that led there.  A tick mixes one frame,   *)
(* FRAME_SIZE_SAMPLES, which is also what the flow controller cuts, so     *)
(* nothing is left in MixerTrack's own pending buffer.  The tape effect    *)
(* lies between the two: it keeps the samples that a ramp has not read.    *)
(* No source sends Opus frames and nothing adds mix layers.  Volume and    *)
(* is_buffering decide nothing here (the latter is an input of             *)
(* MonitorClock); the requests are serialised by the player.               *)
(***************************************************************************)
EXTENDS Integers, Sequences, FiniteSets

CONSTANTS
    SourceLen,  \* samples in the source
    FrameLen,   \* FRAME_SIZE_SAMPLES
    ChunkLens,  \* how many samples one decoded packet may have
    Capacity,   \* chunks the frame channel holds, buffer_duration_ms / 20
    RampLen,    \* frames in a tape ramp, tape_stop_duration_ms
    ReadLens,   \* how many samples a frame of a ramp may read
    Targets,    \* where a seek may be asked to go
    Coarse,     \* how far from there SeekMode::Coarse may land
    MaxFlips,   \* bound: changes of PlayerContext::paused
    MaxSeeks    \* bound: seeks

ASSUME PlaybackAssumption ==
    /\ SourceLen \in Nat /\ MaxFlips \in Nat /\ MaxSeeks \in Nat
    /\ FrameLen \in Nat \ {0} /\ Capacity \in Nat \ {0} /\ RampLen \in Nat
    /\ ChunkLens # {} /\ ChunkLens \subseteq 1 .. SourceLen
    /\ ReadLens # {} /\ ReadLens \subseteq 0 .. FrameLen
    /\ Targets \subseteq 0 .. SourceLen /\ Coarse \in Nat

VARIABLES
    tapeStop,   \* tape.tape_stop of the configuration
    cell,       \* the AtomicU8 with the PlaybackState
    asked,      \* what the requests want: play, pause or stop
    holders,    \* who holds a TrackHandle: the player, the monitor
    monitor,    \* the monitor: watching, or clearing after it saw Stopped
    reaping,    \* a request waits for the mixer's lock to take the track out
    cmds,       \* the channel of DecoderCommands: targets of seeks
    pos,        \* the position cell
    dec,        \* the decoder thread
    chan,       \* the frame channel; the empty chunk marks a seek
    mixed,      \* the mixer has the track, and with it the frame receiver
    mix,        \* the tick in progress: step, state it loaded, frame mixed
    flow,       \* the flow controller: pending_pcm and decoder_done
    tape,       \* the tape effect
    cut,        \* the last frame cut from pending_pcm
    heard,      \* what the tape effect made of it: the sound that was mixed
    flips, seeks

handleVars == <<asked, holders, monitor, reaping, flips>>
mixerVars  == <<mixed, mix, flow, tape, cut, heard>>
vars == <<tapeStop, cell, handleVars, cmds, pos, dec, chan, mixerVars, seeks>>

-----------------------------------------------------------------------------
States == {"Playing", "Paused", "Stopped", "Stopping", "Starting"}
Sound  == [seek : 0 .. MaxSeeks, at : 1 .. SourceLen]

\* The samples of the source after number n, k of them.
Chunk(s, n, k) == [i \in 1 .. k |-> [seek |-> s, at |-> n + i]]

\* A coarse seek to t may land at l, before or after it.
LandsAt(t, l) == l - t \in -Coarse .. Coarse
Landings == {l \in 0 .. SourceLen : \E t \in Targets : LandsAt(t, l)}

FullSpeed == [rate |-> "full", ramp |-> "none", left |-> 0, done |-> FALSE,
              unread |-> <<>>]
IdleTick  == [pc |-> "idle", seen |-> "Stopped", filled |-> FALSE]
EmptyFlow == [pcm |-> <<>>, done |-> FALSE]

(***************************************************************************)
(* start_playback: the decoder is spawned, the track is added to the mixer *)
(* and its monitor started.                                                *)
(***************************************************************************)
Init ==
    /\ tapeStop \in BOOLEAN
    /\ cell = "Playing" /\ asked = "play"
    /\ holders = {"player", "monitor"} /\ monitor = "watching" /\ reaping = FALSE
    /\ cmds = <<>> /\ pos = 0
    /\ dec = [pc |-> "command", seek |-> 0, at |-> 0, out |-> <<>>]
    /\ chan = <<>> /\ mixed = TRUE
    /\ mix = IdleTick /\ flow = EmptyFlow /\ tape = FullSpeed
    /\ cut = <<>> /\ heard = <<>>
    /\ flips = 0 /\ seeks = 0

-----------------------------------------------------------------------------
(* The handle.                                                             *)

\* PlayerContext::set_paused with TrackHandle::pause or play: whatever the
\* cell says, Stopped included, is overwritten.
SetPaused ==
    /\ "player" \in holders /\ flips < MaxFlips
    /\ flips' = flips + 1
    /\ asked' = IF asked = "play" THEN "pause" ELSE "play"
    /\ cell' = IF asked = "play"
                 THEN IF tapeStop THEN "Stopping" ELSE "Paused"
                 ELSE IF tapeStop THEN "Starting" ELSE "Playing"
    /\ UNCHANGED <<tapeStop, holders, monitor, reaping, cmds, pos, dec, chan,
                   mixerVars, seeks>>

\* TrackHandle::seek: the position first, then the command.
Seek ==
    /\ "player" \in holders /\ seeks < MaxSeeks
    /\ seeks' = seeks + 1
    /\ \E t \in Targets :
         /\ pos' = t
         /\ cmds' = IF dec.pc = "ended" THEN cmds ELSE Append(cmds, t)
    /\ UNCHANGED <<tapeStop, cell, handleVars, dec, chan, mixerVars>>

\* PlayerContext::stop_track, alone or as the first step of the paths that
\* then wait for the mixer: the handle is dropped and the monitor aborted.
Stop(reap) ==
    /\ "player" \in holders
    /\ asked' = "stop" /\ cell' = "Stopped"
    /\ holders' = {} /\ monitor' = "ended"
    /\ reaping' = reap
    /\ UNCHANGED <<tapeStop, flips, cmds, pos, dec, chan, mixerVars, seeks>>

\* Mixer::stop_track or stop_all, under the mixer's lock.
Reap ==
    /\ reaping /\ mix.pc = "idle"
    /\ reaping' = FALSE
    /\ cell' = IF mixed THEN "Stopped" ELSE cell
    /\ mixed' = FALSE /\ chan' = <<>> /\ flow' = EmptyFlow /\ tape' = FullSpeed
    /\ UNCHANGED <<tapeStop, asked, holders, monitor, flips, cmds, pos, dec, mix,
                   cut, heard, seeks>>

\* Fault: get_state trusts the cell.
GetStateOfCell ==
    /\ monitor = "watching"
    /\ cell = "Stopped"
    /\ monitor' = "clearing"
    /\ UNCHANGED <<tapeStop, cell, asked, holders, reaping, flips, cmds, pos, dec,
                   chan, mixerVars, seeks>>

\* TrackHandle::get_state in the monitor's tick: the end of the decoder, which
\* drops the command receiver, is the end of the track.
GetState ==
    /\ monitor = "watching"
    /\ cell = "Stopped" \/ dec.pc = "ended"
    /\ cell' = "Stopped"
    /\ monitor' = "clearing"
    /\ UNCHANGED <<tapeStop, asked, holders, reaping, flips, cmds, pos, dec, chan,
                   mixerVars, seeks>>

\* clear_player_state, once the monitor has the player's lock; it then ends.
Clear ==
    /\ monitor = "clearing"
    /\ monitor' = "ended"
    /\ holders' = {}
    /\ UNCHANGED <<tapeStop, cell, asked, reaping, flips, cmds, pos, dec, chan,
                   mixerVars, seeks>>

-----------------------------------------------------------------------------
(* The decoder thread, AudioProcessor::run.                                *)

decRest == <<tapeStop, cell, handleVars, pos, mixerVars, seeks>>

\* Fault: commands are looked at now and then, not before every packet.
CheckCommandsRarely ==
    /\ dec.pc = "command"
    /\ \/ /\ cmds # <<>>
          /\ cmds' = Tail(cmds)
          /\ \E l \in 0 .. SourceLen :
               /\ LandsAt(Head(cmds), l)
               /\ dec' = [dec EXCEPT !.pc = "mark", !.seek = @ + 1, !.at = l]
       \/ /\ dec' = [dec EXCEPT !.pc = IF holders = {} THEN "ended" ELSE "packet"]
          /\ UNCHANGED cmds
    /\ UNCHANGED <<decRest, chan>>

\* check_commands: one command, if there is one, before each packet.  A seek
\* may fail.  A successful one lands near its target (SeekMode::Coarse; where
\* is not looked at) and is marked in the channel.
CheckCommands ==
    /\ dec.pc = "command"
    /\ \/ /\ cmds # <<>>
          /\ cmds' = Tail(cmds)
          /\ \/ \E l \in 0 .. SourceLen :
                  /\ LandsAt(Head(cmds), l)
                  /\ dec' = [dec EXCEPT !.pc = "mark", !.seek = @ + 1, !.at = l]
             \/ dec' = [dec EXCEPT !.pc = "packet"]
       \/ /\ cmds = <<>>
          /\ dec' = [dec EXCEPT !.pc = IF holders = {} THEN "ended" ELSE "packet"]
          /\ UNCHANGED cmds
    /\ UNCHANGED <<decRest, chan>>

\* engine.push of the empty chunk, which blocks on a full channel; that the
\* mixer is gone is ignored here.
Mark ==
    /\ dec.pc = "mark"
    /\ Len(chan) < Capacity \/ ~mixed
    /\ chan' = IF mixed THEN Append(chan, <<>>) ELSE chan
    /\ dec' = [dec EXCEPT !.pc = "packet"]
    /\ UNCHANGED <<decRest, cmds>>

\* next_packet and decode: sound; nothing for this track, or a recoverable
\* error, at which the loop goes round; or the end, clean or by an error.
NextPacket ==
    /\ dec.pc = "packet"
    /\ \/ \E k \in ChunkLens :
            /\ dec.at + k <= SourceLen
            /\ dec' = [dec EXCEPT !.pc = "push", !.at = @ + k,
                                  !.out = Chunk(dec.seek, dec.at, k)]
       \/ dec' = [dec EXCEPT !.pc = "command"]
       \/ dec' = [dec EXCEPT !.pc = "ended"]
    /\ UNCHANGED <<decRest, cmds, chan>>

\* engine.push: blocks on a full channel; false when the mixer has dropped the
\* receiver, which ends the thread.
Push ==
    /\ dec.pc = "push"
    /\ Len(chan) < Capacity \/ ~mixed
    /\ chan' = IF mixed THEN Append(chan, dec.out) ELSE chan
    /\ dec' = [dec EXCEPT !.pc = IF mixed THEN "command" ELSE "ended", !.out = <<>>]
    /\ UNCHANGED <<decRest, cmds>>

-----------------------------------------------------------------------------
(* The mixer's tick, Mixer::mix under the mixer's lock.                    *)

mixRest == <<tapeStop, handleVars, cmds, dec, seeks>>

\* Fault: stopped tracks are skipped and never dropped.
RetainAll ==
    /\ mixed /\ mix.pc = "idle"
    /\ mix' = [mix EXCEPT !.pc = "load"]
    /\ UNCHANGED <<mixRest, cell, pos, mixed, chan, flow, tape, cut, heard>>

\* retain: a stopped track is dropped, and the receiver of its frames.
Retain ==
    /\ mixed /\ mix.pc = "idle"
    /\ IF cell = "Stopped"
         THEN /\ mixed' = FALSE /\ chan' = <<>> /\ flow' = EmptyFlow
              /\ tape' = FullSpeed
              /\ UNCHANGED mix
         ELSE /\ mix' = [mix EXCEPT !.pc = "load"]
              /\ UNCHANGED <<mixed, chan, flow, tape>>
    /\ UNCHANGED <<mixRest, cell, pos, cut, heard>>

\* The rate a ramp leads to.
RateAfter(ramp) == IF ramp = "start" THEN "full" ELSE "still"

\* TapeEffect::tape_to: a ramp of no length sets the rate at once, and nothing
\* will say that it is completed.
TapeTo(ramp) ==
    IF RampLen = 0
      THEN [tape EXCEPT !.rate = RateAfter(ramp), !.ramp = "none"]
      ELSE [tape EXCEPT !.ramp = ramp, !.left = RampLen, !.done = FALSE]

\* The state is loaded; a ramp is started for it unless one is running.
Load ==
    /\ mix.pc = "load"
    /\ IF cell \in {"Paused", "Stopped"}
         THEN mix' = IdleTick /\ UNCHANGED tape
         ELSE /\ mix' = [mix EXCEPT !.pc = "pull", !.seen = cell]
              /\ tape' = IF tape.ramp # "none" \/ cell = "Playing" THEN tape
                         ELSE TapeTo(IF cell = "Stopping" THEN "stop" ELSE "start")
    /\ UNCHANGED <<mixRest, cell, pos, chan, mixed, flow, cut, heard>>

\* The rate and the ramp one frame later.
TapeTurns ==
    IF tape.left > 1
      THEN [tape EXCEPT !.rate = "between", !.left = @ - 1]
      ELSE [tape EXCEPT !.rate = RateAfter(tape.ramp), !.ramp = "none", !.left = 0,
                        !.done = TRUE]

\* TapeEffect::process on one frame.  At full speed the frame passes, and what
\* a ramp left in input_buffer stays there.  Otherwise the frame is put behind
\* what is there: a still tape reads nothing, a ramp reads less than it is fed.
TapeProcess(frame) ==
    LET buffer == tape.unread \o frame IN
    \/ /\ tape.ramp = "none" /\ tape.rate = "full"
       /\ heard' = frame
       /\ UNCHANGED tape
    \/ /\ tape.ramp = "none" /\ tape.rate # "full"
       /\ heard' = <<>>
       /\ tape' = [tape EXCEPT !.unread = buffer]
    \/ /\ tape.ramp # "none"
       /\ \E n \in ReadLens :
            /\ heard' = SubSeq(buffer, 1, n)
            /\ tape' = [TapeTurns EXCEPT !.unread = SubSeq(buffer, n + 1, Len(buffer))]

\* FlowController::try_pop_frame, one look at the channel at a time: the
\* decoder may push in between.
PullChunk ==
    /\ mix.pc = "pull" /\ ~flow.done
    /\ Len(flow.pcm) < FrameLen /\ chan # <<>>
    /\ chan' = Tail(chan)
    /\ flow' = [flow EXCEPT !.pcm = IF Head(chan) = <<>> THEN <<>> ELSE @ \o Head(chan)]
    /\ UNCHANGED <<mixRest, cell, pos, mixed, mix, tape, cut, heard>>

\* Fault: what is left of pending_pcm after a frame is thrown away.
PopFrameAndRest ==
    /\ mix.pc = "pull" /\ Len(flow.pcm) >= FrameLen
    /\ cut' = SubSeq(flow.pcm, 1, FrameLen)
    /\ flow' = [flow EXCEPT !.pcm = <<>>]
    /\ TapeProcess(cut')
    /\ mix' = [mix EXCEPT !.pc = "end", !.filled = TRUE]
    /\ UNCHANGED <<mixRest, cell, pos, chan, mixed>>

\* A whole frame: process_frame, and what that makes of it is added to the mix.
PopFrame ==
    /\ mix.pc = "pull" /\ Len(flow.pcm) >= FrameLen
    /\ cut' = SubSeq(flow.pcm, 1, FrameLen)
    /\ flow' = [flow EXCEPT !.pcm = SubSeq(@, FrameLen + 1, Len(@))]
    /\ TapeProcess(cut')
    /\ mix' = [mix EXCEPT !.pc = "end", !.filled = TRUE]
    /\ UNCHANGED <<mixRest, cell, pos, chan, mixed>>

\* No frame this time: nothing there yet, or the decoder is gone and the
\* channel empty.
NoFrame ==
    /\ mix.pc = "pull" /\ Len(flow.pcm) < FrameLen
    /\ flow.done \/ chan = <<>>
    /\ flow' = [flow EXCEPT !.done = @ \/ dec.pc = "ended"]
    /\ mix' = [mix EXCEPT !.pc = "end", !.filled = FALSE]
    /\ UNCHANGED <<mixRest, cell, pos, chan, mixed, tape, cut, heard>>

\* The end of the tick: the position; Stopped for a track that ended at full
\* speed; and at the end of a ramp the state it led to, decided by the state
\* that was loaded and stored over whatever the cell says by now.
Finish ==
    /\ mix.pc = "end"
    /\ pos' = IF mix.filled THEN pos + FrameLen ELSE pos
    /\ cell' = CASE tape.done /\ mix.seen = "Stopping" -> "Paused"
                 [] tape.done /\ mix.seen = "Starting" -> "Playing"
                 [] flow.done /\ tape.ramp = "none" /\ tape.rate = "full" -> "Stopped"
                 [] OTHER -> cell
    /\ tape' = [tape EXCEPT !.done = FALSE]
    /\ mix' = IdleTick
    /\ UNCHANGED <<mixRest, chan, mixed, flow, cut, heard>>

-----------------------------------------------------------------------------
Handle  == SetPaused \/ Seek \/ (\E reap \in BOOLEAN : Stop(reap)) \/ Reap
Monitor == GetState \/ Clear
Decoder == CheckCommands \/ Mark \/ NextPacket \/ Push
Tick    == Retain \/ Load \/ PullChunk \/ PopFrame \/ NoFrame \/ Finish

Next == Handle \/ Monitor \/ Decoder \/ Tick

Spec == Init /\ [][Next]_vars

(***************************************************************************)
(* Fairness.  The speak loop ticks every 20 ms while there is a voice      *)
(* connection, the monitor too; tokio's mutex hands the mixer's lock to    *)
(* the request that waits for it.  A source gives sound, or ends, sooner   *)
(* or later: the decoder does not go round without either for ever.        *)
(***************************************************************************)
FairSpec ==
    /\ Spec
    /\ WF_vars(Tick) /\ WF_vars(Monitor) /\ WF_vars(Decoder) /\ SF_vars(Reap)
    /\ SF_vars(NextPacket /\ dec'.pc # "command")

-----------------------------------------------------------------------------
\* The cells, the channel within its capacity and the parts of a tick are of
\* their types.
PlaybackTypeOK ==
    /\ tapeStop \in BOOLEAN /\ cell \in States
    /\ asked \in {"play", "pause", "stop"}
    /\ holders \in SUBSET {"player", "monitor"}
    /\ monitor \in {"watching", "clearing", "ended"} /\ reaping \in BOOLEAN
    /\ cmds \in Seq(Targets) /\ pos \in Nat
    /\ dec \in [pc : {"command", "mark", "packet", "push", "ended"},
                seek : 0 .. MaxSeeks, at : 0 .. SourceLen, out : Seq(Sound)]
    /\ chan \in Seq(Seq(Sound)) /\ Len(chan) <= Capacity
    /\ mixed \in BOOLEAN
    /\ mix \in [pc : {"idle", "load", "pull", "end"}, seen : States, filled : BOOLEAN]
    /\ flow \in [pcm : Seq(Sound), done : BOOLEAN]
    /\ tape \in [rate : {"full", "between", "still"}, ramp : {"none", "stop", "start"},
                 left : 0 .. RampLen, done : BOOLEAN, unread : Seq(Sound)]
    /\ cut \in Seq(Sound) /\ heard \in Seq(Sound)
    /\ flips \in 0 .. MaxFlips /\ seeks \in 0 .. MaxSeeks

\* A frame that is cut never has sound from both sides of a seek, nor a gap: the
\* mark in the channel clears what was pending (try_pop_frame).
OneStretch ==
    \A i \in DOMAIN cut :
        /\ cut[i].seek = cut[1].seek
        /\ cut[i].at = cut[1].at + i - 1

\* What may still play from before a seek once it is sent: pending_pcm with a
\* chunk just taken (or the frame being counted and the rest), the channel, the
\* chunk the decoder is at, and one more for each seek that is handled first.
MaxChunk == CHOOSE k \in ChunkLens : \A l \in ChunkLens : l <= k
SeekSlack ==
    IF seeks = 0 THEN 0 ELSE FrameLen - 1 + (Capacity + 1 + seeks) * MaxChunk

\* The position a client is told (get_position) is the position of the frame cut
\* last, exactly so before any seek; after one it is ahead by at most the sound
\* that was on its way when the seek was sent, give or take what a coarse seek
\* is off.
Off == IF seeks = 0 THEN 0 ELSE Coarse
PositionAhead ==
    cut # <<>> /\ mix.pc # "end" /\ cut[FrameLen].seek = seeks
      => pos - cut[FrameLen].at \in -Off .. SeekSlack + Off

\* A chunk is a packet's sound or a mark; the decoder has one in hand only while
\* it pushes; pending_pcm, with the frame just cut from it, is what a pull may
\* leave; a tick is under way only while the mixer has the track.
BuffersInShape ==
    /\ \A i \in DOMAIN chan : Len(chan[i]) \in ChunkLens \cup {0}
    /\ IF dec.pc = "push" THEN Len(dec.out) \in ChunkLens ELSE dec.out = <<>>
    /\ Len(flow.pcm) + (IF mix.filled THEN FrameLen ELSE 0) <= FrameLen - 1 + MaxChunk
    /\ mix.filled => mix.pc = "end"
    /\ ~mixed => mix.pc = "idle"
    /\ dec.seek + Len(cmds) <= seeks
    /\ cut # <<>> => Len(cut) = FrameLen /\ cut[FrameLen].seek <= seeks

\* A place in the sound: the last sample before it, 0 at the source's start,
\* and the number of seeks that led there.
Places == [seek : 0 .. MaxSeeks, at : 0 .. SourceLen]

\* Samples that come one after the other from a place on.
Follow(samples, from) ==
    \A i \in DOMAIN samples : samples[i] = [seek |-> from.seek, at |-> from.at + i]

\* A chunk leads from a place to the place after its sound, a mark to where a
\* later seek landed.
Leads(from, chunk, to) ==
    IF chunk = <<>>
      THEN to.seek > from.seek /\ to.at \in Landings
      ELSE /\ Follow(chunk, from)
           /\ to = [seek |-> from.seek, at |-> from.at + Len(chunk)]

\* The place before pending_pcm, when p is the one behind it.
Front(p) == [seek |-> p.seek, at |-> p.at - Len(flow.pcm)]

\* way[i] is the place behind the i-th chunk of the channel, way[0] the one behind
\* pending_pcm: the sound of pending_pcm, channel and decoder is in one line.
InLine(way) ==
    /\ way[0].at >= Len(flow.pcm)
    /\ Follow(flow.pcm, Front(way[0]))
    /\ \A i \in DOMAIN chan : Leads(way[i - 1], chan[i], way[i])
    /\ \A i \in 0 .. Len(chan) : /\ way[i].seek <= dec.seek
                                 /\ dec.pc = "mark" => way[i].seek < dec.seek
    /\ IF dec.pc = "mark"
         THEN dec.at \in Landings
         ELSE LET end == way[Len(chan)]
              IN  /\ dec.seek = end.seek /\ dec.at = end.at + Len(dec.out)
                  /\ Follow(dec.out, end)

\* The last frame ends where pending_pcm begins, or a mark came in between.
FollowsCut(way) ==
    cut # <<>> =>
        \/ cut[FrameLen] = Front(way[0])
        \/ /\ cut[FrameLen].seek < way[0].seek
           /\ Front(way[0]).at \in Landings

\* The position once the frame that is being mixed is counted.
Told == pos + (IF mix.filled THEN FrameLen ELSE 0)

\* How many of the first n chunks of the channel have sound.
Sounding(n) == Cardinality({i \in 1 .. n : chan[i] # <<>>})

\* The position was set to t, and n chunks and pending_pcm may still be cut
\* before the sound of that seek.
OnItsWay(t, n) ==
    Told >= t /\ Told - t + Len(flow.pcm) + n * MaxChunk <= SeekSlack

\* The same of a seek that landed at l.
LandedOnItsWay(l, n) == \E t \in Targets : LandsAt(t, l) /\ OnItsWay(t, n)

\* The newest seek was reached, or it is in the commands, in the decoder's hands
\* or in the channel (or it was lost, and some seek will never be reached).
SeekIsNear(way) ==
    \/ way[0].seek = seeks /\ Told - Front(way[0]).at \in -Off .. SeekSlack + Off
    \/ way[0].seek < seeks /\ dec.seek + Len(cmds) < seeks
    \/ /\ way[0].seek < seeks /\ cmds # <<>>
       /\ OnItsWay(cmds[Len(cmds)],
                   Sounding(Len(chan)) + Len(cmds) - (IF dec.pc = "command" THEN 1 ELSE 0))
    \/ /\ way[0].seek < seeks /\ cmds = <<>> /\ dec.pc = "mark"
       /\ LandedOnItsWay(dec.at, Sounding(Len(chan)))
    \/ \E i \in DOMAIN chan :
          /\ cmds = <<>> /\ chan[i] = <<>> /\ way[i].seek = seeks
          /\ \A j \in 0 .. i - 1 : way[j].seek < seeks
          /\ LandedOnItsWay(way[i].at, Sounding(i))

\* While the mixer has the track, its sound is in line from the last frame to
\* the decoder, and the newest seek is where the position says.
SoundIsInLine ==
    mixed => \E way \in [0 .. Len(chan) -> Places] :
                InLine(way) /\ FollowsCut(way) /\ SeekIsNear(way)

\* One sample comes before another: an earlier seek led to it, or it comes before
\* the other in the source.
Earlier(a, b) == a.seek < b.seek \/ (a.seek = b.seek /\ a.at < b.at)

\* Samples in order, none of them past the frame cut last.
InOrder(samples) ==
    /\ \A i, j \in DOMAIN samples : i < j => Earlier(samples[i], samples[j])
    /\ \A i \in DOMAIN samples : cut # <<>> /\ ~Earlier(cut[FrameLen], samples[i])

\* The tape lags behind the frames that are cut: what it lets through and what
\* it keeps is in order, each sample there once, although a ramp may begin with
\* samples that an earlier ramp left (TapeEffect's input_buffer).  Without the
\* effect the frame that was cut is the sound that is mixed.
TapeLags ==
    /\ InOrder(heard) /\ InOrder(tape.unread)
    /\ ~tapeStop => /\ tape = FullSpeed /\ heard = cut
                    /\ cell \notin {"Stopping", "Starting"}

\* All of them together.
PlaybackInv ==
    /\ PlaybackTypeOK
    /\ OneStretch
    /\ PositionAhead
    /\ BuffersInShape
    /\ SoundIsInLine
    /\ TapeLags

\* Between two seeks the frames that are cut have every sample once, in order,
\* whatever the sizes of chunks and frames; after a seek they start where it
\* landed, and never go back to the sound of an earlier seek.  (TapeLags says
\* what is mixed of them.)
CutInOrder ==
    [][cut' # cut /\ cut # <<>> =>
         LET old == cut[FrameLen]
             new == cut'[1]
         IN \/ new.seek = old.seek /\ new.at = old.at + 1
            \/ new.seek > old.seek /\ new.at - 1 \in Landings]_vars

\* Without the tape effect, a track that was stopped leaves the mixer and its
\* decoder thread ends, even one that waits for room in the channel: dropping
\* the receiver (Mixer::mix's retain) is what wakes it.
StoppedTrackLeaves ==
    asked = "stop" /\ ~tapeStop ~> ~mixed /\ dec.pc = "ended"

\* A track that is watched does not stay between two states: its tape ramp
\* ends, or its decoder does, and then get_state says Stopped.
RampSettles ==
    monitor = "watching" /\ cell \in {"Stopping", "Starting"}
      ~> cell \notin {"Stopping", "Starting"}

\* A track that was resumed is heard: Playing is stored when the ramp that
\* brings the tape to full speed is over (Mixer::mix, end of a ramp).
PlayingIsAudible == cell = "Playing" => tape.rate # "still"

=============================================================================
