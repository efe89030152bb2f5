------------------------------ MODULE AudioRing ------------------------------
(***************************************************************************)
(* The lock-free ring between the emulation thread and the audio device    *)
(* (Program::audioPushFrame, audioRead and setAudioEnabled in              *)
(* target-kintsuki/program.cpp) and the engine that starts and stops the   *)
(* device around it (app/Sources/Kintsuki/AudioOutput.swift).              *)
(*                                                                         *)
(* The two threads interleave at every load and store of shared memory.    *)
(* Starting, stopping and pushing are all done by the main thread.  The    *)
(* atomics are release/acquire and the samples they guard are written      *)
(* before and read after them, so that steps happen in program order.      *)
(* A stereo frame is its number, once per channel.  Mixing, muting and the *)
(* planar output buffers are left out.                                     *)
(***************************************************************************)
EXTENDS Integers, Sequences

CONSTANTS
    RingFrames,   \* Program::audioRingFrames
    Wrap,         \* the free-running u32 indices wrap here (2^32)
    Requests,     \* how many frames the device may ask for
    PushBound     \* bound: frames the core produces

ASSUME RingAssumption == RingFrames \in Nat \ {0}
ASSUME WrapAssumption == Wrap \in Nat \ {0} /\ Wrap % RingFrames = 0 /\ Wrap > RingFrames
ASSUME RequestsAssumption == Requests \subseteq Nat
ASSUME PushAssumption == PushBound \in Nat

VARIABLES
    audioRing,      \* RingFrames stereo frames
    audioWriteIdx,
    audioReadIdx,
    audioEnabled,
    emu,            \* audioPushFrame(): where it is and its locals w, rd
    device,         \* audioRead(): where it is, its locals, and what it copied
    running,        \* AudioOutput.running
    produced,       \* frames the core has produced
    since,          \* produced when the ring was last flushed
    delivered       \* what the last audioRead() returned

vars == <<audioRing, audioWriteIdx, audioReadIdx, audioEnabled, emu, device,
          running, produced, since, delivered>>

Cell(i) == i % RingFrames

\* Unsigned subtraction.
Fill(w, rd) == (w - rd) % Wrap

IdleEmu == [at |-> "idle", w |-> 0]
IdleDevice == [at |-> "idle", frames |-> 0, rd |-> 0, n |-> 0, out |-> << >>]

-----------------------------------------------------------------------------
(* The producer, inside kintsuki_run_frames() *)

\* Fault: one frame too many before the ring counts as full.
FullTooLate(w, rd) == Fill(w, rd) > RingFrames

Full(w, rd) == Fill(w, rd) >= RingFrames

\* Program::audio() hands over a frame; it is dropped when the ring is full.
PushBegin ==
    /\ emu.at = "idle"
    /\ audioEnabled
    /\ produced < PushBound
    /\ produced' = produced + 1
    /\ emu' = IF Full(audioWriteIdx, audioReadIdx) THEN emu
              ELSE [at |-> "left", w |-> audioWriteIdx]
    /\ UNCHANGED <<audioRing, audioWriteIdx, audioReadIdx, audioEnabled, device,
                   running, since, delivered>>

\* Fault: the index is published before the second channel is written.
PublishEarly ==
    /\ emu.at = "left"
    /\ audioRing' = [audioRing EXCEPT ![Cell(emu.w)].l = produced]
    /\ audioWriteIdx' = (emu.w + 1) % Wrap
    /\ emu' = [emu EXCEPT !.at = "right"]
    /\ UNCHANGED <<audioReadIdx, audioEnabled, device, running, produced, since, delivered>>

PushLeft ==
    /\ emu.at = "left"
    /\ audioRing' = [audioRing EXCEPT ![Cell(emu.w)].l = produced]
    /\ emu' = [emu EXCEPT !.at = "right"]
    /\ UNCHANGED <<audioWriteIdx, audioReadIdx, audioEnabled, device, running,
                   produced, since, delivered>>

PushRight ==
    /\ emu.at = "right"
    /\ audioRing' = [audioRing EXCEPT ![Cell(emu.w)].r = produced]
    /\ emu' = [emu EXCEPT !.at = "publish"]
    /\ UNCHANGED <<audioWriteIdx, audioReadIdx, audioEnabled, device, running,
                   produced, since, delivered>>

\* Fault: the index is not reduced.
PublishUnwrapped ==
    /\ emu.at = "publish"
    /\ audioWriteIdx' = emu.w + 1
    /\ emu' = IdleEmu
    /\ UNCHANGED <<audioRing, audioReadIdx, audioEnabled, device, running,
                   produced, since, delivered>>

PushPublish ==
    /\ emu.at = "publish"
    /\ audioWriteIdx' = (emu.w + 1) % Wrap
    /\ emu' = IdleEmu
    /\ UNCHANGED <<audioRing, audioReadIdx, audioEnabled, device, running,
                   produced, since, delivered>>

-----------------------------------------------------------------------------
(* The consumer: the render callback of the audio device *)

\* The callback begins and audioRead() loads its own index.
ReadBegin(frames) ==
    /\ running
    /\ device.at = "idle"
    /\ device' = [IdleDevice EXCEPT !.at = "write", !.frames = frames, !.rd = audioReadIdx]
    /\ UNCHANGED <<audioRing, audioWriteIdx, audioReadIdx, audioEnabled, emu, running,
                   produced, since, delivered>>

Least(m, n) == IF m < n THEN m ELSE n

ReadAvailable ==
    /\ device.at = "write"
    /\ device' = [device EXCEPT !.at = "copy",
                                !.n = Least(device.frames, Fill(audioWriteIdx, device.rd))]
    /\ UNCHANGED <<audioRing, audioWriteIdx, audioReadIdx, audioEnabled, emu, running,
                   produced, since, delivered>>

NextCell == Cell(device.rd + Len(device.out))

ReadLeft ==
    /\ device.at = "copy"
    /\ Len(device.out) < device.n
    /\ device' = [device EXCEPT !.at = "right",
                                !.out = Append(@, [l |-> audioRing[NextCell].l, r |-> 0])]
    /\ UNCHANGED <<audioRing, audioWriteIdx, audioReadIdx, audioEnabled, emu, running,
                   produced, since, delivered>>

ReadRight ==
    /\ device.at = "right"
    /\ device' = [device EXCEPT !.at = "copy",
                    !.out[Len(device.out)].r = audioRing[Cell(device.rd + Len(device.out) - 1)].r]
    /\ UNCHANGED <<audioRing, audioWriteIdx, audioReadIdx, audioEnabled, emu, running,
                   produced, since, delivered>>

\* Fault: the frames that were copied are not given back.
ReadKeepsFrames ==
    /\ device.at = "copy"
    /\ Len(device.out) = device.n
    /\ delivered' = device.out
    /\ device' = IdleDevice
    /\ UNCHANGED <<audioRing, audioWriteIdx, audioReadIdx, audioEnabled, emu, running,
                   produced, since>>

\* The frames are given back and the callback returns; the rest is silence.
ReadEnd ==
    /\ device.at = "copy"
    /\ Len(device.out) = device.n
    /\ audioReadIdx' = (device.rd + device.n) % Wrap
    /\ delivered' = device.out
    /\ device' = IdleDevice
    /\ UNCHANGED <<audioRing, audioWriteIdx, audioEnabled, emu, running, produced, since>>

-----------------------------------------------------------------------------
(* Starting and stopping, on the main thread, between frames *)

\* Program::setAudioEnabled(): nothing, or a flush on either transition.
SetAudioEnabled(enable) ==
    IF enable = audioEnabled THEN UNCHANGED <<audioEnabled, audioReadIdx, since>>
    ELSE /\ audioEnabled' = enable
         /\ audioReadIdx' = audioWriteIdx
         /\ since' = produced

\* AudioOutput.start(), whose engine starts.
Start ==
    /\ emu.at = "idle"
    /\ ~running
    /\ SetAudioEnabled(TRUE)
    /\ running' = TRUE
    /\ UNCHANGED <<audioRing, audioWriteIdx, emu, device, produced, delivered>>

\* AudioOutput.start(), whose engine does not: enabled, then disabled again.
StartFails ==
    /\ emu.at = "idle"
    /\ ~running
    /\ audioEnabled' = FALSE
    /\ audioReadIdx' = audioWriteIdx
    /\ since' = produced
    /\ UNCHANGED <<audioRing, audioWriteIdx, emu, device, running, produced, delivered>>

\* Fault: the ring is flushed before the engine has quiesced.
StopAtOnce ==
    /\ emu.at = "idle"
    /\ running
    /\ SetAudioEnabled(FALSE)
    /\ running' = FALSE
    /\ UNCHANGED <<audioRing, audioWriteIdx, emu, device, produced, delivered>>

\* AudioOutput.stop(): engine.stop() blocks until the render thread is out of
\* its callback.
Stop ==
    /\ emu.at = "idle"
    /\ device.at = "idle"
    /\ running
    /\ SetAudioEnabled(FALSE)
    /\ running' = FALSE
    /\ UNCHANGED <<audioRing, audioWriteIdx, emu, device, produced, delivered>>

Init ==
    /\ audioRing = [c \in 0 .. RingFrames - 1 |-> [l |-> 0, r |-> 0]]
    /\ audioWriteIdx = 0
    /\ audioReadIdx = 0
    /\ audioEnabled = FALSE
    /\ emu = IdleEmu
    /\ device = IdleDevice
    /\ running = FALSE
    /\ produced = 0
    /\ since = 0
    /\ delivered = << >>

Producer == PushBegin \/ PushLeft \/ PushRight \/ PushPublish

Consumer ==
    \/ \E frames \in Requests : ReadBegin(frames)
    \/ ReadAvailable \/ ReadLeft \/ ReadRight \/ ReadEnd

Control == Start \/ StartFails \/ Stop

Next == Producer \/ Consumer \/ Control

\* A device that runs keeps asking, and its callback, which waits for nobody,
\* runs to its end.
Spec == Init /\ [][Next]_vars /\ WF_vars(Consumer)

-----------------------------------------------------------------------------
(* Properties *)

Frames == [l : 0 .. PushBound, r : 0 .. PushBound]

\* Types of the ring, its indices and the locals of the two threads.
TypeOK ==
    /\ audioRing \in [0 .. RingFrames - 1 -> Frames]
    /\ audioWriteIdx \in 0 .. Wrap - 1
    /\ audioReadIdx \in 0 .. Wrap - 1
    /\ audioEnabled \in BOOLEAN
    /\ emu.at \in {"idle", "left", "right", "publish"} /\ emu.w \in 0 .. Wrap - 1
    /\ device.at \in {"idle", "write", "copy", "right"}
    /\ device.frames \in Requests \cup {0} /\ device.rd \in 0 .. Wrap - 1
    /\ device.n \in 0 .. RingFrames /\ device.out \in Seq(Frames)
    /\ running \in BOOLEAN
    /\ produced \in 0 .. PushBound /\ since \in 0 .. produced
    /\ delivered \in Seq(Frames)

\* The cells the device is about to copy are never those the core is writing,
\* whatever the two have loaded and however long ago.
NoSharedCell ==
    emu.at \in {"left", "right", "publish"} /\ device.at \in {"copy", "right"} =>
        \A i \in 0 .. device.n - 1 : Cell(device.rd + i) # Cell(emu.w)

\* What a callback delivers is whole frames (both channels of the same one),
\* newer from one to the next, and none of them older than the last flush:
\* pausing and resuming never replays what was captured before the gap.
DeliveredIsFresh ==
    \A i \in DOMAIN delivered' :
        /\ delivered'[i].l = delivered'[i].r
        /\ delivered'[i].l > since
        /\ i > 1 => delivered'[i].l > delivered'[i - 1].l

NoStaleSamples == [][device.at = "copy" /\ device'.at = "idle" => DeliveredIsFresh]_vars

\* The frames of the ring from the read index to the write index.
Queued ==
    [i \in 1 .. Fill(audioWriteIdx, audioReadIdx) |->
        audioRing[Cell(audioReadIdx + i - 1)]]

Promise == INSTANCE AudioQueue WITH
    queue <- Queued, delivered <- delivered, Samples <- Frames, Capacity <- RingFrames

\* Steps of the two threads, in any interleaving and across the wrap of the
\* indices, make up a bounded FIFO queue.
ImplementsQueue == Promise!Spec

\* A full ring does not stay full while the device runs and asks for frames.
FullDrains ==
    Fill(audioWriteIdx, audioReadIdx) = RingFrames
        ~> Fill(audioWriteIdx, audioReadIdx) < RingFrames \/ ~running
=============================================================================
