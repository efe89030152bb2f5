---------------------------- MODULE RewindSession ----------------------------
(***************************************************************************)
(* The rewind session of the macOS front end (Emulator.swift): the run     *)
(* loop that captures a save state after each frame, the rewind hold with  *)
(* its timer and trailing work, and what the user does to the machine in   *)
(* between, over the real ring of RewindBuffer and the loader of save      *)
(* states of Program (program.cpp).                                        *)
(*                                                                         *)
(* Everything runs on the main actor, one handler at a time; a tick is     *)
(* taken frame by frame and excludes the others until it is over (ticking  *)
(* never finds a tick in progress, and `rewinding` is never set: both      *)
(* guards of the code are vacuous).  The session starts with a ROM loaded. *)
(*                                                                         *)
(* A save state is its shape: the PPU implementation and the SRAM size it  *)
(* was saved under, which fix its length and whether it can be loaded.     *)
(***************************************************************************)
EXTENDS Integers

CONSTANTS
    Shapes,           \* shapes of save states and of the machine
    Started,          \* the shapes a session may start in
    Accurate,         \* Accurate[s]: saved under the cycle-accurate PPU
    Sram,             \* Sram[s]: bytes of cartridge SRAM; never none
    Size,             \* Size[s]: length of a save state
    Policy,           \* SRAM policy: "fit" in the front end
    Capacity, KeyframeInterval, InitialSlotBytes,  \* of the rewind ring
    MaxCatchup,       \* maxCatchupFrames
    Strides,          \* frames per rewind tick: one, or a second of them
    MaxPushes,        \* bound: captures between two clears of the ring
    UserBound         \* bound: what the user does, rewinding aside

ASSUME ShapesAssumption ==
    /\ Started \subseteq Shapes
    /\ Accurate \in [Shapes -> BOOLEAN] /\ Sram \in [Shapes -> Nat \ {0}]
    /\ \A a \in BOOLEAN, t \in Shapes : \E u \in Shapes : Accurate[u] = a /\ Sram[u] = Sram[t]
    /\ \A s, t \in Shapes : Accurate[s] = Accurate[t] /\ Sram[s] = Sram[t] => s = t
ASSUME RingAssumption ==
    /\ Size \in [Shapes -> Nat \ {0}]
    /\ Capacity \in Nat \ {0} /\ KeyframeInterval \in Nat \ {0}
    /\ InitialSlotBytes \in Nat \ {0} /\ MaxPushes \in Nat
ASSUME StridesAssumption == Strides \subseteq Nat \ {0} /\ 1 \in Strides
ASSUME BoundsAssumption == MaxCatchup \in Nat \ {0} /\ UserBound \in Nat

VARIABLES
    rb, pushedSoFar, forceKeyframeNext,  \* rewindBuffer
    machine,    \* live shape; at: "free", "bp" (halting breakpoint) or "stp"
    wanted,     \* program.ppuAccurate: the implementation the next boot takes
    ppuAccurate,  \* the toggle of the UI
    disk,       \* SRAM size the ROM file now declares
    running, runTimer,
    queued,     \* a timer fired and its tick waits for the main actor
    burst,      \* frames left in the tick in progress; whether it captures
    pending,    \* pendingBreakpointHaltId is set
    recovery,   \* recoveryMode
    hold,       \* rewindHolding, rewindTimer, rewindHoldResumeWork, stride
    mixed,      \* history: the ring's newest keyframe stopped matching the
                \* machine in a way no keyframe was forced for
    acts        \* what the user did so far

ring == <<rb, pushedSoFar, forceKeyframeNext>>
mode == <<wanted, ppuAccurate>>
loop == <<running, runTimer>>
vars == <<ring, machine, mode, disk, loop, queued, burst, pending, recovery, hold, mixed, acts>>

Buffer == INSTANCE RewindBuffer WITH Frames <- Shapes, PackedSizes <- {1}

ASSUME ShapesAreStates == {Buffer!Blank, Buffer!Garbage, Buffer!Lost} \cap Shapes = {}

ShapeOf(accurate, sram) ==
    CHOOSE s \in Shapes : Accurate[s] = accurate /\ Sram[s] = sram

At(where) == [machine EXCEPT !.at = where]

\* Where a frame or an instruction may leave the CPU.
Places == {"free", "bp", "stp"}

\* save_state() runs the machine to a safe point: off a breakpoint.
Synchronized == IF machine.at = "bp" THEN At("free") ELSE machine

-----------------------------------------------------------------------------
(* Loading a save state *)

\* Whether SRAM of `len` bytes goes into a cartridge of `cap`: fitSram().
Fits(len, cap) ==
    \/ len = cap
    \/ Policy \in {"clear", "fit"}
    \/ Policy = "truncate" /\ len > cap
    \/ Policy = "extend" /\ len < cap

\* loadStateBlob(): a state of the other implementation swaps it and boots the
\* machine before anything can refuse the state.  `current`: the state was
\* written by this version of ares.
Loaded(m, want, s, current) ==
    LET swap == Accurate[s] # want
        m1 == IF swap THEN [shape |-> ShapeOf(Accurate[s], Sram[m.shape]), at |-> "free"] ELSE m
        ok == /\ Fits(Sram[s], Sram[m.shape])
              /\ current
              /\ Accurate[s] = Accurate[m1.shape]
    IN  [ok |-> ok, wanted |-> IF swap THEN Accurate[s] ELSE want,
         machine |-> IF ok THEN [m1 EXCEPT !.at = "free"] ELSE m1]

\* The newest keyframe is not of the machine's shape and none was forced.
Mismatched(b, m, force) ==
    LET j == Buffer!NearestKeyframeIndex(b, b.ringSize)
    IN  j # -1 /\ ~force /\ Buffer!Entry(b, j).length # Size[m.shape]

Mixes == mixed' = (mixed \/ Mismatched(rb', machine', forceKeyframeNext'))

ClearRewindBuffer == Buffer!Clear /\ mixed' = FALSE

-----------------------------------------------------------------------------
(* The run loop *)

Free == burst.left = 0

TimerFires ==
    /\ runTimer /\ ~queued
    /\ queued' = TRUE
    /\ UNCHANGED <<ring, machine, mode, disk, loop, burst, pending, recovery, hold, mixed, acts>>

\* A tick that comes while paused, while rewinding or ahead of schedule.
TickPasses ==
    /\ Free /\ queued
    /\ queued' = FALSE
    /\ UNCHANGED <<ring, machine, mode, disk, loop, burst, pending, recovery, hold, mixed, acts>>

\* runPaced(): the frames that are due; runUnlimited() while Tab is held: as
\* many as the time budget allows, and no captures.
Tick(n, captures) ==
    /\ Free /\ queued
    /\ running /\ ~hold.holding
    /\ captures => pushedSoFar + n <= MaxPushes
    /\ queued' = FALSE
    /\ burst' = [left |-> n, captures |-> captures]
    /\ UNCHANGED <<ring, machine, mode, disk, loop, pending, recovery, hold, mixed, acts>>

\* Fault: a capture does not ask whether a breakpoint is pending.
CapturesAnyway(halt) == burst.captures /\ ~recovery

\* advanceOneFrame() after run_frames(1): `halt` is pendingBreakpointHaltId.
Captures(halt) == burst.captures /\ ~recovery /\ ~halt

\* One frame of the tick: run_frames(1) unless the CPU stopped for good, the
\* capture, and the pause on a breakpoint, which ends the tick.
Frame(where) ==
    /\ ~Free
    /\ machine.at = "stp" => where = "stp"
    /\ LET halt == pending \/ where = "bp"
           stopped == machine.at = "stp"
           pauses == ~stopped /\ halt /\ running
       IN  /\ pending' = halt
           /\ IF ~stopped /\ Captures(halt)
              THEN /\ Buffer!PushFrame(machine.shape, 1)
                   /\ machine' = [At(where) EXCEPT !.at = IF @ = "bp" THEN "free" ELSE @]
              ELSE machine' = At(where) /\ UNCHANGED ring
           /\ running' = (running /\ ~pauses)
           /\ runTimer' = (runTimer /\ ~pauses)
           /\ burst' = [burst EXCEPT !.left = IF stopped \/ pauses THEN 0 ELSE @ - 1]
    /\ UNCHANGED <<mode, disk, queued, recovery, hold, mixed, acts>>

-----------------------------------------------------------------------------
(* Rewinding *)

NotHolding == [holding |-> FALSE, timer |-> FALSE, work |-> FALSE, stride |-> 1]

\* Fault: a key repeat cancels the trailing work and schedules no other.
HeldWithoutWork(n) ==
    [holding |-> TRUE, timer |-> TRUE, work |-> ~hold.holding, stride |-> n]

Held(n) == [holding |-> TRUE, timer |-> TRUE, work |-> TRUE, stride |-> n]

\* rewindBy(), on the key and on each of its repeats: the trailing work of the
\* repeat before is cancelled and scheduled anew.
RewindBy(n) ==
    /\ Free
    /\ hold' = Held(n)
    /\ UNCHANGED <<ring, machine, mode, disk, loop, queued, burst, pending, recovery, mixed, acts>>

\* What the newest frame of b decodes to: undecodable bytes are a state of any
\* shape, and a delta that lost its keyframe is nothing.
Decoded(b) ==
    LET d == Buffer!WithMaterialized(b, b.ringSize - 1)
    IN  IF b.ringSize = 0 THEN {} ELSE IF d = Buffer!Garbage THEN Shapes ELSE {d} \cap Shapes

Stepped(b) ==
    LET n == IF hold.stride + 1 < b.ringSize THEN hold.stride + 1 ELSE b.ringSize
    IN  IF n = 0 THEN b ELSE Buffer!DropLastOf(b, n - 1)

\* The rewind timer fires: stride + 1 frames are dropped, the newest of the
\* rest but one loaded and the machine run for a frame, which may hit a
\* breakpoint.  The toggle of the UI is left as it is.
RewindTick ==
    /\ Free /\ hold.timer /\ hold.holding
    /\ rb.ringSize > 0
    /\ rb' = Buffer!DropLastOf(Stepped(rb), 1)
    /\ \/ /\ Decoded(Stepped(rb)) = {}
          /\ UNCHANGED <<machine, wanted, pending>>
       \/ \E s \in Decoded(Stepped(rb)), where \in Places :
             LET r == Loaded(machine, wanted, s, TRUE)
             IN  /\ machine' = IF r.ok THEN [r.machine EXCEPT !.at = where] ELSE r.machine
                 /\ wanted' = r.wanted
                 /\ pending' = (pending \/ (r.ok /\ where = "bp"))
    /\ UNCHANGED <<pushedSoFar, forceKeyframeNext, ppuAccurate, disk, loop, queued, burst,
                   recovery, hold, acts>>
    /\ Mixes

\* The trailing work: the hold is over and the picture is refreshed by a frame.
HoldEnd(where) ==
    /\ Free /\ hold.work
    /\ hold' = NotHolding
    /\ machine.at = "stp" => where = "stp"
    /\ machine' = At(where)
    /\ pending' = (pending \/ (where = "bp" /\ machine.at # "stp"))
    /\ UNCHANGED <<ring, mode, disk, loop, queued, burst, recovery, mixed, acts>>

-----------------------------------------------------------------------------
(* What the user does *)

UserActs == Free /\ acts < UserBound /\ acts' = acts + 1

Runs(on) == running' = on /\ runTimer' = on

TogglePause ==
    /\ UserActs
    /\ running' = ~running
    /\ runTimer' = ~running
    /\ pending' = (running /\ pending)
    /\ UNCHANGED <<ring, machine, mode, disk, queued, burst, recovery, hold, mixed>>

\* stepInstruction(), stepOver(), stepOut() pause; "Step Frame" does not.  Each
\* may hit a halting breakpoint.
Step(where, pauses) ==
    /\ UserActs
    /\ pauses => Runs(FALSE)
    /\ ~pauses => UNCHANGED loop
    /\ machine.at = "stp" => where = "stp"
    /\ machine' = At(where)
    /\ pending' = (pending \/ where = "bp")
    /\ UNCHANGED <<ring, mode, disk, queued, burst, recovery, hold, mixed>>

RunToCursor ==
    /\ UserActs
    /\ pending' = FALSE
    /\ running' = TRUE /\ runTimer' = (runTimer \/ ~running)
    /\ UNCHANGED <<ring, machine, mode, disk, queued, burst, recovery, hold, mixed>>

\* reset() restarts a paused loop without forgetting the breakpoint it paused
\* on; loadSRM() resets as well and leaves the loop.
Reset(restarts) ==
    /\ UserActs
    /\ machine' = At("free")
    /\ ClearRewindBuffer
    /\ running' = (running \/ restarts)
    /\ runTimer' = (runTimer \/ (restarts /\ ~running))
    /\ UNCHANGED <<mode, disk, queued, burst, pending, recovery, hold>>

\* saveState(), exportStateToFile().
SaveState ==
    /\ UserActs
    /\ machine' = Synchronized
    /\ UNCHANGED <<ring, mode, disk, loop, queued, burst, pending, recovery, hold, mixed>>

\* loadState(), also by loadAutosave(): the ring and its schedule stay.
LoadState(s, current) ==
    LET r == Loaded(machine, wanted, s, current) IN
    /\ UserActs
    /\ machine' = r.machine
    /\ wanted' = r.wanted
    /\ ppuAccurate' = IF r.ok THEN r.wanted ELSE ppuAccurate
    /\ UNCHANGED <<ring, disk, loop, queued, burst, pending, recovery, hold>>
    /\ Mixes

ImportState(s, current, where) ==
    LET r == Loaded(machine, wanted, s, current) IN
    /\ UserActs
    /\ wanted' = r.wanted
    /\ IF r.ok
       THEN /\ machine' = [r.machine EXCEPT !.at = where]
            /\ pending' = (pending \/ where = "bp")
            /\ ppuAccurate' = r.wanted
            /\ ClearRewindBuffer
       ELSE /\ machine' = r.machine
            /\ UNCHANGED <<ring, ppuAccurate, pending>>
            /\ Mixes
    /\ UNCHANGED <<disk, loop, queued, burst, recovery, hold>>

Booted(accurate) == [shape |-> ShapeOf(accurate, disk), at |-> "free"]

\* The ROM cannot be loaded: the session stays stopped.
LoadRomFails ==
    /\ UserActs
    /\ hold' = NotHolding /\ pending' = FALSE /\ Runs(FALSE)
    /\ UNCHANGED <<ring, machine, mode, disk, queued, burst, recovery, mixed>>

\* The ROM just booted, or the autosave of any shape loaded over it.
Restorable ==
    {[ok |-> FALSE, wanted |-> wanted, machine |-> Booted(wanted)]}
        \cup {Loaded(Booted(wanted), wanted, s, TRUE) : s \in Shapes}

\* loadROM(): every driver is torn down first; then the autosave slot, a state
\* of any shape, is restored over the empty ring.
LoadRom ==
    /\ UserActs
    /\ \E r \in Restorable :
          /\ machine' = r.machine
          /\ wanted' = r.wanted
          /\ ppuAccurate' = IF r.ok THEN r.wanted ELSE ppuAccurate
    /\ hold' = NotHolding /\ pending' = FALSE /\ Runs(TRUE)
    /\ ClearRewindBuffer
    /\ recovery' = FALSE
    /\ UNCHANGED <<disk, queued, burst>>

\* Fault: a hot reload forces no keyframe.
ReloadForcesNothing == UNCHANGED ring

ReloadForces == Buffer!ForceKeyframeOnNextPush

\* hotReloadKeepingState() under the implementation `want`: the state saved
\* before the reload is loaded after it and takes its own implementation back.
\* A ROM that fails to load leaves the loop stopped and `running` as it was.
HotReload(want, toggle, loads) ==
    LET r == Loaded(Booted(want), want, machine.shape, TRUE) IN
    IF loads
    THEN /\ machine' = r.machine
         /\ wanted' = r.wanted
         /\ ppuAccurate' = IF r.ok THEN r.wanted ELSE toggle
         /\ ReloadForces
         /\ Runs(TRUE)
         /\ UNCHANGED mixed
    ELSE /\ machine' = Synchronized
         /\ wanted' = want
         /\ ppuAccurate' = toggle
         /\ runTimer' = FALSE
         /\ UNCHANGED <<ring, running, mixed>>

\* "Hot-Reload ROM (Keep State)", and the toggle of the PPU implementation.
Reload(toggles, loads) ==
    /\ UserActs
    /\ IF toggles THEN HotReload(~ppuAccurate, ~ppuAccurate, loads)
                  ELSE HotReload(wanted, ppuAccurate, loads)
    /\ UNCHANGED <<disk, queued, burst, pending, recovery, hold>>

\* The ROM is built again, with other SRAM.
Rebuild(sram) ==
    /\ UserActs
    /\ sram # disk
    /\ disk' = sram
    /\ UNCHANGED <<ring, machine, mode, loop, queued, burst, pending, recovery, hold, mixed>>

\* loadCrashDump() of the dump writeCrashDump() made of the ring as it is; the
\* newest frame is shown and nothing is captured any more.
LoadCrashDump(where) ==
    LET b == Buffer!Restored(rb) IN
    /\ UserActs
    /\ rb' = b
    /\ pushedSoFar' = b.ringSize
    /\ forceKeyframeNext' = FALSE
    /\ \/ Decoded(b) = {} /\ UNCHANGED <<machine, mode, pending>>
       \/ \E s \in Decoded(b) :
             LET r == Loaded(machine, wanted, s, TRUE) IN
             /\ machine' = IF r.ok THEN [r.machine EXCEPT !.at = where] ELSE r.machine
             /\ wanted' = r.wanted
             /\ ppuAccurate' = IF r.ok THEN r.wanted ELSE ppuAccurate
             /\ pending' = (pending \/ (r.ok /\ where = "bp"))
    /\ recovery' = TRUE
    /\ Runs(FALSE)
    /\ UNCHANGED <<disk, queued, burst, hold>>
    /\ Mixes

-----------------------------------------------------------------------------

Init ==
    /\ Buffer!Init
    /\ \E s \in Started :
          /\ machine = [shape |-> s, at |-> "free"]
          /\ disk = Sram[s]
          /\ wanted = Accurate[s] /\ ppuAccurate = Accurate[s]
    /\ running = TRUE /\ runTimer = TRUE
    /\ queued = FALSE
    /\ burst = [left |-> 0, captures |-> FALSE]
    /\ pending = FALSE /\ recovery = FALSE
    /\ hold = NotHolding
    /\ mixed = FALSE
    /\ acts = 0

Background ==
    \/ TimerFires \/ TickPasses
    \/ \E n \in 1 .. MaxCatchup, captures \in BOOLEAN : Tick(n, captures)
    \/ \E where \in Places : Frame(where)
    \/ RewindTick

User ==
    \/ \E n \in Strides : RewindBy(n)
    \/ TogglePause \/ RunToCursor \/ SaveState \/ LoadRomFails
    \/ \E where \in Places, pauses \in BOOLEAN : Step(where, pauses)
    \/ \E restarts \in BOOLEAN : Reset(restarts)
    \/ \E s \in Shapes, current \in BOOLEAN :
          \/ LoadState(s, current)
          \/ \E where \in Places : ImportState(s, current, where)
    \/ LoadRom
    \/ \E toggles, loads \in BOOLEAN : Reload(toggles, loads)
    \/ \E s \in Shapes : Rebuild(Sram[s])
    \/ \E where \in Places : LoadCrashDump(where)

Next == Background \/ (\E where \in Places : HoldEnd(where)) \/ User

\* A tick comes to its end, and the rewind key is not held for ever: its repeats
\* leave the trailing work, which each of them puts off, time to run.
Spec ==
    /\ Init /\ [][Next]_vars
    /\ WF_vars(\E where \in Places : Frame(where))
    /\ WF_vars(\E where \in Places : HoldEnd(where))

-----------------------------------------------------------------------------
(* Properties *)

\* The session's state has its type, the ring and its pool are sound, and a
\* hold has its timer and its trailing work or none: neither outlives it.
TypeOK ==
    /\ Buffer!TypeOK /\ Buffer!WindowDense /\ Buffer!SlotOwnership
    /\ machine \in [shape : Shapes, at : Places]
    /\ {wanted, ppuAccurate, running, runTimer, queued, pending, recovery, mixed} \subseteq BOOLEAN
    /\ disk \in {Sram[s] : s \in Shapes}
    /\ burst \in [left : 0 .. MaxCatchup, captures : BOOLEAN]
    /\ hold.holding = hold.timer /\ hold.holding = hold.work
    /\ hold.stride \in Strides /\ (~hold.holding => hold.stride = 1)
    /\ acts \in 0 .. UserBound

\* A rewind hold comes to its end once the key is let go, whatever repeats,
\* ticks, pauses, loads and reloads come between: the emulator is never stuck in
\* rewind mode.
HoldEnds == hold.holding ~> ~hold.holding

\* A tick whose frame hits a halting breakpoint ends there with the loop
\* stopped and nothing captured, for capturing would run the CPU on; and until
\* the user does something the CPU stays where it stopped, whichever ticks were
\* already queued.
BreakpointHolds ==
    [][ /\ ~Free /\ ~pending /\ pending' =>
              machine'.at = "bp" /\ ~running' /\ ~runTimer' /\ burst'.left = 0 /\ rb' = rb
        /\ machine.at = "bp" /\ ~running /\ ~hold.holding /\ acts' = acts =>
              machine' = machine]_vars

\* Captures are told of every change of length: a delta is of the length of
\* the keyframe it names, across hot reloads of a ROM whose SRAM changed,
\* imports, resets and dumps.  Two ways of changing the machine tell nobody and
\* are exempt: a state of another shape loaded over the ring, and a rewind that
\* takes back the last keyframe of the machine's shape.
RingDecodes == mixed \/ Buffer!DeltaNamesItsBase

=============================================================================
