# A TLA+ model of kintsuki

kintsuki is a SNES emulator harness: a stripped-down ares core behind a C
interface (`target-kintsuki/`), with a macOS application (`app/`) and a Python
wheel (`python/`) on top of it. These modules model the parts of it that carry
state of their own, are kintsuki's and not ares', and are hard to test: the
rewind ring and the session that fills and rewinds it, run control over the
coroutine scheduler, the callbacks and the other users of the core's hooks, the
shadow call stack with its profiler, the project and its directory, and the
audio ring between two threads. TLC checks each of them on a small instance;
TLAPS proves for every instance all safety that those runs check.

Paths below are relative to the repository.

## Inventory

| Component | State it keeps | Operations | Talks to |
|---|---|---|---|
| **Rewind buffer** `app/Sources/Kintsuki/RewindBuffer.swift` | circular array of entries (head, size, first logical id), byte count, keyframe pool (slots, free list), force-keyframe flag, push counter | push, dropLast, popLast, clear, forceKeyframeOnNextPush, two decoders, write and restore a crash dump | the rewind session, which pushes save states and loads decoded ones |
| **Run control** `target-kintsuki/libkintsuki.cpp`, `program.cpp`, the patched `ares/ares/sfc/cpu/cpu.cpp`, `smp/smp.cpp`, `ares/ares/ares/scheduler/` | bail and halt flags, the two exec hooks and the hook a call puts aside, the scheduler (resume, mode, event), where each coroutine is suspended | run_frames, step, run_until, spc_step, spc_run_until, save_state, load_state, reset, rearm_cpu, add and remove halting callbacks | coroutines of CPU, SMP and PPU; exec hooks call back into the library |
| **Shadow call stack, profiler, timeline slices** `libkintsuki.cpp` | live frames and their S, parked stacks, profiler frames, statistics, widened clock, open slices | hooks for calls, returns and instructions; callstack_clear, profile start / stop / reset, timeline start / stop, load_state, reset | the CPU's hooks; shares `execHook` with run control |
| **Audio output** `program.cpp`, `app/Sources/Kintsuki/AudioOutput.swift` | ring of frames, write and read index (atomics), enabled flag, engine running | push (emulation thread), read (device thread), enable / disable (main thread) | the device's render callback on its own thread |
| **Rewind session** `app/Sources/Kintsuki/Emulator.swift` | ring, pending breakpoint, hold flag and its deferred work, rewind timer, pacing, PPU mode | tick, capture, rewind, reset, load, hot reload, autosave, crash dump | rewind buffer, C interface, UI |
| **Save states** `program.cpp`, `libkintsuki.cpp` | blob with a KSSF footer, PPU implementation in use, SRAM | save, load, load with an SRAM policy | run control, rewind session |
| **Callback registry** `libkintsuki.cpp` | callbacks per kind, page reference counts, armed hooks, the tracer's ring | add, remove, dispatch, start and stop of the other users of a hook | hooks of run control, shadow stack, tracer, project |
| **Project file** `target-kintsuki/project.cpp` | tables of annotations, dirty flags, autosave interval | open, edit, save, close | the file system, autosave from run_frames, hooks that annotate |
| **Tracer, DMA log, timeline tracks** | bounded logs and files | hooks that append records | hooks |
| **Labels and heuristics, Python, CLI, viewers** | none or user interface | parsing, scanning, printing, drawing | C interface |
| **Emulation core** (vendored ares) | the machine | | only the patched seams are modelled, under run control |

What makes them hard:

- *Coroutines*. The library leaves the scheduler from inside whichever
  coroutine asked for it and later goes on in the same one. Whether the next
  instruction was already counted, announced to a hook or held back depends on
  where that coroutine stopped, which nobody records.
- *One hook, many users*. `execHook` serves callbacks, breakpoints, task
  switches and the tracer; step and run_until borrow it.
- *Guesswork over long runs*. The shadow stack infers task switches from S, and
  the profiler infers elapsed time from a counter that wraps and jumps back.
- *Index arithmetic*. Circular windows, reused logical ids, recycled slots,
  free-running indices that wrap.
- *Two threads*. The audio ring has a producer, a consumer and a main thread
  that flushes it by writing the consumer's index.
- *Partial failure*. Loading a state and saving a project fail half way; the
  process may die between the files of a save.
- *Reentrancy*. A callback may register and remove callbacks, its own included,
  while the list it is in is gone through.
- *Deferred work*. The rewind timer, the trailing work of a hold and a queued tick
  race key repeats, pauses, loads and reloads.

`PROJECT.json` lists the hazards one by one, each at its line, with the
properties that watch it.

## The modules

### RewindBuffer and RewindWindow

`RewindBuffer` holds the ring and its pool in one value `rb`; every method of
the Swift class is an operator from the value before the call to the value
after it (`Appended`, `DropLastOf`, `Cleared`, `EvictHead`, `Restored` for
writing a dump and reading it back), and the actions `Push`, `DropLast`,
`ForceKeyframeOnNextPush` and `Clear` apply them. A save state is a member of
`Frames` with a length; its bytes are not modelled. A delta remembers which frame it
encodes and the bytes it was XORed with, and decodes to that frame exactly when
XORed with the same bytes over the same length, otherwise to `Garbage`; freshly
allocated storage holds `Blank`. `evictHead`'s promotion acquires its slot
before the evicted keyframe releases its own, as in the code.

Push requires `SizeCoherent`: a save state encoded as a delta has the length of
its keyframe unless the caller announced the change by
`forceKeyframeOnNextPush`. That is the class's contract; whether `Emulator.swift`
honours it is what `RewindSession` checks.

`RewindWindow` is the promise: the last `Capacity` states pushed, of which the
newest can be taken back. `ImplementsWindow` maps the ring to it by the state
each retained entry stands for.

### RunControl

A processor coroutine is `top` (about to enter its loop), `synced` (stopped at
the scheduler's safe point), `held` (stopped after the bail check, its
instruction announced but not run) or `mid` (inside an instruction). `sched`
holds the scheduler's active coroutine, `_resume`, `_mode` and `_event`; `flags`
the two bail flags and the halt flag; `hooks` who is installed and what was put
aside. One host call is in progress at a time (`call`), as the library is
single-threaded. Its loop is spelled out step by step: `RunFramesLoops`,
`RunFramesReturns`, and so on, over `CpuDispatch`, `CpuResume`, `SmpDispatch`,
`PpuFrame`, `CpuSynchronize`.

The clocks that decide which coroutine goes on are left out: inside an
instruction any other one may be resumed. What they guarantee is kept as
bounds. `cpuRan`, `smpRan`, `wasHeld`, `struck` and `hit` in `call` record what
the machine did during the call, for the properties only, except `hit`,
`stepHit` and `stepFromHalt`, which are the code's globals.

### ShadowStack

`task` is what the emulated program really does: tasks on hardware stacks of
their own, calls in progress, and for each call the cycles its own task spent.
Everything else is the library's: `live` (callstack, S of each frame, profiler
frames), `parked`, `profile`, the widened clock, the open slices of the timeline
and `hook`. `Call`, `Return` and `Switch` run the call, return and exec hooks as
wholes; `StepOverSwitch` is a switch that happens under `kintsuki_step`, whose
hook is another. `tracked`, `timed`, `truth` and `missed` are history: what an
observer of the program would have seen since the last clear.

### AudioRing and AudioQueue

The device thread and the emulation thread interleave at each load and store of
shared memory; the two channels of a frame are two stores. A frame is its
number. `Start`, `StartFails` and `Stop` are the engine's, done by the main
thread, which is also the one that pushes; `Stop` waits for the callback to be
out, as `AVAudioEngine.stop()` does (the model's one assumption about the
system library). Atomics are release / acquire and guard the samples in program
order, so that interleaving is a sound account of them. `AudioQueue` is the
promise, a bounded queue that can be flushed.

### RewindSession

The front end's session over the real ring: `Buffer` is an instance of
`RewindBuffer`, whose operators the actions apply, and `Loaded` is the library's
`loadStateBlob` with its swap of the PPU implementation before anything can
refuse the state. A save state is its *shape*, the implementation and the SRAM
size it was saved under: that fixes its length, and so whether a delta is of the
length of its keyframe, and whether it can be loaded. `machine` is the live
shape and where the CPU stopped (at a breakpoint, at STP, or neither).

Handlers run one at a time on the main actor. A tick is taken frame by frame
(`Tick`, then `Frame`, which runs one, captures it and pauses on a breakpoint);
a timer that fired and has not been served is `queued`, and `TickPasses` is the
tick that finds it has nothing to do. `RewindBy`, `RewindTick` and `HoldEnd` are
the key, the rewind timer and the deferred end of a hold. The rest is what the
user does: pause, step, run to cursor, reset, save, load, import, load a ROM,
hot reload, toggle the PPU, rebuild the ROM, load a crash dump. `mixed` is
history, see the bounds.

### HookRegistry

`regs`, `pages` and `hook` are the lists of callbacks, the page counts
(saturating bytes: `Clamp`) and the hooks of the core that are armed; `users` are
the project, the profile, the tracer and the PPU write log. `AddCallback`,
`RemoveCallback` and the `...Start`, `...Stop`, `...Open`, `...Close` actions
follow the code's conditions for arming and disarming, which differ from user
to user. `Access` is the core reaching an address with the hook armed; `Fire`
calls the next callback that matches and `FireEnds` ends the loop. Between two
`Fire`s the callback runs host code, so that the host's actions are enabled:
that is how a callback registers or removes one. Registering one of the same
kind inside a callback appends to the vector the loop is going over; when the
vector moves, the C++ program goes on over freed memory, which the model takes
as the loop seeing the list as it was (`copy`). The tracer's ring is modelled to
the byte (`RingPut`), the lines by their lengths.

### Project

`proj` is the open project: the tables in memory, the dirty flag of the whole
and those of the tables (`stale`). `disk` is the directory, one entry per file,
which outlives the process. An edit is a function from a project to a project
(`MarkAuto`, `SetBookmark`, ...), applied by what emulation does (`Exec`,
`Read`, `Dma`, `Call`, `Return`, the library's hooks) or the user
(`UserEdit`). `save()` writes one file per step in the code's order; a write may
be refused, cut short and noticed, or cut short when the stream is destroyed,
which nobody notices; `Crash` kills the process between two files or in one.
`Loaded` is what `open()` makes of the files. `lost` is history for the
properties: files that failed without save() or open() saying so.

## The runs

Pass:

| Run | What it shows |
|---|---|
| `rewind_buffer` | The window is dense (`WindowDense`); slots are owned exactly once (`SlotOwnership`) and their number is bounded (`PoolBounded`); a delta never resolves to a keyframe other than its own although logical ids are reused (`DeltaNamesItsBase`); what can be decoded is what was pushed (`ReadsBackPushedState`), only the oldest frames can be lost (`LostFramesAreOldest`), the newest never is (`NewestIsReadable`); bytes add up (`ByteAccounting`); a dump loaded back holds exactly the readable frames in a sound ring (`DumpKeepsReadableFrames`); all in all it is the sliding window (`ImplementsWindow`). |
| `run_control` | No call leaves its hook behind or loses the user's (`HooksServeCallbacks`); a held coroutine is the one resumed (`HeldIsResumed`); a breakpoint in run_frames lets no further CPU instruction start (`BreakpointStopsTheCpu`); run_until reports a hit only when held at its target (`UntilHitIsAtTarget`); a step is one instruction when the flag it reads is right (`StepRunsOneInstruction`); states are saved at safe points whatever exits the scheduler on the way (`SavesAtSafePoints`); calls return (`CallsReturn`). |
| `shadow_stack` | While no switch was missed, the live stack is the running task's call chain and every other observed task has exactly one parked stack (`StackFollowsTask`), and the profile is the time the calls really ran (`ProfileIsOwnTime`); whatever was missed, cleared or dropped, profiler frames and slices are those of the innermost shadow frames (`FramesAgree`). |
| `audio_ring` | The threads never touch one cell at a time (`NoSharedCell`); no callback delivers a torn, repeated or pre-flush frame (`NoStaleSamples`); it is a bounded queue (`ImplementsQueue`); a full ring does not stay full while the device runs (`FullDrains`). |
| `rewind_session` | Over the real ring, a delta is of the length of its keyframe across hot reloads, imports, resets and dumps (`RingDecodes`); a hold ends whatever comes between (`HoldEnds`); a tick that meets a breakpoint ends there with nothing captured, and ticks already queued leave the CPU where it is (`BreakpointHolds`); hold, timer and trailing work come and go together (`TypeOK`). |
| `hook_registry` | Whoever asked to be told is: hooks are armed and pages counted exactly as long as somebody is on them (`Reachable`); a dispatch calls all that is due and nothing that was removed, whatever the callbacks do (`DispatchIsComplete`); the tracer's ring holds the newest bytes (`TraceKeepsNewest`). |
| `project` | A table that is not dirty is on disk, after failures, retries and crashes (`CleanIsOnDisk`); emulation never overrides what the user marked, nor a flag that is known (`UserMarksWin`); a failed save is repaired by autosave (`AutosaveRepairs`); tables are well formed (`TypeOK`). |

Violation, each against a sentence in the repository:

| Run | What TLC finds |
|---|---|
| `rewind_dangling` | Evicting a keyframe promotes one delta and leaves the other deltas of the group in the ring, undecodable, until they are evicted. The header comment says dependants are dropped and "we never expose dangling diffs". A caveat inside `evictHead` and `docs/docs/rewind.md` know of the limitation. |
| `rewind_growth` | Growing the pool replaces the storage of live slots by zeroes, while its comment says "Slots themselves remain valid". |
| `run_step` | `kintsuki_step` after run_until or after another step that left the CPU held runs two instructions: the flag it reads is raised only by halting callbacks. Its comment counts a "prior step" among the cases it handles. |
| `run_spc_step` | `kintsuki_spc_step` on an instruction that leaves the program counter where it was (a branch to itself) runs more than the "exactly one" of `kintsuki.h`. |
| `shadow_step` | A task switch that is stepped over is not seen, although the exec hook is armed in the sense of `kintsuki.h`: `stepHook` takes `cOnExec`'s place without calling it. |

More disagreements were met while modelling and are the subject of no run. The
models do what the code does.

- `kintsuki.h:524` calls callstack_snapshot's order deepest frame first, while
  `libkintsuki.cpp:1990-2000` puts the outermost frame at index 0.
- `kintsuki.h:843` and `:873` say that opening a project fails when the ROM's SHA
  or size differ from the stored ones; the code warns, goes on and resizes the
  map. `kintsuki.h:852` says there is no autosave; the interval starts at 60 frames.
- Exits of kind RTI are saved as 2 and read back as 0, and then recorded again
  (`project.hpp:209`). A bookmark whose name starts with `#` is saved and skipped
  as a comment when read.
- `Project::save()` succeeds although the manifest could not be written, or a
  stream failed when it was destroyed. A file that exists and cannot be read
  counts as missing and the next edit overwrites it.
- A project stays open across `load_rom` (`kintsuki.h:836`); the front end forgets
  it without closing (`Emulator.swift:850-854`).
- Removing the last exec callback, or stopping the profile, disarms the exec hook
  under a running tracer, although `kintsuki.h` promises "one line per exec event";
  removing the last write callback does the same to a running PPU write log,
  which `libkintsuki.cpp:1353` says "Records every write". `Reachable` speaks
  of projects, profiles and callbacks only.
- Destroying an instance leaves the flags of profile, tracer and PPU log up and the
  hook of the read overrides armed (`orphans`).
- Toggling "Accurate PPU" while a ROM runs is undone by the hot reload's own
  `load_state`, which takes the saved state's implementation back
  (`program.cpp:1157-1167`; compare `Emulator.swift:25-33` and `kintsuki.h:106`).
- A state of another shape loaded without clearing the ring, and a rewind past the
  point where a hot reload changed the SRAM, make the next captures deltas against
  a keyframe of another length (`Emulator.swift:2320-2326`), the exemption of
  `RingDecodes`.
- A rewind tick goes back by one frame more than the comment at
  `Emulator.swift:1704` says.
- `reset()` and a hot reload keep `pendingBreakpointHaltId`, so that a paused
  session resumes and pauses again at once; a breakpoint met in a rewind tick's
  frame makes a later tick pause elsewhere. A hot reload whose ROM does not load
  leaves `running` true without a timer. `rewinding` is never set, and `ticking`
  can never be found set.

### Bounds, and why they are enough

- **RewindBuffer**: `Capacity` 4 with a keyframe every 3 pushes, so that the
  window holds up to three keyframes with forced ones, groups of more than one
  dependent delta exist (the orphan case), and the schedule is not aligned with the capacity.
  `MaxPushes` 8 per clear takes the head all the way round; `clear` starts
  over, so behaviours are not limited to eight pushes. Two states of one length
  and one of another exercise growth contracts and forced keyframes. In
  `rewind_growth` the pool starts smaller than the larger state, in the others
  it does not.
- **RunControl**: two code addresses (a target or breakpoint, and another), one
  halting callback at a time, up to two CPU steps in a frame, `FrameBound` 1:
  a call to run_frames(1) meets a frame end before, together with and after a
  breakpoint. `SpinCap` stands for the two million scheduler entries after
  which an SPC700 call gives up.
- **ShadowStack**: three tasks with at most one parked stack, so that the oldest
  is dropped; stacks three deep over a shadow stack of two, so that the
  callstack overflows; a counter that wraps at 3 in runs of 5 cycles; two
  host calls in any order among the program's steps, enough for start, stop and
  what is in between, each with any prefix of program steps before it.
- **RewindSession**: two implementations by two SRAM sizes, four lengths of save
  state; the session starts in one shape and reaches the others by reloads,
  rebuilds and loads (the cfg's `Started`). The ring has three entries with a
  keyframe every two pushes: eviction, promotion and orphaned deltas happen
  within `MaxPushes` 4. Two acts of the user, key repeats not counted (they leave no
  trace but the hold), between any ticks and rewind ticks: every pair of
  operations, such as a rebuild and a hot reload, in every state of the ring. Two
  frames of catch-up make a tick that a breakpoint ends early. `mixed` exempts
  from `RingDecodes` the two ways, named above, of changing the shape behind the
  ring's back, until the ring is cleared.
- **HookRegistry**: five kinds in one model, since arming, ranges and users differ;
  two pages, ranges within one and over both; a count that saturates at 2 and
  three callbacks, one more than a page can count. A page whose count was clamped
  is exempt from `Reachable` (`clamped`): it undercounts from then on, which is
  the code's known limit of 255. A ring of three bytes, lines shorter and longer
  than it. A dispatch within a dispatch is not modelled.
- **Project**: ROMs of one and two bytes, so that opening a project of one under
  the other grows and shrinks the map; two edits and one fault (refused, cut or
  silent write, unreadable file, death) in any order with opens, saves,
  frames, closes and ROM loads, and retries of every failure. Autosave every two frames, not
  switched off. The three processor flags of a label are one. A cut falls between
  two rows: within a row the reader skips or misreads one line.
- **AudioRing**: two cells, indices that wrap at 4, requests smaller and larger
  than the ring, seven frames: the indices wrap almost twice. 2^32 is a
  multiple of the ring size, and so is `Wrap`.

### Fairness

`RunControl`: `WF(Machine \/ HostLoop)`. A host call is a loop that runs on the
caller's thread; neither it nor the coroutines it enters wait for anything
outside, so while one of their steps is possible one is taken. Nothing obliges
the host to call again. No fairness between coroutines is assumed: how far one
runs ahead is bounded by `SliceBound` and by the SMP being at most one
instruction ahead, which is what the clocks enforce. `CallsReturn` excludes
save_state while the CPU sits in WAI with its interrupts masked, which really
does not return: WAI's inner loop never comes back to the safe point.

`RewindSession`: `WF` of a tick's frames, which are a loop that waits for nobody,
and `WF` of the trailing work: the dispatch queue runs it, unless a repeat of
the key cancels it. That the key is not held for ever is an assumption about the
user: weak fairness gives it because a repeat keeps `HoldEnd` enabled, while in
the program it puts the work off. Nothing else is fair, neither the timers nor
the user.

`Project`: `WF(Frames)`, the host keeps running frames, and `WF(SaveStep)`,
`save()` comes to its end. `AutosaveRepairs` assumes besides that the host
does not reopen the project for ever, which would drop each edit unsaved. That
faults end is the bound `FaultBound`: against a disk that always fails no
repair is possible.

`AudioRing`: `WF(Consumer)`. A running device keeps calling its render callback
and the callback waits for nobody. The producer is given no fairness.

## Proofs

Every property of a passing run that is not liveness is a theorem; `PROJECT.json`
lists them. A theorem's assumptions are the named assumptions of its module's
constants and what is named here.

### The rewind buffer

`RewindBufferProofs` proves, for every capacity, keyframe interval, slot size
and set of save states, eleven properties. Five need no assumption on lengths:
`TypeCorrect`, `DenseTheorem`, `OwnershipTheorem`, `PoolTheorem` (the pool never
holds more slots than it was created with or the ring has entries, whichever is
more) and `BytesTheorem` (`byteSize` is the size of the retained entries). The
others assume `Fits`: `BaseTheorem`, `ReadBackTheorem`, `OldestLostTheorem`,
`NewestTheorem`, `DumpTheorem`, and `WindowTheorem`, the refinement of
`RewindWindow`.

*The assumption.* `Fits`: every save state fits into a slot as the pool was
created, so that the pool never grows its slots. It is necessary: without it the
pool wipes live keyframes, which is what `rewind_growth` shows. The
application's slots are 512 KB.

*The invariant.* None of the properties is inductive alone. A delta resolves to
its own keyframe (`OwnBase`) after an append only if the keyframe it was encoded
against is where the arithmetic says it is (dense window), and after a drop or
eviction only if nobody else owns the slot that is released (owned slots) and
the pool's storage is not replaced. After `dropLast`, logical ids are reused,
and a delta must not outlive a keyframe that is newer than the one it names:
`NearestBase` says that no keyframe lies between a delta and its own, or that
its own has left the ring and the only keyframe that can precede the delta is
the promoted head. The invariant is layered by what it rests on:

- `Sound`: types, `DenseWindow`, `OwnedSlots`. No length breaks it;
- `RingCore`: besides, `OwnBase`, keyframes whole (`WholeKeyframes`), slot size
  unchanged;
- `RingInv`: besides, `NearestBase`; `IInv` adds the types of the push counter
  and the flag.

*The argument.* Lemmas about the circular index (`Wraps`, `CellInjective`,
`CellOnto`) give what writing one cell, advancing the head and erasing a tail do
to the window (`WriteEntry`, `AdvanceHead`, `EraseEntries`); lemmas about the
pool what acquiring and releasing do to ownership. Each operation then has one
lemma that it keeps the invariant (`KeyframeAppended`, `DeltaAppended`,
`HeadDropped`, `Evicted`, `Truncated`, `ClearedRing`), `NextKeeps` collects them
by action, and `Decoded` reads the decoders' results off the invariant.

The window (`StepsAreSteps`): a push appends and forgets the oldest when full, a
drop takes the newest (`PushIsPush`, `DropIsDrop`), by the frame that each
retained entry stands for. The pool: a slot is added only when none is free, and
then every slot belongs to a keyframe of its own in the ring (`ExhaustedPool`).
The byte count: the sum is a fold in an arbitrary order, which the provers cannot
do induction over, so it is first shown to be the number of elements of a set, one
for each byte of each entry (`BytesHeld`, by the smallest set of entries for which
it would fail); from there disjoint windows add up (`BytesSplit`), renumbering is
a bijection (`BytesShift`), and each operation adds or takes off what it should.
The dump: readable frames keep their order when the others are left out
(`RankIncreases`, `RankInverse`), a delta that is written has its keyframe
written before it (`SerializedBase`), and the ring read back has the keyframes
in slots of their own (`RestoredSlots`, `RestoredRing`).

### The audio ring

`AudioRingProofs` proves, for every ring size, every wrap of the indices that is
a larger multiple of it, every set of requests and every number of frames, all
safety that the run checks: `TypeCorrect`, `NoSharedCellTheorem`, `FreshTheorem`
and `RefinementTheorem`, the ring's refinement of `AudioQueue`. The only
assumptions are the constants'. That the ring's size divides the range of the
indices is one of them (8192 and 2^32 in the code); `CellWraps` needs it.

*The invariant.* `IInv` is `RingInv /\ EmuInv /\ DeviceInv /\ WaitingInv`:

- `RingInv`: types, and there is never more than a ring between the indices;
- `EmuInv`: while a frame is being pushed the local `w` is the write index, the
  ring is not full (the device can only have made room since the check), and
  what was stored of the frame is in its cell;
- `DeviceInv`: during a callback the engine runs and the local `rd` is the read
  index, the callback asks for no more than there is, and what it copied is
  still in the ring, which is what makes the copy atomic when it ends;
- `WaitingInv`: the frames waiting are whole, in order, newer than the last
  flush and older than the one being pushed.

None of the properties is inductive alone: cells are disjoint only because each
side's stale copy of the other's index errs on the safe side, and a flush moves
the read index under the device unless the device is known to be idle then.

*The argument.* `CellWraps` and `CellsApart` say that an index keeps its cell
across the wrap and that indices less than a ring apart have different cells;
`StoreApart` follows, that a store leaves every waiting frame alone. One lemma
per action shows that it keeps the invariant. For the refinement, publishing
appends (`PublishAppends`), the end of a callback delivers (`EndDelivers`),
starting and stopping flush (`ControlFlushes`), and the queue sees nothing of
any other step (`Unseen`).

### The callback registry

`HookRegistryProofs` proves, for every set of addresses and ranges, page size,
saturation bound, ring size and length of lines, all that its run checks:
`TypeCorrect`, `ReachableTheorem`, `DispatchTheorem`, `TraceTheorem`. The only
assumptions are the constants'.

*The invariant.* `IInv` is `TypeInv /\ CountInv /\ HookInv /\ FiringInv`:

- `CountInv`: a page's count is never above the number of active callbacks on
  it, and equals it until the page clamps. The inequality is what survives
  clamping, and it is what keeps a count within the callbacks there are;
- `HookInv`: the hooks' half of `Reachable`, which is inductive by itself only
  because disarming asks for the last active callback and for the other users;
- `FiringInv`: what is due is active, lies further on in the list than the
  callback that runs and before the end the loop fixed when it began, and covers
  the address. Hence the first match that is called never passes over one that
  is due, and a loop with no match left has nothing due.

`TraceInv` (ring contents equal to the log) is inductive over the types.

*The argument.* Registering adds one index to the callbacks on a page, removing
takes one (`AddCounts`, `RemoveCounts`, by the cardinality theorems and
`MarkPagesCounts`); one lemma per action for hooks and dispatch, `Quiet...`
lemmas for the actions that leave callbacks alone. For the ring, `Places` says
that the bytes kept stay where they were and that the ones put go elsewhere, by
the one wrap that an index can make (`RingWraps`), and `PutAppends` that a put
is an append cut to the ring's size.

### Run control

`RunControlProofs` proves, for every set of program counters and halting points
and every bound: `TypeCorrect`, `HooksRestored` (`HooksServeCallbacks`),
`HeldGoesFirst` (`HeldIsResumed`), `BreakpointStops`, `UntilHits`, `StepRunsOne`
and `SavesSafely`, all safety of its run.

*The invariant.* `IInv` is `TypeOK` and one part per question:

- `HookInv`: which dispatcher each hook holds during which call, and what the
  call put aside. `HooksServeCallbacks` speaks of idle hosts only; in the middle
  of a call it is this that says what will be put back;
- `HeldInv`: a held coroutine is the one the scheduler resumes, and while it is
  held no other coroutine is active. Two can therefore never be held;
- `SaveInv`: how far save_state's walk over the coroutines is, and that those
  that reached their safe point stay there whatever exits the scheduler;
- `BreakInv`: once a breakpoint struck in run_frames, the CPU is held with the
  host in control, or has the bail flag in front of its next instruction;
- `UntilInv` and `StepInv`: how far a call to run_until or step is.

*The argument.* One lemma per part and actions (`HookStep`, `HeldStep`, ...),
over lemmas on what a dispatch decides (`ExecHookDecides`, `DispatchHolds`,
`DispatchRuns`). The action properties read what a return reports off the
invariant in the state before it (`ReturnActions`).

### The shadow stack

`ShadowStackProofs` proves, for all tasks, functions, stacks and limits,
`TypeCorrect` and `ReturnsCloseTheirCalls` (`FramesAgree`), whatever was missed,
cleared, dropped or loaded. Its `IInv` is `TaskInv`, `ClockInv`, `StatsInv`,
`TraceInv`, `LiveInv`, `ParkedInv` and `RestInv`. The heart of it is `Sound`: no
frame was pushed after the time its stack stands at (the last sample of the
widened clock for the live one, the moment of parking for a parked one), so that
no duration is negative although the counter wraps and jumps back when a state
is loaded (`LaterClocks`, `Durations`), and profiler frames are `Agree`ing with
the innermost calls, which pushing on both, popping from both and dropping the
oldest at the cap preserve (`AgreePush`, `AgreePop`, `PushesCapped`).

`ShadowFollowProofs` proves `StackFollows` (`StackFollowsTask`) and `OwnTime`
(`ProfileIsOwnTime`). To the invariant above it adds

- `ChainInv`: each call in progress was made with S on its task's stack, within
  the slack of the call around it. The code's guess that a jump of S beyond the
  slack is a switch, and that the parked stack it is closest to is that task's,
  is right because of this and of `StacksAssumption` (`MatchesOwn`);
- `HookDueInv`: the exec hook is armed exactly while somebody needs it;
- `FollowInv`: while no switch was missed, the statistics are the true ones, the
  live stack `Mirrors` the running task's chain (names, S, and for a frame of
  the profiler the cycles since the call and in its callees), and there are
  `Owners`: parked stacks belong to different tasks, each other observed task
  has one, and each mirrors its owner's chain at the time it was parked.

The steps that need an argument are a return, which adds the same to the
statistics and to the truth (`MirrorsPop`, `CountsTruth`), and a switch, which
gives away one owner and takes another (`SwitchOwners`, `SwitchLive`), dropping
the oldest parked stack at the cap (`DropTracks`).

### The rewind session

`RewindSessionProofs` proves `TypeCorrect` and `BreakpointTheorem`
(`BreakpointHolds`) for all shapes of save states, and `DecodesTheorem`
(`RingDecodes`) if they fit in the pool's slots (`Fits` of the ring, as above).
The constants' assumptions say of the shapes that both PPU implementations exist
for every SRAM size, as in the program, where the implementation is a switch and
the size the cartridge's, and that shape is all there is to tell them apart.

The proofs reuse those of the ring: `RewindBufferProofs` is instantiated for the
session's buffer, and the `Same...` lemmas identify its operators with the ones
the session applies. `RingStep` sorts all steps by what they do to the ring
(nothing, capture, clear, announce, take back, reload a dump), so that of the
two dozen actions six kinds remain. Then:

- `SessionInv`: types, `SoundInv` of the ring, and no more entries than frames
  captured since it was cleared, which is what keeps a reloaded dump within its
  bound;
- `DecodeInv`: unless `mixed`, `RingInv` and that the next capture is announced
  or has the length of the newest keyframe (`~Mismatched`). The second half is
  what the class's contract `SizeCoherent` asks of its caller: here it is proved
  of the caller, but for the two ways the model names;
- `BurstInv`: a tick is in progress only while the loop runs.

### The project file

`ProjectProofs` proves `CleanTheorem` (`CleanIsOnDisk`), `UserWins`
(`UserMarksWin`) and `TypeCorrect`, for every set of ROMs, tables of any length
and any number of faults.

*The invariant.* `CleanIsOnDisk` fails to be inductive at save()'s end, which
clears the dirty flag of the whole project and answers for files written several
steps before. `IInv` adds `SaveInv`: while save() runs, the file it is about to
write is due, and of the files it always writes the ones before it are on disk;
and `Shape`, which says what may stand in `project.toml` and in the labels.
`WellInv`, for the types, adds that every table and file is well formed
(`TableOK`), and that the tables save() is through with are clean (`PassedInv`),
without which the project could come out of save() clean with a dirty table.

*The argument.* An edit replaces one table and marks it (`EditedIs`); edits
compose (`EditsCompose`), so that each operation is an edit (`OnlyEdits`), and
those of emulation keep marks and labels (`KeepsMarks`, `KeepsLabels`).
`NextDueIs` says what save() goes on with, `ContinueStep` that going on
preserves the invariant whether the bytes arrived or were lost without a report.
For the types: a cut between two rows leaves a well-formed file (`CutTable`),
reading one back makes a well-formed table (`LoadedTable`), and setting or
erasing a bookmark or noting a transfer keeps the rows distinct (`SetBookmarks`,
`EraseBookmark`, `NoteTransfer`).

### Only model-checked

Liveness (`CallsReturn`, `FullDrains`, `HoldEnds`, `AutosaveRepairs`), which is
out of the prover's reach.

## What is left out of the modelled parts, and why

- RewindBuffer: bytes, XOR and LZ4; the fallback when LZ4 does not compress is
  a length; memory.
- RunControl: the cap of ten million scheduler entries per frame in run_frames;
  the reset button polled by `System::run`; run_spc_samples; non-halting
  callbacks that call back into the library (a callback may set registers, but
  the library does not document calling a run function from one); the thread
  clocks; what an instruction computes.
- ShadowStack: the DMA, HDMA, frame and mark tracks; call sites, kinds and
  labels; programs whose stacks come closer than the slack `kStackResumeSlack`,
  which the code's heuristic does not claim to tell apart. `rearm_cpu` clears
  the shadow stacks like `CallstackClear`.
- AudioRing: mixing, muting, sample formats, the device's choice of rate.
- RewindSession: the pacing clock (how many frames are due is any number up to the
  catch-up bound), the failure to find a boot ROM, `load_state_ex` with another
  policy than the front end's, states without the KSSF footer, the file side of
  autosaves and crash dumps, cartridges without SRAM.
- HookRegistry: dispatch within dispatch, the PPU log's own ring and the DMA, HDMA,
  S-DD1 and VRAM logs, what a trace line says, ids (a callback's id is its place in the
  list, as in the code), `tracer_drain` without a ring, which
  divides by zero (the one caller asks for the size first), and a drain into a buffer
  smaller than what is held, which drops the rest.
- Project: hit times, comments, the names of the register flags, the parsing of
  rows, `project_mark` with `user_sticky` 0, the exports.

## Not modelled, and why

- *Labels and heuristics*: a parser and a scan over ROM bytes, functions of their
  input with no state to get wrong; tests reach them.
- *Python wrapper, test helpers, command line*: thin layers over the C interface.
- *Viewers and windows*: user interface, drawn anew from the machine's state.
- *Tracks of the timeline, DMA logs*: append-only files and vectors written by hooks;
  what they share with others, the hooks, is in HookRegistry.
- *Save states, the bytes*: the footer and the serializer are formatting; what loading decides
  and what a refused load leaves behind is `Loaded` in RewindSession, suspended
  coroutines are in RunControl.
- *Emulation core and third-party code*: ares with its SLJIT, compression and
  SIMD libraries is vendored and makes up all but some 30,000 of the roughly 198,000
  lines of the tree, and two thirds of those are user interface, viewers, the
  Python layers and tests. What kintsuki patched into it and relies on (the
  scheduler, the CPU and SMP entry points, `System::run`) is modelled in RunControl.
  A model of a 65816 or of a JIT would say nothing about kintsuki, so that the
  share of all lines that the modules map is small and stays so; of kintsuki's own
  stateful code the modules cover the components above.

## Plan

Done in this order, most important first: RewindBuffer, RunControl, ShadowStack,
AudioRing with the proofs of RewindBuffer and AudioRing; then Project,
HookRegistry, RewindSession (with the loader of save states) and the proofs of
HookRegistry; then the proofs of RunControl, ShadowStack, Project, RewindSession
and the rest of RewindBuffer's.

Left:

1. **RunControl**: run_spc_samples and the frame cap of run_frames; the callbacks of
   HookRegistry in place of its single halting callback.
2. **Save states**: an abstract specification of loading (a load that fails changes
   nothing) with a run that shows where the swap of the implementation breaks it.
