----------------------------- MODULE RunControl -----------------------------
(***************************************************************************)
(* How the host starts and stops the emulated machine: run_frames, step,   *)
(* run_until, their SPC700 counterparts, save_state, rearm_cpu and the     *)
(* halting breakpoints (target-kintsuki/libkintsuki.cpp, program.cpp) over *)
(* the cooperative scheduler of ares (scheduler.cpp, thread.cpp) and the   *)
(* patched main loops of the two processors (cpu.cpp, smp.cpp).            *)
(*                                                                         *)
(* CPU, SMP and PPU are coroutines.  A processor is suspended                *)
(*   "top"     about to enter Thread::Enter's loop body,                   *)
(*   "synced"  inside scheduler.synchronize(), past the safe point,        *)
(*   "held"    inside main(), after the bail check, instruction pending,   *)
(*   "mid"     inside an instruction (or an interrupt sequence).           *)
(* The clocks that decide which coroutine runs next are left out: inside   *)
(* an instruction the processor may be left for any other one.  What they  *)
(* guarantee is kept: a frame holds between one and SliceBound steps of    *)
(* the CPU, and the SMP is at most one instruction ahead of it.            *)
(***************************************************************************)
EXTENDS Integers, FiniteSets

CONSTANTS
    PCs,         \* code addresses
    NoPC,        \* no address
    CpuPoints,   \* where the host may set halting callbacks on the CPU
    SmpPoints,   \* and on the SMP: code addresses, or Watch for a memory range
    PointBound,  \* bound: halting callbacks registered at a time
    SliceBound,  \* bound: CPU instructions finished in a frame
    FrameBound,  \* bound: frames asked for in one call
    SpinCap      \* bound: scheduler entries of an SPC700 call (2'000'000)

\* A memory (read or write) callback.
Watch == "watch"

ASSUME PCsAssumption == PCs # {} /\ {NoPC, Watch} \cap PCs = {}
ASSUME PointsAssumption == CpuPoints \cup SmpPoints \subseteq PCs \cup {Watch}
ASSUME BoundsAssumption ==
    /\ PointBound \in Nat
    /\ SliceBound \in Nat \ {0}
    /\ FrameBound \in Nat \ {0}
    /\ SpinCap \in Nat \ {0}

VARIABLES
    cpu,     \* position, program counter, STP, WAI, interrupts masked in WAI
    smp,     \* position, program counter, asleep (SLEEP or STOP executed)
    ppu,     \* position
    slice,   \* CPU steps finished since the last frame, SMP ahead of the CPU
    sched,   \* active coroutine, _resume, _mode, _event
    flags,   \* kintsukiBailRequested, kintsukiSmpBailRequested, kintsukiHaltRequested
    hooks,   \* execHook and smpExecHook, and what a call put aside
    points,  \* halting callbacks: exec addresses and memory watches, per processor
    call     \* the host call in progress with its globals

vars == <<cpu, smp, ppu, slice, sched, flags, hooks, points, call>>

Threads == {"cpu", "smp", "ppu"}
FrameRange == 1 .. FrameBound

Idle ==
    [op |-> "idle", left |-> 0, spin |-> 0, target |-> NoPC, hit |-> FALSE,
     stepHit |-> FALSE, stepFromHalt |-> FALSE, wasHeld |-> FALSE,
     struck |-> FALSE, cpuRan |-> 0, smpRan |-> 0]

\* CPU instructions started in a step, or after a breakpoint fired; SMP
\* instructions finished in a step.  More than one is too many.
CpuRan(c) ==
    [c EXCEPT !.cpuRan = IF (c.op = "step" \/ c.struck) /\ @ < 2 THEN @ + 1 ELSE @]

SmpRan(c) ==
    [c EXCEPT !.smpRan = IF c.op = "spc_step" /\ @ < 2 THEN @ + 1 ELSE @]

-----------------------------------------------------------------------------
(* The scheduler *)

At(t) == CASE t = "cpu" -> cpu.at [] t = "smp" -> smp.at [] t = "ppu" -> "mid"

\* Coroutine t may take a step: it is active, or the active one has handed
\* over inside Thread::synchronize(), which it does not do while auxiliary
\* threads are brought to their safe points.
CanRun(t) ==
    \/ sched.active = t
    \/ /\ sched.active # "host"
       /\ At(sched.active) = "mid"
       /\ sched.mode # "auxiliary"
       /\ At(t) # "held"

Runs(t) == [sched EXCEPT !.active = t]

\* Fault: the scheduler forgets which coroutine left it.
ExitForgetsCaller(t, event) == [sched EXCEPT !.active = "host", !.event = event]

\* scheduler.exit(event) from coroutine t.
Exit(t, event) == [sched EXCEPT !.active = "host", !.resume = t, !.event = event]

\* scheduler.enter(): _resume continues.
Enter(mode) == [sched EXCEPT !.active = sched.resume, !.mode = mode]

\* scheduler.synchronize() leaves at the safe point.
SafePoint(t) ==
    /\ At(t) = "top"
    /\ sched.mode = IF t = "cpu" THEN "primary" ELSE "auxiliary"

-----------------------------------------------------------------------------
(* The main CPU *)

\* cFire() for a halting callback raises both flags.
Strike(fl, on) == [fl EXCEPT !.bail = @ \/ on, !.halt = @ \/ on]

\* Which of the installed hooks hears that the CPU reached an address.
UserHears == hooks.exec = "user" \/ (hooks.exec = "until" /\ hooks.saved = "user")

HitsBreakpoint == UserHears /\ cpu.pc \in points.cpu

ReachesTarget == hooks.exec = "until" /\ cpu.pc = call.target

\* Fault: a step from a plain pause bails in front of its own instruction.
StepEndsAtOnce == hooks.exec = "step"

StepEnds == hooks.exec = "step" /\ (call.stepFromHalt \/ call.stepHit)

\* Fault: runUntilHook notes the hit without asking for a bail.
ExecHookNoBail ==
    [Strike(flags, HitsBreakpoint) EXCEPT !.bail = @ \/ StepEnds]

\* execHook(pc) in front of an instruction: cOnExec, stepHook or runUntilHook.
ExecHook ==
    [Strike(flags, HitsBreakpoint) EXCEPT !.bail = @ \/ ReachesTarget \/ StepEnds]

ExecHookCall ==
    [call EXCEPT !.struck = @ \/ HitsBreakpoint, !.hit = @ \/ ReachesTarget,
                 !.stepHit = @ \/ (hooks.exec = "step" /\ ~call.stepFromHalt)]

CpuSynchronize ==
    /\ CanRun("cpu")
    /\ SafePoint("cpu")
    /\ cpu' = [cpu EXCEPT !.at = "synced"]
    /\ sched' = Exit("cpu", "synchronize")
    /\ UNCHANGED <<smp, ppu, slice, flags, hooks, points, call>>

CpuInMain ==
    /\ CanRun("cpu")
    /\ cpu.at \in {"top", "synced"}
    /\ ~SafePoint("cpu")

\* CPU::main() with no interrupt pending: the hook, then the bail check, then
\* the instruction.
CpuDispatch ==
    /\ CpuInMain
    /\ ~cpu.wai /\ ~cpu.stp
    /\ flags' = [ExecHook EXCEPT !.bail = FALSE]
    /\ IF ExecHook.bail
       THEN /\ cpu' = [cpu EXCEPT !.at = "held"]
            /\ sched' = Exit("cpu", "frame")
            /\ call' = ExecHookCall
       ELSE /\ cpu' = [cpu EXCEPT !.at = "mid"]
            /\ sched' = Runs("cpu")
            /\ call' = CpuRan(ExecHookCall)
    /\ UNCHANGED <<smp, ppu, slice, hooks, points>>

\* Returning from the exit() of the bail runs the instruction it held back.
CpuResume ==
    /\ sched.active = "cpu"
    /\ cpu.at = "held"
    /\ cpu' = [cpu EXCEPT !.at = "mid"]
    /\ call' = CpuRan(call)
    /\ UNCHANGED <<smp, ppu, slice, sched, flags, hooks, points>>

\* An interrupt sequence, or another idle cycle of STP: no hook, no bail check.
CpuUnhooked ==
    /\ CpuInMain
    /\ ~cpu.wai
    /\ cpu' = [cpu EXCEPT !.at = "mid"]
    /\ sched' = Runs("cpu")
    /\ UNCHANGED <<smp, ppu, slice, flags, hooks, points, call>>

CpuTicks == [done |-> slice.done + 1, smpAhead |-> FALSE]

MidCpu == CanRun("cpu") /\ cpu.at = "mid" /\ slice.done < SliceBound

\* The instruction (interrupt sequence, idle cycle) ends at the top of main(),
\* elsewhere in the program or not.  It may have touched a watched address.
CpuFinish(pc, touched) ==
    /\ MidCpu
    /\ ~cpu.wai
    /\ cpu.stp => pc = cpu.pc /\ ~touched
    /\ touched => Watch \in points.cpu
    /\ cpu' = [cpu EXCEPT !.at = "top", !.pc = pc]
    /\ flags' = Strike(flags, touched)
    /\ call' = [call EXCEPT !.struck = @ \/ touched]
    /\ slice' = CpuTicks
    /\ sched' = Runs("cpu")
    /\ UNCHANGED <<smp, ppu, hooks, points>>

\* instructionStop(): one idle cycle, then back to main().
CpuStop ==
    /\ MidCpu
    /\ ~cpu.wai /\ ~cpu.stp
    /\ cpu' = [cpu EXCEPT !.at = "top", !.stp = TRUE]
    /\ slice' = CpuTicks
    /\ sched' = Runs("cpu")
    /\ UNCHANGED <<smp, ppu, flags, hooks, points, call>>

\* instructionWait() idles until an interrupt, which may be masked for good.
CpuWait(masked) ==
    /\ MidCpu
    /\ ~cpu.wai /\ ~cpu.stp
    /\ cpu' = [cpu EXCEPT !.wai = TRUE, !.masked = masked]
    /\ slice' = CpuTicks
    /\ sched' = Runs("cpu")
    /\ UNCHANGED <<smp, ppu, flags, hooks, points, call>>

CpuWake ==
    /\ MidCpu
    /\ cpu.wai /\ ~cpu.masked
    /\ cpu' = [cpu EXCEPT !.at = "top", !.wai = FALSE]
    /\ slice' = CpuTicks
    /\ sched' = Runs("cpu")
    /\ UNCHANGED <<smp, ppu, flags, hooks, points, call>>

-----------------------------------------------------------------------------
(* The audio CPU *)

SpcStrike(fl, on) == [fl EXCEPT !.smpBail = @ \/ on, !.halt = @ \/ on]

SpcReachesTarget == hooks.smp = "until" /\ smp.pc = call.target

\* spcStepHook: the program counter is no longer where the step began.
SpcStepEnds == hooks.smp = "step" /\ smp.pc # call.target

\* smpExecHook(pc): cOnSpcExec, spcStepHook or spcRunUntilHook.
SmpExecHook ==
    SpcStrike(flags, \/ hooks.smp = "user" /\ smp.pc \in points.smp
                     \/ SpcReachesTarget
                     \/ SpcStepEnds)

SmpInMain ==
    /\ CanRun("smp")
    /\ smp.at \in {"top", "synced"}
    /\ ~SafePoint("smp")

SmpSynchronize ==
    /\ CanRun("smp")
    /\ SafePoint("smp")
    /\ smp' = [smp EXCEPT !.at = "synced"]
    /\ sched' = Exit("smp", "synchronize")
    /\ UNCHANGED <<cpu, ppu, slice, flags, hooks, points, call>>

SmpDispatch ==
    /\ SmpInMain
    /\ ~smp.asleep
    /\ flags' = [SmpExecHook EXCEPT !.smpBail = FALSE]
    /\ call' = [call EXCEPT !.hit = @ \/ SpcReachesTarget]
    /\ IF SmpExecHook.smpBail
       THEN /\ smp' = [smp EXCEPT !.at = "held"]
            /\ sched' = Exit("smp", "frame")
       ELSE /\ smp' = [smp EXCEPT !.at = "mid"]
            /\ sched' = Runs("smp")
    /\ UNCHANGED <<cpu, ppu, slice, hooks, points>>

SmpResume ==
    /\ sched.active = "smp"
    /\ smp.at = "held"
    /\ smp' = [smp EXCEPT !.at = "mid"]
    /\ UNCHANGED <<cpu, ppu, slice, sched, flags, hooks, points, call>>

\* SLEEP and STOP idle for good, but for synchronization.
SmpAsleep ==
    /\ SmpInMain
    /\ smp.asleep
    /\ smp' = [smp EXCEPT !.at = "mid"]
    /\ sched' = Runs("smp")
    /\ UNCHANGED <<cpu, ppu, slice, flags, hooks, points, call>>

\* A thread being synchronized finishes its instruction without the others.
MidSmp ==
    /\ CanRun("smp")
    /\ smp.at = "mid"
    /\ ~slice.smpAhead \/ sched.mode = "auxiliary"

SmpTicks == [slice EXCEPT !.smpAhead = (sched.mode # "auxiliary")]

SmpFinish(pc, touched) ==
    /\ MidSmp
    /\ smp.asleep => sched.mode = "auxiliary" /\ pc = smp.pc /\ ~touched
    /\ touched => Watch \in points.smp
    /\ smp' = [smp EXCEPT !.at = "top", !.pc = pc]
    /\ flags' = SpcStrike(flags, touched)
    /\ call' = SmpRan(call)
    /\ slice' = SmpTicks
    /\ sched' = Runs("smp")
    /\ UNCHANGED <<cpu, ppu, hooks, points>>

SmpSleep ==
    /\ MidSmp
    /\ ~smp.asleep
    /\ smp' = [smp EXCEPT !.asleep = TRUE]
    /\ slice' = SmpTicks
    /\ sched' = Runs("smp")
    /\ UNCHANGED <<cpu, ppu, flags, hooks, points, call>>

-----------------------------------------------------------------------------
(* The picture *)

\* The end of a frame: screen->frame() counts it, then the scheduler exits.
\* On the way to its safe point the PPU meets at most one.
PpuFrame ==
    /\ CanRun("ppu")
    /\ slice.done > 0 \/ (cpu.wai /\ cpu.masked)
    /\ sched.mode = "auxiliary" => ppu # "ended"
    /\ ppu' = IF sched.mode = "auxiliary" THEN "ended" ELSE "line"
    /\ slice' = [slice EXCEPT !.done = 0]
    /\ call' = [call EXCEPT !.left = IF @ > 0 THEN @ - 1 ELSE 0]
    /\ sched' = Exit("ppu", "frame")
    /\ UNCHANGED <<cpu, smp, flags, hooks, points>>

PpuSynchronize ==
    /\ sched.active = "ppu"
    /\ sched.mode = "auxiliary"
    /\ ppu' = "synced"
    /\ sched' = Exit("ppu", "synchronize")
    /\ UNCHANGED <<cpu, smp, slice, flags, hooks, points, call>>

CpuSteps ==
    \/ CpuSynchronize \/ CpuDispatch \/ CpuResume \/ CpuUnhooked
    \/ \E pc \in PCs, touched \in BOOLEAN : CpuFinish(pc, touched)
    \/ CpuStop \/ CpuWake
    \/ \E masked \in BOOLEAN : CpuWait(masked)

SmpSteps ==
    \/ SmpSynchronize \/ SmpDispatch \/ SmpResume \/ SmpAsleep \/ SmpSleep
    \/ \E pc \in PCs, touched \in BOOLEAN : SmpFinish(pc, touched)

Machine == CpuSteps \/ SmpSteps \/ PpuFrame \/ PpuSynchronize

-----------------------------------------------------------------------------
(* Host calls: each starts when no other is in progress and then loops      *)
(* around scheduler.enter() until its own condition ends it.                *)

HostIdle == call.op = "idle"

InCall(op) == call.op = op /\ sched.active = "host"

EnterAgain ==
    /\ sched' = Enter("run")
    /\ UNCHANGED <<cpu, smp, ppu, slice, flags, hooks, points>>

\* Program::runFrames(n): a breakpoint that fired earlier is forgotten.
RunFrames(n) ==
    /\ HostIdle
    /\ call' = [Idle EXCEPT !.op = "run_frames", !.left = n]
    /\ flags' = [flags EXCEPT !.halt = FALSE]
    /\ sched' = Enter("run")
    /\ UNCHANGED <<cpu, smp, ppu, slice, hooks, points>>

\* Fault: the loop does not look at the sticky halt flag.
RunFramesIgnoresHalt == cpu.stp \/ call.left = 0

RunFramesStops == cpu.stp \/ flags.halt \/ call.left = 0

RunFramesLoops ==
    /\ InCall("run_frames")
    /\ ~RunFramesStops
    /\ EnterAgain
    /\ UNCHANGED call

RunFramesReturns ==
    /\ InCall("run_frames")
    /\ RunFramesStops
    /\ call' = Idle
    /\ UNCHANGED <<cpu, smp, ppu, slice, sched, flags, hooks, points>>

\* Fault: the user's hook is saved after stepHook took its place.
StepSavesLate ==
    /\ HostIdle
    /\ call' = [Idle EXCEPT !.op = "step", !.stepFromHalt = flags.halt,
                            !.wasHeld = (cpu.at = "held")]
    /\ flags' = [flags EXCEPT !.bail = FALSE, !.halt = FALSE]
    /\ hooks' = [hooks EXCEPT !.exec = "step", !.saved = "step"]
    /\ sched' = Enter("run")
    /\ UNCHANGED <<cpu, smp, ppu, slice, points>>

\* kintsuki_step(): one scheduler entry with stepHook installed.
Step ==
    /\ HostIdle
    /\ call' = [Idle EXCEPT !.op = "step", !.stepFromHalt = flags.halt,
                            !.wasHeld = (cpu.at = "held")]
    /\ flags' = [flags EXCEPT !.bail = FALSE, !.halt = FALSE]
    /\ hooks' = [hooks EXCEPT !.exec = "step", !.saved = hooks.exec]
    /\ sched' = Enter("run")
    /\ UNCHANGED <<cpu, smp, ppu, slice, points>>

\* Fault: the hook is cleared instead of restored.
ClearExecHook == [hooks EXCEPT !.exec = "none", !.saved = "none"]

RestoreExecHook == [hooks EXCEPT !.exec = hooks.saved, !.saved = "none"]

StepReturns ==
    /\ InCall("step")
    /\ call' = Idle
    /\ flags' = [flags EXCEPT !.bail = FALSE]
    /\ hooks' = RestoreExecHook
    /\ UNCHANGED <<cpu, smp, ppu, slice, sched, points>>

\* kintsuki_run_until(target, n): the user's hook is called first.
RunUntil(target, n) ==
    /\ HostIdle
    /\ call' = [Idle EXCEPT !.op = "run_until", !.target = target, !.left = n]
    /\ hooks' = [hooks EXCEPT !.exec = "until", !.saved = hooks.exec]
    /\ sched' = Enter("run")
    /\ UNCHANGED <<cpu, smp, ppu, slice, flags, points>>

\* Fault: the frame cap is not checked.
RunUntilUncapped == call.hit

RunUntilEnds == call.hit \/ call.left = 0

RunUntilLoops ==
    /\ InCall("run_until")
    /\ ~RunUntilEnds
    /\ EnterAgain
    /\ UNCHANGED call

RunUntilReturns ==
    /\ InCall("run_until")
    /\ RunUntilEnds
    /\ call' = Idle
    /\ flags' = [flags EXCEPT !.bail = FALSE]
    /\ hooks' = RestoreExecHook
    /\ UNCHANGED <<cpu, smp, ppu, slice, sched, points>>

\* kintsuki_spc_step() and kintsuki_spc_run_until(): kSpcDriveUntilHalt with
\* spcStepHook or spcRunUntilHook in place of the user's hook.
SpcDrive(op, hook, target) ==
    /\ HostIdle
    /\ call' = [Idle EXCEPT !.op = op, !.target = target, !.spin = 1]
    /\ hooks' = [hooks EXCEPT !.smp = hook, !.saved = hooks.smp]
    /\ flags' = [flags EXCEPT !.smpBail = FALSE, !.halt = FALSE]
    /\ sched' = Enter("run")
    /\ UNCHANGED <<cpu, smp, ppu, slice, points>>

SpcStep == SpcDrive("spc_step", "step", smp.pc)

SpcRunUntil(target) == SpcDrive("spc_run_until", "until", target)

InSpcCall == InCall("spc_step") \/ InCall("spc_run_until")

SpcLoops ==
    /\ InSpcCall
    /\ ~flags.halt /\ call.spin < SpinCap
    /\ EnterAgain
    /\ call' = [call EXCEPT !.spin = @ + 1]

SpcReturns ==
    /\ InSpcCall
    /\ flags.halt \/ call.spin = SpinCap
    /\ call' = Idle
    /\ hooks' = [hooks EXCEPT !.smp = hooks.saved, !.saved = "none"]
    /\ UNCHANGED <<cpu, smp, ppu, slice, sched, flags, points>>

\* kintsuki_save_state(): System::serialize(true) brings the primary thread to
\* its safe point, then the others one by one.
SaveState ==
    /\ HostIdle
    /\ call' = [Idle EXCEPT !.op = "save_state"]
    /\ sched' = Enter("primary")
    /\ UNCHANGED <<cpu, smp, ppu, slice, flags, hooks, points>>

\* Fault: whatever event left the scheduler is taken for the safe point.
AnyEvent == sched.event \in {"frame", "synchronize"}

Synchronized == sched.event = "synchronize"

SaveStateLoops ==
    /\ InCall("save_state")
    /\ ~Synchronized
    /\ sched' = Enter(sched.mode)
    /\ UNCHANGED <<cpu, smp, ppu, slice, flags, hooks, points, call>>

NextThread == IF sched.mode = "primary" THEN "smp" ELSE "ppu"

SaveStateNextThread ==
    /\ InCall("save_state")
    /\ Synchronized
    /\ sched.resume # "ppu"
    /\ sched' = [sched EXCEPT !.mode = "auxiliary", !.resume = NextThread,
                              !.active = NextThread]
    /\ UNCHANGED <<cpu, smp, ppu, slice, flags, hooks, points, call>>

SaveStateReturns ==
    /\ InCall("save_state")
    /\ Synchronized
    /\ sched.resume = "ppu"
    /\ call' = Idle
    /\ UNCHANGED <<cpu, smp, ppu, slice, sched, flags, hooks, points>>

Fresh(pc) ==
    [at |-> "top", pc |-> pc, stp |-> FALSE, wai |-> FALSE, masked |-> FALSE]

\* load_state, reset and load_rom: System::power() recreates every coroutine,
\* and the scheduler resumes with the CPU.  The run-control flags survive.
Reboot(pc, spc, stp) ==
    /\ HostIdle
    /\ cpu' = [Fresh(pc) EXCEPT !.stp = stp]
    /\ smp' = [at |-> "top", pc |-> spc, asleep |-> FALSE]
    /\ ppu' = "line"
    /\ sched' = [sched EXCEPT !.resume = "cpu"]
    /\ UNCHANGED <<slice, flags, hooks, points, call>>

\* kintsuki_rearm_cpu(), after which the host sets the registers.
RearmCpu(pc) ==
    /\ HostIdle
    /\ cpu' = Fresh(pc)
    /\ UNCHANGED <<smp, ppu, slice, sched, flags, hooks, points, call>>

ExecPoints(P) == P \cap PCs

RoomForPoint == Cardinality(points.cpu) + Cardinality(points.smp) < PointBound

\* kintsuki_add_callback_ex() and kintsuki_remove_callback().
AddCallback(p) ==
    /\ HostIdle
    /\ RoomForPoint
    /\ points' = [points EXCEPT !.cpu = @ \cup {p}]
    /\ hooks' = [hooks EXCEPT !.exec = IF p \in PCs THEN "user" ELSE @]
    /\ UNCHANGED <<cpu, smp, ppu, slice, sched, flags, call>>

RemoveCallback(p) ==
    /\ HostIdle
    /\ points' = [points EXCEPT !.cpu = @ \ {p}]
    /\ hooks' = [hooks EXCEPT !.exec =
                    IF p \in PCs /\ ExecPoints(points.cpu \ {p}) = {} THEN "none" ELSE @]
    /\ UNCHANGED <<cpu, smp, ppu, slice, sched, flags, call>>

SpcAddCallback(p) ==
    /\ HostIdle
    /\ RoomForPoint
    /\ points' = [points EXCEPT !.smp = @ \cup {p}]
    /\ hooks' = [hooks EXCEPT !.smp = IF p \in PCs THEN "user" ELSE @]
    /\ UNCHANGED <<cpu, smp, ppu, slice, sched, flags, call>>

SpcRemoveCallback(p) ==
    /\ HostIdle
    /\ points' = [points EXCEPT !.smp = @ \ {p}]
    /\ hooks' = [hooks EXCEPT !.smp =
                    IF p \in PCs /\ ExecPoints(points.smp \ {p}) = {} THEN "none" ELSE @]
    /\ UNCHANGED <<cpu, smp, ppu, slice, sched, flags, call>>

HostLoop ==
    \/ RunFramesLoops \/ RunFramesReturns
    \/ StepReturns
    \/ RunUntilLoops \/ RunUntilReturns
    \/ SpcLoops \/ SpcReturns
    \/ SaveStateLoops \/ SaveStateNextThread \/ SaveStateReturns

HostCall ==
    \/ \E n \in FrameRange : RunFrames(n)
    \/ Step
    \/ \E target \in PCs, n \in FrameRange : RunUntil(target, n)
    \/ SpcStep
    \/ \E target \in PCs : SpcRunUntil(target)
    \/ SaveState
    \/ \E pc, spc \in PCs, stp \in BOOLEAN : Reboot(pc, spc, stp)
    \/ \E pc \in PCs : RearmCpu(pc)
    \/ \E p \in CpuPoints : AddCallback(p) \/ RemoveCallback(p)
    \/ \E p \in SmpPoints : SpcAddCallback(p) \/ SpcRemoveCallback(p)

Init ==
    /\ \E pc, spc \in PCs :
          /\ cpu = Fresh(pc)
          /\ smp = [at |-> "top", pc |-> spc, asleep |-> FALSE]
    /\ ppu = "line"
    /\ slice = [done |-> 0, smpAhead |-> FALSE]
    /\ sched = [active |-> "host", resume |-> "cpu", mode |-> "run", event |-> "frame"]
    /\ flags = [bail |-> FALSE, smpBail |-> FALSE, halt |-> FALSE]
    /\ hooks = [exec |-> "none", smp |-> "none", saved |-> "none"]
    /\ points = [cpu |-> {}, smp |-> {}]
    /\ call = Idle

Next == Machine \/ HostLoop \/ HostCall

\* The host thread stays inside its call: coroutines and the loop around them
\* go on by themselves, while nothing obliges the host to make another call.
Fairness == WF_vars(Machine \/ HostLoop)

Spec == Init /\ [][Next]_vars /\ Fairness

-----------------------------------------------------------------------------
(* Properties *)

Positions == {"top", "synced", "held", "mid"}
Ops == {"idle", "run_frames", "step", "run_until", "spc_step", "spc_run_until", "save_state"}

\* Type correctness of the coroutines, the scheduler, flags, hooks and call.
TypeOK ==
    /\ cpu \in [at : Positions, pc : PCs, stp : BOOLEAN, wai : BOOLEAN, masked : BOOLEAN]
    /\ smp \in [at : Positions, pc : PCs, asleep : BOOLEAN]
    /\ ppu \in {"line", "ended", "synced"}
    /\ slice \in [done : 0 .. SliceBound, smpAhead : BOOLEAN]
    /\ sched \in [active : Threads \cup {"host"}, resume : Threads,
                  mode : {"run", "primary", "auxiliary"}, event : {"frame", "synchronize"}]
    /\ flags \in [bail : BOOLEAN, smpBail : BOOLEAN, halt : BOOLEAN]
    /\ hooks \in [exec : {"none", "user", "step", "until"},
                  smp : {"none", "user", "step", "until"}, saved : {"none", "user"}]
    /\ points \in [cpu : SUBSET CpuPoints, smp : SUBSET SmpPoints]
    /\ call \in [op : Ops, left : 0 .. FrameBound, spin : 0 .. SpinCap,
                 target : PCs \cup {NoPC}, hit : BOOLEAN, stepHit : BOOLEAN,
                 stepFromHalt : BOOLEAN, wasHeld : BOOLEAN, struck : BOOLEAN,
                 cpuRan : 0 .. 2, smpRan : 0 .. 2]

\* Between calls the dispatchers are installed exactly while there are exec
\* callbacks to serve: no call leaves its own hook behind or drops the user's.
HooksServeCallbacks ==
    HostIdle =>
        /\ hooks.exec = (IF ExecPoints(points.cpu) # {} THEN "user" ELSE "none")
        /\ hooks.smp = (IF ExecPoints(points.smp) # {} THEN "user" ELSE "none")

\* A coroutine held back by a bail is the one the scheduler resumes, so no
\* other coroutine ever runs in front of the held instruction.
HeldIsResumed ==
    /\ cpu.at = "held" => "cpu" \in {sched.active, sched.resume}
    /\ smp.at = "held" => "smp" \in {sched.active, sched.resume}
    /\ ~(cpu.at = "held" /\ smp.at = "held")

Returns(op) == call.op = op /\ call'.op = "idle"

\* A halting breakpoint on the main CPU (exec or memory) that fires inside
\* run_frames lets no further CPU instruction start before run_frames returns.
BreakpointStopsTheCpu ==
    call.op = "run_frames" => call.cpuRan = 0

\* When run_until reports a hit, the CPU is held in front of the target.
UntilHitIsAtTarget ==
    [][Returns("run_until") /\ call.hit => cpu.at = "held" /\ cpu.pc = call.target]_vars

\* kintsuki_step() runs exactly one instruction whenever the halt flag it
\* consults tells the truth about where the coroutine was suspended, and
\* neither a breakpoint nor the end of the frame cut the step short.
StepRunsOneInstruction ==
    [][Returns("step") /\ call.stepFromHalt = call.wasHeld /\ ~flags.halt /\ cpu.at = "held"
         => call.cpuRan = 1]_vars

\* A state is saved with every coroutine at its safe point, even when
\* breakpoints or the end of the frame exit the scheduler on the way there.
SavesAtSafePoints ==
    [][Returns("save_state") => /\ cpu.at = "synced" /\ smp.at = "synced" /\ ppu = "synced"]_vars

\* Every host call returns; save_state unless the CPU sits in WAI with its
\* interrupts masked.
CallsReturn ==
    ~HostIdle ~> HostIdle \/ (call.op = "save_state" /\ cpu.wai /\ cpu.masked)

\* libkintsuki.cpp says of kintsuki_step "from a bail-yielded halt (BP, prior
\* step)" that the instruction it resumes is counted "so we don't accidentally
\* step two instructions".
StepFromHaltIsOne ==
    [][Returns("step") /\ call.wasHeld /\ ~flags.halt /\ cpu.at = "held"
         => call.cpuRan = 1]_vars

\* kintsuki.h says of kintsuki_spc_step: "Execute exactly one SPC700
\* instruction (the one at the current SMP PC)".
SpcStepIsExactlyOne ==
    [][Returns("spc_step") => call.smpRan < 2]_vars
=============================================================================
