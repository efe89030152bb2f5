--------------------------- MODULE RunControlProofs ---------------------------
(***************************************************************************)
(* Proofs about RunControl, for every set of code addresses and every      *)
(* value of the bounds.                                                    *)
(***************************************************************************)
EXTENDS RunControl, TLAPS

-----------------------------------------------------------------------------
(* The inductive invariant *)

\* The dispatcher the callbacks call for, per processor.
UserExec == IF ExecPoints(points.cpu) # {} THEN "user" ELSE "none"
UserSmp == IF ExecPoints(points.smp) # {} THEN "user" ELSE "none"

\* A call that borrows a hook has put the user's aside, and no other hook is
\* ever borrowed.
HookInv ==
    /\ hooks.exec = IF call.op = "step" THEN "step"
                    ELSE IF call.op = "run_until" THEN "until" ELSE UserExec
    /\ hooks.smp = IF call.op = "spc_step" THEN "step"
                   ELSE IF call.op = "spc_run_until" THEN "until" ELSE UserSmp
    /\ call.op \in {"step", "run_until"} => hooks.saved = UserExec
    /\ call.op \in {"spc_step", "spc_run_until"} => hooks.saved = UserSmp

\* A coroutine that is held back is where the scheduler goes on, and it goes on
\* before any other does.
HeldInv ==
    /\ HostIdle => sched.active = "host"
    /\ cpu.at = "held" => sched.resume = "cpu" /\ sched.active \in {"host", "cpu"}
    /\ smp.at = "held" => sched.resume = "smp" /\ sched.active \in {"host", "smp"}

\* Saving a state brings the coroutines to their safe points in turn, and the
\* ones that are there stay there.
SaveInv ==
    /\ call.op # "save_state" /\ sched.active # "host" => sched.mode = "run"
    /\ call.op = "save_state" =>
        /\ sched.mode \in {"primary", "auxiliary"}
        /\ sched.mode = "primary" =>
            (sched.active = "host" /\ Synchronized => sched.resume = "cpu" /\ cpu.at = "synced")
        /\ sched.mode = "auxiliary" =>
            /\ cpu.at = "synced"
            /\ sched.resume \in {"smp", "ppu"} /\ sched.active \in {"host", sched.resume}
            /\ sched.resume = "ppu" => smp.at = "synced"
            /\ sched.active = "host" /\ Synchronized =>
                IF sched.resume = "smp" THEN smp.at = "synced" ELSE ppu = "synced"

\* After a breakpoint fired in run_frames the CPU is held, or will be in front of
\* its next instruction, and run_frames will not enter the scheduler again.
BreakInv ==
    call.op = "run_frames" =>
        /\ call.cpuRan = 0
        /\ call.struck => /\ flags.halt
                          /\ cpu.at = "held" => sched.active = "host"
                          /\ cpu.at # "held" => flags.bail

\* Once the target was reached run_until has left the scheduler for good.
UntilInv ==
    call.op = "run_until" /\ call.hit =>
        cpu.at = "held" /\ cpu.pc = call.target /\ sched.active = "host"

\* How far a step is that knows where the CPU was and met no breakpoint.
StepInv ==
    call.op = "step" /\ call.stepFromHalt = call.wasHeld /\ ~flags.halt =>
        /\ ~flags.bail
        /\ \/ /\ call.stepFromHalt \/ call.stepHit
              /\ call.cpuRan = 1
              /\ cpu.at = "held" => sched.active = "host"
           \/ /\ call.stepFromHalt
              /\ call.cpuRan = 0
              /\ cpu.at = "held" /\ sched.active = "cpu"
           \/ /\ ~call.stepFromHalt /\ ~call.stepHit
              /\ call.cpuRan = 0
              /\ cpu.at # "held"

IInv == TypeOK /\ HookInv /\ HeldInv /\ SaveInv /\ BreakInv /\ UntilInv /\ StepInv

-----------------------------------------------------------------------------
(* Type correctness *)

\* One name per type of TypeOK.
CpuType == [at : Positions, pc : PCs, stp : BOOLEAN, wai : BOOLEAN, masked : BOOLEAN]
SmpType == [at : Positions, pc : PCs, asleep : BOOLEAN]
PpuType == {"line", "ended", "synced"}
SliceType == [done : 0 .. SliceBound, smpAhead : BOOLEAN]
SchedType == [active : Threads \cup {"host"}, resume : Threads,
              mode : {"run", "primary", "auxiliary"}, event : {"frame", "synchronize"}]
FlagsType == [bail : BOOLEAN, smpBail : BOOLEAN, halt : BOOLEAN]
HooksType == [exec : {"none", "user", "step", "until"},
              smp : {"none", "user", "step", "until"}, saved : {"none", "user"}]
PointsType == [cpu : SUBSET CpuPoints, smp : SUBSET SmpPoints]
CallType == [op : Ops, left : 0 .. FrameBound, spin : 0 .. SpinCap,
             target : PCs \cup {NoPC}, hit : BOOLEAN, stepHit : BOOLEAN,
             stepFromHalt : BOOLEAN, wasHeld : BOOLEAN, struck : BOOLEAN,
             cpuRan : 0 .. 2, smpRan : 0 .. 2]

\* TypeOK, one named type per variable.
Typed ==
    /\ cpu \in CpuType /\ smp \in SmpType /\ ppu \in PpuType
    /\ slice \in SliceType /\ sched \in SchedType /\ flags \in FlagsType
    /\ hooks \in HooksType /\ points \in PointsType /\ call \in CallType

\* Typed says what TypeOK says, in this state and in the next.
LEMMA TypedIsTypeOK == (Typed <=> TypeOK) /\ (Typed' <=> TypeOK')
  BY DEF Typed, TypeOK, CpuType, SmpType, PpuType, SliceType, SchedType, FlagsType,
         HooksType, PointsType, CallType

\* scheduler.exit() leaves a scheduler.
LEMMA ExitTyped ==
    ASSUME sched \in SchedType, NEW t \in Threads, NEW e \in {"frame", "synchronize"}
    PROVE Exit(t, e) \in SchedType
  BY DEF Exit, SchedType

\* A coroutine that goes on leaves a scheduler.
LEMMA RunsTyped ==
    ASSUME sched \in SchedType, NEW t \in Threads
    PROVE Runs(t) \in SchedType
  BY DEF Runs, SchedType

\* scheduler.enter() leaves a scheduler.
LEMMA EnterTyped ==
    ASSUME sched \in SchedType, NEW m \in {"run", "primary", "auxiliary"}
    PROVE Enter(m) \in SchedType
  BY DEF Enter, SchedType

\* A breakpoint of the CPU leaves flags.
LEMMA StrikeTyped ==
    ASSUME NEW fl \in FlagsType, NEW on \in BOOLEAN
    PROVE Strike(fl, on) \in FlagsType
  BY DEF Strike, FlagsType

\* A breakpoint of the audio CPU leaves flags.
LEMMA SpcStrikeTyped ==
    ASSUME NEW fl \in FlagsType, NEW on \in BOOLEAN
    PROVE SpcStrike(fl, on) \in FlagsType
  BY DEF SpcStrike, FlagsType

\* No call in progress is a call record.
LEMMA IdleTyped == Idle \in CallType
  BY BoundsAssumption DEF Idle, CallType, Ops

\* Counting an instruction of the CPU leaves a call.
LEMMA CpuRanTyped ==
    ASSUME NEW c \in CallType
    PROVE CpuRan(c) \in CallType
  <1>1. c.cpuRan \in 0 .. 2
    BY DEF CallType
  <1>2. (IF (c.op = "step" \/ c.struck) /\ c.cpuRan < 2 THEN c.cpuRan + 1 ELSE c.cpuRan) \in 0 .. 2
    BY <1>1
  <1>. QED
    BY <1>2 DEF CpuRan, CallType

\* What the hook notes leaves a call.
LEMMA HookCallTyped ==
    ASSUME call \in CallType
    PROVE ExecHookCall \in CallType
  BY DEF ExecHookCall, CallType, HitsBreakpoint, UserHears, ReachesTarget

\* The call that run_frames starts.
LEMMA RunTyped ==
    ASSUME NEW c \in CallType, NEW n \in 0 .. FrameBound
    PROVE [c EXCEPT !.op = "run_frames", !.left = n] \in CallType
  BY DEF CallType, Ops

\* The call that step starts.
LEMMA StepTyped ==
    ASSUME NEW c \in CallType, NEW fromHalt \in BOOLEAN, NEW held \in BOOLEAN
    PROVE [c EXCEPT !.op = "step", !.stepFromHalt = fromHalt, !.wasHeld = held] \in CallType
  BY DEF CallType, Ops

\* The call that run_until starts.
LEMMA TargetTyped ==
    ASSUME NEW c \in CallType, NEW target \in PCs, NEW n \in 0 .. FrameBound
    PROVE [c EXCEPT !.op = "run_until", !.target = target, !.left = n] \in CallType
  BY DEF CallType, Ops

\* The call that spc_step and spc_run_until start.
LEMMA DriveTyped ==
    ASSUME NEW c \in CallType, NEW op \in Ops, NEW target \in PCs
    PROVE [c EXCEPT !.op = op, !.target = target, !.spin = 1] \in CallType
  <1>1. 1 \in 0 .. SpinCap
    BY BoundsAssumption
  <1>. QED
    BY <1>1 DEF CallType

\* Counting an instruction of the audio CPU leaves a call.
LEMMA SmpRanTyped ==
    ASSUME NEW c \in CallType
    PROVE SmpRan(c) \in CallType
  <1>1. c.smpRan \in 0 .. 2
    BY DEF CallType
  <1>2. (IF c.op = "spc_step" /\ c.smpRan < 2 THEN c.smpRan + 1 ELSE c.smpRan) \in 0 .. 2
    BY <1>1
  <1>. QED
    BY <1>2 DEF SmpRan, CallType

\* Counting down a frame leaves a call.
LEMMA LeftTyped ==
    ASSUME NEW c \in CallType
    PROVE [c EXCEPT !.left = IF @ > 0 THEN @ - 1 ELSE 0] \in CallType
  <1>1. c.left \in 0 .. FrameBound
    BY DEF CallType
  <1>2. (IF c.left > 0 THEN c.left - 1 ELSE 0) \in 0 .. FrameBound
    BY <1>1, BoundsAssumption
  <1>. QED
    BY <1>2 DEF CallType

\* Counting a scheduler entry leaves a call.
LEMMA SpinTyped ==
    ASSUME NEW c \in CallType, c.spin < SpinCap
    PROVE [c EXCEPT !.spin = @ + 1] \in CallType
  <1>1. c.spin \in 0 .. SpinCap
    BY DEF CallType
  <1>2. c.spin + 1 \in 0 .. SpinCap
    BY <1>1, BoundsAssumption
  <1>. QED
    BY <1>2 DEF CallType

\* Every step preserves TypeOK.
LEMMA TypeStep == TypeOK /\ HookInv /\ [Next]_vars => TypeOK'
  <1>. SUFFICES ASSUME Typed, HookInv, [Next]_vars PROVE Typed'
    BY TypedIsTypeOK
  <1>. USE DEF Typed
  <1>1. CASE CpuSynchronize
    <2>1. cpu' \in CpuType
      BY <1>1 DEF CpuSynchronize, CpuType, Positions
    <2>2. sched' \in SchedType
      BY <1>1, ExitTyped DEF CpuSynchronize, Threads
    <2>. QED
      BY <1>1, <2>1, <2>2 DEF CpuSynchronize
  <1>2. CASE CpuDispatch
    <2>1. cpu' \in CpuType
      BY <1>2 DEF CpuDispatch, CpuType, Positions
    <2>2. sched' \in SchedType
      BY <1>2, ExitTyped, RunsTyped DEF CpuDispatch, SchedType, Threads
    <2>3. flags' \in FlagsType
      BY <1>2, StrikeTyped DEF CpuDispatch, ExecHook, HitsBreakpoint, UserHears,
          ReachesTarget, StepEnds, FlagsType
    <2>4. call' \in CallType
      BY <1>2, HookCallTyped, CpuRanTyped DEF CpuDispatch
    <2>. QED
      BY <1>2, <2>1, <2>2, <2>3, <2>4 DEF CpuDispatch
  <1>3. CASE CpuResume
    <2>1. cpu' \in CpuType
      BY <1>3 DEF CpuResume, CpuType, Positions
    <2>2. call' \in CallType
      BY <1>3, CpuRanTyped DEF CpuResume
    <2>. QED
      BY <1>3, <2>1, <2>2 DEF CpuResume
  <1>4. CASE CpuUnhooked
    <2>1. cpu' \in CpuType
      BY <1>4 DEF CpuUnhooked, CpuType, Positions
    <2>2. sched' \in SchedType
      BY <1>4, RunsTyped DEF CpuUnhooked, Threads
    <2>. QED
      BY <1>4, <2>1, <2>2 DEF CpuUnhooked
  <1>5. ASSUME NEW pc \in PCs, NEW touched \in BOOLEAN, CpuFinish(pc, touched) PROVE Typed'
    <2>1. cpu' \in CpuType
      BY <1>5 DEF CpuFinish, CpuType, Positions
    <2>2. flags' \in FlagsType
      BY <1>5, StrikeTyped DEF CpuFinish, FlagsType
    <2>3. call' \in CallType
      BY <1>5 DEF CpuFinish, CallType, Ops
    <2>4. slice' \in SliceType
      BY <1>5, BoundsAssumption DEF CpuFinish, MidCpu, CpuTicks, SliceType
    <2>5. sched' \in SchedType
      BY <1>5, RunsTyped DEF CpuFinish, Threads
    <2>. QED
      BY <1>5, <2>1, <2>2, <2>3, <2>4, <2>5 DEF CpuFinish
  <1>6. CASE CpuStop
    <2>1. cpu' \in CpuType
      BY <1>6 DEF CpuStop, CpuType, Positions
    <2>2. slice' \in SliceType
      BY <1>6, BoundsAssumption DEF CpuStop, MidCpu, CpuTicks, SliceType
    <2>3. sched' \in SchedType
      BY <1>6, RunsTyped DEF CpuStop, Threads
    <2>. QED
      BY <1>6, <2>1, <2>2, <2>3 DEF CpuStop
  <1>7. CASE CpuWake
    <2>1. cpu' \in CpuType
      BY <1>7 DEF CpuWake, CpuType, Positions
    <2>2. slice' \in SliceType
      BY <1>7, BoundsAssumption DEF CpuWake, MidCpu, CpuTicks, SliceType
    <2>3. sched' \in SchedType
      BY <1>7, RunsTyped DEF CpuWake, Threads
    <2>. QED
      BY <1>7, <2>1, <2>2, <2>3 DEF CpuWake
  <1>8. ASSUME NEW masked \in BOOLEAN, CpuWait(masked) PROVE Typed'
    <2>1. cpu' \in CpuType
      BY <1>8 DEF CpuWait, CpuType, Positions
    <2>2. slice' \in SliceType
      BY <1>8, BoundsAssumption DEF CpuWait, MidCpu, CpuTicks, SliceType
    <2>3. sched' \in SchedType
      BY <1>8, RunsTyped DEF CpuWait, Threads
    <2>. QED
      BY <1>8, <2>1, <2>2, <2>3 DEF CpuWait
  <1>9. CASE SmpSynchronize
    <2>1. smp' \in SmpType
      BY <1>9 DEF SmpSynchronize, SmpType, Positions
    <2>2. sched' \in SchedType
      BY <1>9, ExitTyped DEF SmpSynchronize, Threads
    <2>. QED
      BY <1>9, <2>1, <2>2 DEF SmpSynchronize
  <1>10. CASE SmpDispatch
    <2>1. smp' \in SmpType
      BY <1>10 DEF SmpDispatch, SmpType, Positions
    <2>2. sched' \in SchedType
      BY <1>10, ExitTyped, RunsTyped DEF SmpDispatch, Threads
    <2>3. flags' \in FlagsType
      BY <1>10, SpcStrikeTyped DEF SmpDispatch, SmpExecHook, SpcReachesTarget, SpcStepEnds,
          FlagsType
    <2>4. call' \in CallType
      BY <1>10 DEF SmpDispatch, SpcReachesTarget, CallType, Ops
    <2>. QED
      BY <1>10, <2>1, <2>2, <2>3, <2>4 DEF SmpDispatch
  <1>11. CASE SmpResume
    <2>1. smp' \in SmpType
      BY <1>11 DEF SmpResume, SmpType, Positions
    <2>. QED
      BY <1>11, <2>1 DEF SmpResume
  <1>12. CASE SmpAsleep
    <2>1. smp' \in SmpType
      BY <1>12 DEF SmpAsleep, SmpType, Positions
    <2>2. sched' \in SchedType
      BY <1>12, RunsTyped DEF SmpAsleep, Threads
    <2>. QED
      BY <1>12, <2>1, <2>2 DEF SmpAsleep
  <1>13. CASE SmpSleep
    <2>1. smp' \in SmpType
      BY <1>13 DEF SmpSleep, SmpType, Positions
    <2>2. slice' \in SliceType
      BY <1>13, BoundsAssumption DEF SmpSleep, SmpTicks, SliceType
    <2>3. sched' \in SchedType
      BY <1>13, RunsTyped DEF SmpSleep, Threads
    <2>. QED
      BY <1>13, <2>1, <2>2, <2>3 DEF SmpSleep
  <1>14. ASSUME NEW pc \in PCs, NEW touched \in BOOLEAN, SmpFinish(pc, touched) PROVE Typed'
    <2>1. smp' \in SmpType
      BY <1>14 DEF SmpFinish, SmpType, Positions
    <2>2. flags' \in FlagsType
      BY <1>14, SpcStrikeTyped DEF SmpFinish, FlagsType
    <2>3. call' \in CallType
      BY <1>14, SmpRanTyped DEF SmpFinish
    <2>4. slice' \in SliceType
      BY <1>14, BoundsAssumption DEF SmpFinish, SmpTicks, SliceType
    <2>5. sched' \in SchedType
      BY <1>14, RunsTyped DEF SmpFinish, Threads
    <2>. QED
      BY <1>14, <2>1, <2>2, <2>3, <2>4, <2>5 DEF SmpFinish
  <1>15. CASE PpuFrame
    <2>1. ppu' \in PpuType
      BY <1>15 DEF PpuFrame, PpuType
    <2>2. slice' \in SliceType
      BY <1>15, BoundsAssumption DEF PpuFrame, SliceType
    <2>3. call' \in CallType
      BY <1>15, LeftTyped DEF PpuFrame
    <2>4. sched' \in SchedType
      BY <1>15, ExitTyped DEF PpuFrame, Threads
    <2>. QED
      BY <1>15, <2>1, <2>2, <2>3, <2>4 DEF PpuFrame
  <1>16. CASE PpuSynchronize
    <2>1. ppu' \in PpuType
      BY <1>16 DEF PpuSynchronize, PpuType
    <2>2. sched' \in SchedType
      BY <1>16, ExitTyped DEF PpuSynchronize, Threads
    <2>. QED
      BY <1>16, <2>1, <2>2 DEF PpuSynchronize
  <1>17. CASE RunFramesLoops
    <2>1. sched' \in SchedType
      BY <1>17, EnterTyped DEF RunFramesLoops, EnterAgain, Threads
    <2>. QED
      BY <1>17, <2>1 DEF RunFramesLoops, EnterAgain
  <1>18. CASE RunFramesReturns
    <2>1. call' \in CallType
      BY <1>18, IdleTyped DEF RunFramesReturns, CallType, Ops
    <2>. QED
      BY <1>18, <2>1 DEF RunFramesReturns
  <1>19. CASE StepReturns
    <2>1. call' \in CallType
      BY <1>19, IdleTyped DEF StepReturns, CallType, Ops
    <2>2. flags' \in FlagsType
      BY <1>19 DEF StepReturns, FlagsType
    <2>3. hooks' \in HooksType
      BY <1>19 DEF StepReturns, RestoreExecHook, HooksType, HookInv, UserExec, UserSmp,
          InCall, InSpcCall
    <2>. QED
      BY <1>19, <2>1, <2>2, <2>3 DEF StepReturns
  <1>20. CASE RunUntilLoops
    <2>1. sched' \in SchedType
      BY <1>20, EnterTyped DEF RunUntilLoops, EnterAgain, Threads
    <2>. QED
      BY <1>20, <2>1 DEF RunUntilLoops, EnterAgain
  <1>21. CASE RunUntilReturns
    <2>1. call' \in CallType
      BY <1>21, IdleTyped DEF RunUntilReturns, CallType, Ops
    <2>2. flags' \in FlagsType
      BY <1>21 DEF RunUntilReturns, FlagsType
    <2>3. hooks' \in HooksType
      BY <1>21 DEF RunUntilReturns, RestoreExecHook, HooksType, HookInv, UserExec, UserSmp,
          InCall, InSpcCall
    <2>. QED
      BY <1>21, <2>1, <2>2, <2>3 DEF RunUntilReturns
  <1>22. CASE SpcLoops
    <2>1. sched' \in SchedType
      BY <1>22, EnterTyped DEF SpcLoops, EnterAgain, Threads
    <2>2. call' \in CallType
      BY <1>22, SpinTyped DEF SpcLoops
    <2>. QED
      BY <1>22, <2>1, <2>2 DEF SpcLoops, EnterAgain
  <1>23. CASE SpcReturns
    <2>1. call' \in CallType
      BY <1>23, IdleTyped DEF SpcReturns, CallType, Ops
    <2>2. hooks' \in HooksType
      BY <1>23 DEF SpcReturns, HooksType, HookInv, UserExec, UserSmp, InCall, InSpcCall
    <2>. QED
      BY <1>23, <2>1, <2>2 DEF SpcReturns
  <1>24. CASE SaveStateLoops
    <2>1. sched' \in SchedType
      BY <1>24, EnterTyped DEF SaveStateLoops, SchedType, Threads
    <2>. QED
      BY <1>24, <2>1 DEF SaveStateLoops
  <1>25. CASE SaveStateNextThread
    <2>1. sched' \in SchedType
      BY <1>25 DEF SaveStateNextThread, NextThread, SchedType, Threads
    <2>. QED
      BY <1>25, <2>1 DEF SaveStateNextThread
  <1>26. CASE SaveStateReturns
    <2>1. call' \in CallType
      BY <1>26, IdleTyped DEF SaveStateReturns, CallType, Ops
    <2>. QED
      BY <1>26, <2>1 DEF SaveStateReturns
  <1>27. ASSUME NEW n \in FrameRange, RunFrames(n) PROVE Typed'
    <2>1. n \in 0 .. FrameBound
      BY BoundsAssumption DEF FrameRange
    <2>2. call' \in CallType
      BY <1>27, <2>1, IdleTyped, RunTyped DEF RunFrames
    <2>3. flags' \in FlagsType
      BY <1>27 DEF RunFrames, FlagsType
    <2>4. sched' \in SchedType
      BY <1>27, EnterTyped DEF RunFrames, Threads
    <2>. QED
      BY <1>27, <2>1, <2>2, <2>3, <2>4 DEF RunFrames
  <1>28. CASE Step
    <2>1. call' \in CallType
      BY <1>28, IdleTyped, StepTyped DEF Step, FlagsType
    <2>2. flags' \in FlagsType
      BY <1>28 DEF Step, FlagsType
    <2>3. hooks' \in HooksType
      BY <1>28 DEF Step, HooksType, HookInv, UserExec, UserSmp, HostIdle
    <2>4. sched' \in SchedType
      BY <1>28, EnterTyped DEF Step, Threads
    <2>. QED
      BY <1>28, <2>1, <2>2, <2>3, <2>4 DEF Step
  <1>29. ASSUME NEW target \in PCs, NEW n \in FrameRange, RunUntil(target, n) PROVE Typed'
    <2>1. n \in 0 .. FrameBound
      BY BoundsAssumption DEF FrameRange
    <2>2. call' \in CallType
      BY <1>29, <2>1, IdleTyped, TargetTyped DEF RunUntil
    <2>3. hooks' \in HooksType
      BY <1>29 DEF RunUntil, HooksType, HookInv, UserExec, UserSmp, HostIdle
    <2>4. sched' \in SchedType
      BY <1>29, EnterTyped DEF RunUntil, Threads
    <2>. QED
      BY <1>29, <2>1, <2>2, <2>3, <2>4 DEF RunUntil
  <1>30. CASE SpcStep
    <2>1. smp.pc \in PCs /\ "spc_step" \in Ops
      BY DEF SmpType, Ops
    <2>2. call' \in CallType
      BY <1>30, <2>1, IdleTyped, DriveTyped DEF SpcStep, SpcDrive
    <2>3. flags' \in FlagsType
      BY <1>30 DEF SpcStep, SpcDrive, FlagsType
    <2>4. hooks' \in HooksType
      BY <1>30 DEF SpcStep, SpcDrive, HooksType, HookInv, UserExec, UserSmp, HostIdle
    <2>5. sched' \in SchedType
      BY <1>30, EnterTyped DEF SpcStep, SpcDrive, Threads
    <2>. QED
      BY <1>30, <2>1, <2>2, <2>3, <2>4, <2>5 DEF SpcStep, SpcDrive
  <1>31. ASSUME NEW target \in PCs, SpcRunUntil(target) PROVE Typed'
    <2>1. "spc_run_until" \in Ops
      BY DEF Ops
    <2>2. call' \in CallType
      BY <1>31, <2>1, IdleTyped, DriveTyped DEF SpcRunUntil, SpcDrive
    <2>3. flags' \in FlagsType
      BY <1>31 DEF SpcRunUntil, SpcDrive, FlagsType
    <2>4. hooks' \in HooksType
      BY <1>31 DEF SpcRunUntil, SpcDrive, HooksType, HookInv, UserExec, UserSmp, HostIdle
    <2>5. sched' \in SchedType
      BY <1>31, EnterTyped DEF SpcRunUntil, SpcDrive, Threads
    <2>. QED
      BY <1>31, <2>1, <2>2, <2>3, <2>4, <2>5 DEF SpcRunUntil, SpcDrive
  <1>32. CASE SaveState
    <2>1. call' \in CallType
      BY <1>32, IdleTyped DEF SaveState, CallType, Ops
    <2>2. sched' \in SchedType
      BY <1>32, EnterTyped DEF SaveState, Threads
    <2>. QED
      BY <1>32, <2>1, <2>2 DEF SaveState
  <1>33. ASSUME NEW pc \in PCs, NEW spc \in PCs, NEW stp \in BOOLEAN, Reboot(pc, spc, stp) PROVE Typed'
    <2>1. cpu' \in CpuType
      BY <1>33 DEF Reboot, Fresh, CpuType, Positions
    <2>2. smp' \in SmpType
      BY <1>33 DEF Reboot, SmpType, Positions
    <2>3. ppu' \in PpuType
      BY <1>33 DEF Reboot, PpuType
    <2>4. sched' \in SchedType
      BY <1>33 DEF Reboot, SchedType, Threads
    <2>. QED
      BY <1>33, <2>1, <2>2, <2>3, <2>4 DEF Reboot
  <1>34. ASSUME NEW pc \in PCs, RearmCpu(pc) PROVE Typed'
    <2>1. cpu' \in CpuType
      BY <1>34 DEF RearmCpu, Fresh, CpuType, Positions
    <2>. QED
      BY <1>34, <2>1 DEF RearmCpu
  <1>35. ASSUME NEW p \in CpuPoints, AddCallback(p) PROVE Typed'
    <2>1. points' \in PointsType
      BY <1>35 DEF AddCallback, PointsType
    <2>2. hooks' \in HooksType
      BY <1>35 DEF AddCallback, HooksType, HostIdle
    <2>. QED
      BY <1>35, <2>1, <2>2 DEF AddCallback
  <1>36. ASSUME NEW p \in CpuPoints, RemoveCallback(p) PROVE Typed'
    <2>1. points' \in PointsType
      BY <1>36 DEF RemoveCallback, PointsType
    <2>2. hooks' \in HooksType
      BY <1>36 DEF RemoveCallback, HooksType, HostIdle
    <2>. QED
      BY <1>36, <2>1, <2>2 DEF RemoveCallback
  <1>37. ASSUME NEW p \in SmpPoints, SpcAddCallback(p) PROVE Typed'
    <2>1. points' \in PointsType
      BY <1>37 DEF SpcAddCallback, PointsType
    <2>2. hooks' \in HooksType
      BY <1>37 DEF SpcAddCallback, HooksType, HostIdle
    <2>. QED
      BY <1>37, <2>1, <2>2 DEF SpcAddCallback
  <1>38. ASSUME NEW p \in SmpPoints, SpcRemoveCallback(p) PROVE Typed'
    <2>1. points' \in PointsType
      BY <1>38 DEF SpcRemoveCallback, PointsType
    <2>2. hooks' \in HooksType
      BY <1>38 DEF SpcRemoveCallback, HooksType, HostIdle
    <2>. QED
      BY <1>38, <2>1, <2>2 DEF SpcRemoveCallback
  <1>39. CASE UNCHANGED vars
    BY <1>39 DEF vars
  <1>. QED
    BY <1>1, <1>2, <1>3, <1>4, <1>5, <1>6, <1>7, <1>8, <1>9, <1>10, <1>11, <1>12, <1>13,
        <1>14, <1>15, <1>16, <1>17, <1>18, <1>19, <1>20, <1>21, <1>22, <1>23, <1>24,
        <1>25, <1>26, <1>27, <1>28, <1>29, <1>30, <1>31, <1>32, <1>33, <1>34, <1>35,
        <1>36, <1>37, <1>38, <1>39 DEF Next, Machine, CpuSteps, SmpSteps, HostLoop,
        HostCall

-----------------------------------------------------------------------------
(* The hook and the bail check in front of an instruction *)

\* What the hook decides: who asks for a bail, and who for a halt.
LEMMA ExecHookDecides ==
    ASSUME Typed
    PROVE /\ (ExecHook.bail <=> flags.bail \/ HitsBreakpoint \/ ReachesTarget \/ StepEnds)
          /\ (ExecHook.halt <=> flags.halt \/ HitsBreakpoint)
  BY DEF ExecHook, Strike, Typed, FlagsType

\* What the hook notes in the call.
LEMMA ExecHookNotes ==
    ASSUME Typed
    PROVE /\ ExecHookCall \in CallType
          /\ ExecHookCall.op = call.op /\ ExecHookCall.target = call.target
          /\ ExecHookCall.cpuRan = call.cpuRan
          /\ ExecHookCall.stepFromHalt = call.stepFromHalt
          /\ ExecHookCall.wasHeld = call.wasHeld
          /\ (ExecHookCall.struck <=> call.struck \/ HitsBreakpoint)
          /\ (ExecHookCall.hit <=> call.hit \/ ReachesTarget)
          /\ (ExecHookCall.stepHit <=> call.stepHit \/ (hooks.exec = "step" /\ ~call.stepFromHalt))
  BY DEF ExecHookCall, Typed, CallType, HitsBreakpoint, UserHears, ReachesTarget

\* A bail holds the CPU in front of its instruction and leaves the scheduler.
LEMMA DispatchHolds ==
    ASSUME Typed, CpuDispatch, ExecHook.bail
    PROVE /\ cpu'.at = "held" /\ cpu'.pc = cpu.pc
          /\ sched'.active = "host" /\ sched'.resume = "cpu"
          /\ sched'.event = "frame" /\ sched'.mode = sched.mode
          /\ call' = ExecHookCall
          /\ (flags'.halt <=> ExecHook.halt) /\ ~flags'.bail
  BY DEF CpuDispatch, Exit, ExecHook, Strike, Typed, CpuType, SchedType, FlagsType

\* Without a bail the CPU goes into its instruction.
LEMMA DispatchRuns ==
    ASSUME Typed, CpuDispatch, ~ExecHook.bail
    PROVE /\ cpu'.at = "mid" /\ cpu'.pc = cpu.pc
          /\ sched'.active = "cpu" /\ sched'.resume = sched.resume
          /\ sched'.event = sched.event /\ sched'.mode = sched.mode
          /\ call' = CpuRan(ExecHookCall)
          /\ (flags'.halt <=> ExecHook.halt) /\ ~flags'.bail
  BY DEF CpuDispatch, Runs, ExecHook, Strike, Typed, CpuType, SchedType, FlagsType

\* CpuRan counts an instruction of a step, or one after a breakpoint, and changes
\* nothing else.
LEMMA CpuRanCounts ==
    ASSUME NEW c \in CallType
    PROVE /\ CpuRan(c).op = c.op /\ CpuRan(c).target = c.target /\ CpuRan(c).hit = c.hit
          /\ CpuRan(c).struck = c.struck /\ CpuRan(c).stepHit = c.stepHit
          /\ CpuRan(c).stepFromHalt = c.stepFromHalt /\ CpuRan(c).wasHeld = c.wasHeld
          /\ ~(c.op = "step" \/ c.struck) => CpuRan(c).cpuRan = c.cpuRan
          /\ (c.op = "step" \/ c.struck) /\ c.cpuRan = 0 => CpuRan(c).cpuRan = 1
  BY DEF CpuRan, CallType

-----------------------------------------------------------------------------
(* Borrowed hooks *)

\* The dispatcher the CPU's callbacks call for, after one is added or removed.
LEMMA UserExecFollows ==
    ASSUME NEW p
    PROVE /\ points'.cpu = points.cpu \cup {p} /\ p \in PCs => UserExec' = "user"
          /\ points'.cpu = points.cpu \cup {p} /\ p \notin PCs => UserExec' = UserExec
          /\ points'.cpu = points.cpu \ {p} /\ p \notin PCs => UserExec' = UserExec
          /\ points'.cpu = points.cpu => UserExec' = UserExec
  <1>1. p \notin PCs => /\ (points.cpu \cup {p}) \cap PCs = points.cpu \cap PCs
                        /\ (points.cpu \ {p}) \cap PCs = points.cpu \cap PCs
    OBVIOUS
  <1>. QED
    BY <1>1 DEF UserExec, ExecPoints

\* The same for the audio CPU.
LEMMA UserSmpFollows ==
    ASSUME NEW p
    PROVE /\ points'.smp = points.smp \cup {p} /\ p \in PCs => UserSmp' = "user"
          /\ points'.smp = points.smp \cup {p} /\ p \notin PCs => UserSmp' = UserSmp
          /\ points'.smp = points.smp \ {p} /\ p \notin PCs => UserSmp' = UserSmp
          /\ points'.smp = points.smp => UserSmp' = UserSmp
  <1>1. p \notin PCs => /\ (points.smp \cup {p}) \cap PCs = points.smp \cap PCs
                        /\ (points.smp \ {p}) \cap PCs = points.smp \cap PCs
    OBVIOUS
  <1>. QED
    BY <1>1 DEF UserSmp, ExecPoints

\* The machine touches neither hooks nor callbacks, nor what a call was asked.
LEMMA MachineFrame ==
    ASSUME Typed, Machine
    PROVE /\ hooks' = hooks /\ points' = points
          /\ call'.op = call.op /\ call'.target = call.target
          /\ call'.stepFromHalt = call.stepFromHalt /\ call'.wasHeld = call.wasHeld
  <1>. USE DEF Typed, CallType
  <1>1. CASE CpuSteps
    <2>1. CASE CpuDispatch
      BY <2>1, ExecHookNotes, CpuRanCounts DEF CpuDispatch
    <2>2. CASE CpuSteps /\ ~CpuDispatch
      BY <2>2, CpuRanCounts DEF CpuSteps, CpuSynchronize, CpuResume, CpuUnhooked, CpuFinish, CpuStop,
           CpuWake, CpuWait
    <2>. QED
      BY <1>1, <2>1, <2>2
  <1>2. CASE SmpSteps
    BY <1>2 DEF SmpSteps, SmpSynchronize, SmpDispatch, SmpResume, SmpAsleep, SmpSleep,
         SmpFinish, SmpRan
  <1>3. CASE PpuFrame \/ PpuSynchronize
    BY <1>3 DEF PpuFrame, PpuSynchronize
  <1>. QED
    BY <1>1, <1>2, <1>3 DEF Machine

\* Adding and removing a callback keeps the dispatcher in step with the callbacks.
LEMMA HookPoints ==
    ASSUME Typed, HookInv, NEW p, AddCallback(p) \/ RemoveCallback(p)
    PROVE HookInv'
  <1>1. /\ call' = call /\ call.op = "idle" /\ hooks'.smp = hooks.smp /\ points'.smp = points.smp
    BY DEF AddCallback, RemoveCallback, HostIdle, Typed, HooksType, PointsType
  <1>2. hooks'.exec = UserExec'
    <2>1. CASE AddCallback(p)
      <3>1. /\ points'.cpu = points.cpu \cup {p}
            /\ hooks'.exec = IF p \in PCs THEN "user" ELSE hooks.exec
        BY <2>1 DEF AddCallback, Typed, HooksType, PointsType
      <3>2. hooks.exec = UserExec
        BY <1>1 DEF HookInv
      <3>. QED
        BY <3>1, <3>2, UserExecFollows
    <2>2. CASE RemoveCallback(p)
      <3>1. points'.cpu = points.cpu \ {p}
        BY <2>2 DEF RemoveCallback, Typed, PointsType
      <3>2. hooks.exec = UserExec
        BY <1>1 DEF HookInv
      <3>3. CASE p \notin PCs
        BY <2>2, <3>1, <3>2, <3>3, UserExecFollows DEF RemoveCallback, Typed, HooksType
      <3>4. CASE p \in PCs
        BY <2>2, <3>1, <3>2, <3>4 DEF RemoveCallback, Typed, HooksType, UserExec, ExecPoints
      <3>. QED
        BY <3>3, <3>4
    <2>. QED
      BY <2>1, <2>2
  <1>. QED
    BY <1>1, <1>2, UserSmpFollows DEF HookInv

\* The same for the audio CPU.
LEMMA HookSpcPoints ==
    ASSUME Typed, HookInv, NEW p, SpcAddCallback(p) \/ SpcRemoveCallback(p)
    PROVE HookInv'
  <1>1. /\ call' = call /\ call.op = "idle" /\ hooks'.exec = hooks.exec /\ points'.cpu = points.cpu
    BY DEF SpcAddCallback, SpcRemoveCallback, HostIdle, Typed, HooksType, PointsType
  <1>2. hooks'.smp = UserSmp'
    <2>1. CASE SpcAddCallback(p)
      <3>1. /\ points'.smp = points.smp \cup {p}
            /\ hooks'.smp = IF p \in PCs THEN "user" ELSE hooks.smp
        BY <2>1 DEF SpcAddCallback, Typed, HooksType, PointsType
      <3>2. hooks.smp = UserSmp
        BY <1>1 DEF HookInv
      <3>. QED
        BY <3>1, <3>2, UserSmpFollows
    <2>2. CASE SpcRemoveCallback(p)
      <3>1. points'.smp = points.smp \ {p}
        BY <2>2 DEF SpcRemoveCallback, Typed, PointsType
      <3>2. hooks.smp = UserSmp
        BY <1>1 DEF HookInv
      <3>3. CASE p \notin PCs
        BY <2>2, <3>1, <3>2, <3>3, UserSmpFollows DEF SpcRemoveCallback, Typed, HooksType
      <3>4. CASE p \in PCs
        BY <2>2, <3>1, <3>2, <3>4 DEF SpcRemoveCallback, Typed, HooksType, UserSmp, ExecPoints
      <3>. QED
        BY <3>3, <3>4
    <2>. QED
      BY <2>1, <2>2
  <1>. QED
    BY <1>1, <1>2, UserExecFollows DEF HookInv

\* Every step preserves HookInv.
LEMMA HookStep ==
    ASSUME Typed, HookInv, [Next]_vars
    PROVE HookInv'
  <1>. USE DEF HookInv
  <1>1. CASE Machine
    BY <1>1, MachineFrame DEF UserExec, UserSmp
  <1>2. CASE HostLoop
    <2>. USE DEF Typed, CallType, HooksType
    <2>6. points' = points
      BY <1>2 DEF HostLoop, RunFramesLoops, RunFramesReturns, StepReturns, RunUntilLoops,
           RunUntilReturns, SpcLoops, SpcReturns, SaveStateLoops, SaveStateNextThread,
           SaveStateReturns, EnterAgain
    <2>0. UserExec' = UserExec /\ UserSmp' = UserSmp
      BY <2>6 DEF UserExec, UserSmp, ExecPoints
    <2>1. CASE StepReturns
      BY <2>0, <2>1 DEF StepReturns, InCall, RestoreExecHook, Idle
    <2>5. CASE RunUntilReturns
      BY <2>0, <2>5 DEF RunUntilReturns, InCall, RestoreExecHook, Idle
    <2>2. CASE SpcReturns
      BY <2>0, <2>2 DEF SpcReturns, InSpcCall, InCall, Idle
    <2>3. CASE RunFramesReturns \/ SaveStateReturns
      BY <2>0, <2>3 DEF RunFramesReturns, SaveStateReturns, InCall, Idle
    <2>4. CASE RunFramesLoops \/ RunUntilLoops \/ SpcLoops \/ SaveStateLoops \/ SaveStateNextThread
      BY <2>0, <2>4 DEF RunFramesLoops, RunUntilLoops, SpcLoops, SaveStateLoops,
           SaveStateNextThread, EnterAgain
    <2>. QED
      BY <1>2, <2>1, <2>2, <2>3, <2>4, <2>5 DEF HostLoop
  <1>3. CASE HostCall
    <2>1. ASSUME NEW p, AddCallback(p) \/ RemoveCallback(p) PROVE HookInv'
      BY <2>1, HookPoints
    <2>2. ASSUME NEW p, SpcAddCallback(p) \/ SpcRemoveCallback(p) PROVE HookInv'
      BY <2>2, HookSpcPoints
    <2>3. ASSUME NEW n, RunFrames(n) PROVE HookInv'
      BY <2>3 DEF RunFrames, HostIdle, Idle, UserExec, UserSmp
    <2>4. CASE Step
      BY <2>4 DEF Step, HostIdle, Idle, UserExec, UserSmp, Typed, HooksType
    <2>5. ASSUME NEW target, NEW n, RunUntil(target, n) PROVE HookInv'
      BY <2>5 DEF RunUntil, HostIdle, Idle, UserExec, UserSmp, Typed, HooksType
    <2>6. ASSUME NEW target, SpcStep \/ SpcRunUntil(target) PROVE HookInv'
      BY <2>6 DEF SpcStep, SpcRunUntil, SpcDrive, HostIdle, Idle, UserExec, UserSmp, Typed, HooksType
    <2>7. CASE SaveState
      BY <2>7 DEF SaveState, HostIdle, Idle, UserExec, UserSmp
    <2>8. ASSUME NEW pc, NEW spc, NEW stp, Reboot(pc, spc, stp) \/ RearmCpu(pc) PROVE HookInv'
      BY <2>8 DEF Reboot, RearmCpu, UserExec, UserSmp
    <2>. QED
      BY <1>3, <2>1, <2>2, <2>3, <2>4, <2>5, <2>6, <2>7, <2>8 DEF HostCall
  <1>4. CASE UNCHANGED vars
    BY <1>4 DEF vars, UserExec, UserSmp
  <1>. QED
    BY <1>1, <1>2, <1>3, <1>4 DEF Next

-----------------------------------------------------------------------------
(* Held coroutines *)

\* save_state leaves a coroutine behind only at its safe point.
LEMMA HeldNextThread ==
    ASSUME Typed, HeldInv, SaveInv, SaveStateNextThread
    PROVE HeldInv'
  <1>1. cpu.at = "synced" /\ smp.at # "held"
    BY DEF SaveStateNextThread, InCall, SaveInv, HeldInv, Typed, SchedType, Threads
  <1>. QED
    BY <1>1 DEF HeldInv, HostIdle, SaveStateNextThread, InCall

\* Every step preserves HeldInv: what is held is left at once, and nothing else is
\* entered before it.
LEMMA HeldStep ==
    ASSUME Typed, HeldInv, SaveInv, [Next]_vars
    PROVE HeldInv'
  <1>1. CASE SaveStateNextThread
    BY <1>1, HeldNextThread
  <1>. USE DEF HeldInv, HostIdle, Typed, CpuType, SmpType, SchedType, CallType
  <1>2. CASE CpuSynchronize
    BY <1>2 DEF CpuSynchronize, Exit, CanRun, SafePoint, At
  <1>3. CASE CpuDispatch
    BY <1>3 DEF CpuDispatch, CpuInMain, CanRun, SafePoint, At, ExecHook, ExecHookCall,
       Strike, Exit, Runs, CpuRan, HitsBreakpoint, UserHears, ReachesTarget, StepEnds
  <1>4. CASE CpuResume
    BY <1>4 DEF CpuResume, CpuRan
  <1>5. CASE CpuUnhooked
    BY <1>5 DEF CpuUnhooked, CpuInMain, CanRun, SafePoint, At, Runs
  <1>6. ASSUME NEW pc \in PCs, NEW touched \in BOOLEAN, CpuFinish(pc, touched)
       PROVE HeldInv'
    BY <1>6 DEF CpuFinish, MidCpu, CanRun, At, CpuTicks, Strike, Runs
  <1>7. CASE CpuStop
    BY <1>7 DEF CpuStop, MidCpu, CanRun, At, CpuTicks, Runs
  <1>8. CASE CpuWake
    BY <1>8 DEF CpuWake, MidCpu, CanRun, At, CpuTicks, Runs
  <1>9. ASSUME NEW masked \in BOOLEAN, CpuWait(masked) PROVE HeldInv'
    BY <1>9 DEF CpuWait, MidCpu, CanRun, At, CpuTicks, Runs
  <1>10. CASE SmpSynchronize
    BY <1>10 DEF SmpSynchronize, Exit, CanRun, SafePoint, At
  <1>11. CASE SmpDispatch
    BY <1>11 DEF SmpDispatch, SmpInMain, CanRun, SafePoint, At, SmpExecHook, SpcStrike,
       SpcReachesTarget, SpcStepEnds, Exit, Runs
  <1>12. CASE SmpResume
    BY <1>12 DEF SmpResume
  <1>13. CASE SmpAsleep
    BY <1>13 DEF SmpAsleep, SmpInMain, CanRun, SafePoint, At, Runs
  <1>14. CASE SmpSleep
    BY <1>14 DEF SmpSleep, MidSmp, CanRun, At, SmpTicks, Runs
  <1>15. ASSUME NEW pc \in PCs, NEW touched \in BOOLEAN, SmpFinish(pc, touched)
       PROVE HeldInv'
    BY <1>15 DEF SmpFinish, MidSmp, CanRun, At, SmpTicks, SpcStrike, SmpRan, Runs
  <1>16. CASE PpuFrame
    BY <1>16 DEF PpuFrame, CanRun, At, Exit
  <1>17. CASE PpuSynchronize
    BY <1>17 DEF PpuSynchronize, Exit
  <1>18. CASE RunFramesLoops
    BY <1>18 DEF RunFramesLoops, InCall, RunFramesStops, EnterAgain, Enter
  <1>19. CASE RunFramesReturns
    BY <1>19 DEF RunFramesReturns, InCall, RunFramesStops, Idle
  <1>20. CASE StepReturns
    BY <1>20 DEF StepReturns, InCall, Idle, RestoreExecHook
  <1>21. CASE RunUntilLoops
    BY <1>21 DEF RunUntilLoops, InCall, RunUntilEnds, EnterAgain, Enter
  <1>22. CASE RunUntilReturns
    BY <1>22 DEF RunUntilReturns, InCall, RunUntilEnds, Idle, RestoreExecHook
  <1>23. CASE SpcLoops
    BY <1>23 DEF SpcLoops, InSpcCall, InCall, EnterAgain, Enter
  <1>24. CASE SpcReturns
    BY <1>24 DEF SpcReturns, InSpcCall, InCall, Idle
  <1>25. CASE SaveStateLoops
    BY <1>25 DEF SaveStateLoops, InCall, Synchronized, Enter
  <1>26. CASE SaveStateReturns
    BY <1>26 DEF SaveStateReturns, InCall, Synchronized, Idle
  <1>27. ASSUME NEW n \in FrameRange, RunFrames(n) PROVE HeldInv'
    BY <1>27 DEF RunFrames, HostIdle, FrameRange, Idle, Enter
  <1>28. CASE Step
    BY <1>28 DEF Step, HostIdle, Idle, Enter
  <1>29. ASSUME NEW target \in PCs, NEW n \in FrameRange, RunUntil(target, n)
       PROVE HeldInv'
    BY <1>29 DEF RunUntil, HostIdle, FrameRange, Idle, Enter
  <1>30. CASE SpcStep
    BY <1>30 DEF SpcStep, SpcDrive, HostIdle, Idle, Enter
  <1>31. ASSUME NEW target \in PCs, SpcRunUntil(target) PROVE HeldInv'
    BY <1>31 DEF SpcRunUntil, SpcDrive, HostIdle, Idle, Enter
  <1>32. CASE SaveState
    BY <1>32 DEF SaveState, HostIdle, Idle, Enter
  <1>33. ASSUME NEW pc \in PCs, NEW spc \in PCs, NEW stp \in BOOLEAN, Reboot(pc, spc, stp)
       PROVE HeldInv'
    BY <1>33 DEF Reboot, HostIdle, Fresh
  <1>34. ASSUME NEW pc \in PCs, RearmCpu(pc) PROVE HeldInv'
    BY <1>34 DEF RearmCpu, HostIdle, Fresh
  <1>35. ASSUME NEW p \in CpuPoints, AddCallback(p) PROVE HeldInv'
    BY <1>35 DEF AddCallback, HostIdle
  <1>36. ASSUME NEW p \in CpuPoints, RemoveCallback(p) PROVE HeldInv'
    BY <1>36 DEF RemoveCallback, HostIdle
  <1>37. ASSUME NEW p \in SmpPoints, SpcAddCallback(p) PROVE HeldInv'
    BY <1>37 DEF SpcAddCallback, HostIdle
  <1>38. ASSUME NEW p \in SmpPoints, SpcRemoveCallback(p) PROVE HeldInv'
    BY <1>38 DEF SpcRemoveCallback, HostIdle
  <1>39. CASE UNCHANGED vars
    BY <1>39 DEF vars
  <1>. QED
    BY <1>1, <1>2, <1>3, <1>4, <1>5, <1>6, <1>7, <1>8, <1>9, <1>10, <1>11, <1>12, <1>13,
       <1>14, <1>15, <1>16, <1>17, <1>18, <1>19, <1>20, <1>21, <1>22, <1>23, <1>24,
       <1>25, <1>26, <1>27, <1>28, <1>29, <1>30, <1>31, <1>32, <1>33, <1>34, <1>35,
       <1>36, <1>37, <1>38, <1>39 DEF Next, Machine, CpuSteps, SmpSteps, HostLoop,
       HostCall

-----------------------------------------------------------------------------
(* Saving a state *)

\* The CPU is in front of an instruction while the state is saved only past its
\* safe point.
LEMMA SaveDispatch ==
    ASSUME Typed, HeldInv, SaveInv, CpuDispatch
    PROVE SaveInv'
  <1>1. /\ cpu.at \in {"top", "synced"}
        /\ CanRun("cpu") /\ smp' = smp /\ ppu' = ppu
        /\ sched.mode = "primary" => cpu.at # "top"
    BY DEF CpuDispatch, CpuInMain, SafePoint, At, Typed, SchedType
  <1>2. CASE ExecHook.bail
    BY <1>1, <1>2, DispatchHolds, ExecHookDecides, ExecHookNotes DEF SaveInv, Synchronized, CanRun
  <1>3. CASE ~ExecHook.bail
    BY <1>1, <1>3, DispatchRuns, ExecHookDecides, ExecHookNotes, CpuRanCounts
       DEF SaveInv, Synchronized, CanRun
  <1>. QED
    BY <1>2, <1>3

\* Every step preserves SaveInv.
LEMMA SaveStep ==
    ASSUME Typed, HeldInv, SaveInv, [Next]_vars
    PROVE SaveInv'
  <1>1. CASE CpuDispatch
    BY <1>1, SaveDispatch
  <1>. USE DEF SaveInv, HeldInv, HostIdle, Synchronized, Threads, Typed, CpuType, SmpType, SchedType,
           CallType
  <1>2. CASE CpuSynchronize
    BY <1>2 DEF CpuSynchronize, Exit, CanRun, SafePoint, At
  <1>3. CASE CpuResume
    BY <1>3 DEF CpuResume, CpuRan
  <1>4. CASE CpuUnhooked
    BY <1>4 DEF CpuUnhooked, CpuInMain, CanRun, SafePoint, At, Runs
  <1>5. ASSUME NEW pc \in PCs, NEW touched \in BOOLEAN, CpuFinish(pc, touched)
       PROVE SaveInv'
    BY <1>5 DEF CpuFinish, MidCpu, CanRun, At, CpuTicks, Strike, Runs
  <1>6. CASE CpuStop
    BY <1>6 DEF CpuStop, MidCpu, CanRun, At, CpuTicks, Runs
  <1>7. CASE CpuWake
    BY <1>7 DEF CpuWake, MidCpu, CanRun, At, CpuTicks, Runs
  <1>8. ASSUME NEW masked \in BOOLEAN, CpuWait(masked) PROVE SaveInv'
    BY <1>8 DEF CpuWait, MidCpu, CanRun, At, CpuTicks, Runs
  <1>9. CASE SmpSynchronize
    BY <1>9 DEF SmpSynchronize, Exit, CanRun, SafePoint, At
  <1>10. CASE SmpDispatch
    BY <1>10 DEF SmpDispatch, SmpInMain, CanRun, SafePoint, At, SmpExecHook, SpcStrike,
       SpcReachesTarget, SpcStepEnds, Exit, Runs
  <1>11. CASE SmpResume
    BY <1>11 DEF SmpResume
  <1>12. CASE SmpAsleep
    BY <1>12 DEF SmpAsleep, SmpInMain, CanRun, SafePoint, At, Runs
  <1>13. CASE SmpSleep
    BY <1>13 DEF SmpSleep, MidSmp, CanRun, At, SmpTicks, Runs
  <1>14. ASSUME NEW pc \in PCs, NEW touched \in BOOLEAN, SmpFinish(pc, touched)
       PROVE SaveInv'
    BY <1>14 DEF SmpFinish, MidSmp, CanRun, At, SmpTicks, SpcStrike, SmpRan, Runs
  <1>15. CASE PpuFrame
    BY <1>15 DEF PpuFrame, CanRun, At, Exit
  <1>16. CASE PpuSynchronize
    BY <1>16 DEF PpuSynchronize, Exit
  <1>17. CASE RunFramesLoops
    BY <1>17 DEF RunFramesLoops, InCall, RunFramesStops, EnterAgain, Enter
  <1>18. CASE RunFramesReturns
    BY <1>18 DEF RunFramesReturns, InCall, RunFramesStops, Idle
  <1>19. CASE StepReturns
    BY <1>19 DEF StepReturns, InCall, Idle, RestoreExecHook
  <1>20. CASE RunUntilLoops
    BY <1>20 DEF RunUntilLoops, InCall, RunUntilEnds, EnterAgain, Enter
  <1>21. CASE RunUntilReturns
    BY <1>21 DEF RunUntilReturns, InCall, RunUntilEnds, Idle, RestoreExecHook
  <1>22. CASE SpcLoops
    BY <1>22 DEF SpcLoops, InSpcCall, InCall, EnterAgain, Enter
  <1>23. CASE SpcReturns
    BY <1>23 DEF SpcReturns, InSpcCall, InCall, Idle
  <1>24. CASE SaveStateLoops
    BY <1>24 DEF SaveStateLoops, InCall, Synchronized, Enter
  <1>25. CASE SaveStateNextThread
    BY <1>25 DEF SaveStateNextThread, InCall, Synchronized, NextThread
  <1>26. CASE SaveStateReturns
    BY <1>26 DEF SaveStateReturns, InCall, Synchronized, Idle
  <1>27. ASSUME NEW n \in FrameRange, RunFrames(n) PROVE SaveInv'
    BY <1>27 DEF RunFrames, HostIdle, FrameRange, Idle, Enter
  <1>28. CASE Step
    BY <1>28 DEF Step, HostIdle, Idle, Enter
  <1>29. ASSUME NEW target \in PCs, NEW n \in FrameRange, RunUntil(target, n)
       PROVE SaveInv'
    BY <1>29 DEF RunUntil, HostIdle, FrameRange, Idle, Enter
  <1>30. CASE SpcStep
    BY <1>30 DEF SpcStep, SpcDrive, HostIdle, Idle, Enter
  <1>31. ASSUME NEW target \in PCs, SpcRunUntil(target) PROVE SaveInv'
    BY <1>31 DEF SpcRunUntil, SpcDrive, HostIdle, Idle, Enter
  <1>32. CASE SaveState
    BY <1>32 DEF SaveState, HostIdle, Idle, Enter
  <1>33. ASSUME NEW pc \in PCs, NEW spc \in PCs, NEW stp \in BOOLEAN, Reboot(pc, spc, stp)
       PROVE SaveInv'
    BY <1>33 DEF Reboot, HostIdle, Fresh
  <1>34. ASSUME NEW pc \in PCs, RearmCpu(pc) PROVE SaveInv'
    BY <1>34 DEF RearmCpu, HostIdle, Fresh
  <1>35. ASSUME NEW p \in CpuPoints, AddCallback(p) PROVE SaveInv'
    BY <1>35 DEF AddCallback, HostIdle
  <1>36. ASSUME NEW p \in CpuPoints, RemoveCallback(p) PROVE SaveInv'
    BY <1>36 DEF RemoveCallback, HostIdle
  <1>37. ASSUME NEW p \in SmpPoints, SpcAddCallback(p) PROVE SaveInv'
    BY <1>37 DEF SpcAddCallback, HostIdle
  <1>38. ASSUME NEW p \in SmpPoints, SpcRemoveCallback(p) PROVE SaveInv'
    BY <1>38 DEF SpcRemoveCallback, HostIdle
  <1>39. CASE UNCHANGED vars
    BY <1>39 DEF vars
  <1>. QED
    BY <1>1, <1>2, <1>3, <1>4, <1>5, <1>6, <1>7, <1>8, <1>9, <1>10, <1>11, <1>12, <1>13,
       <1>14, <1>15, <1>16, <1>17, <1>18, <1>19, <1>20, <1>21, <1>22, <1>23, <1>24,
       <1>25, <1>26, <1>27, <1>28, <1>29, <1>30, <1>31, <1>32, <1>33, <1>34, <1>35,
       <1>36, <1>37, <1>38, <1>39 DEF Next, Machine, CpuSteps, SmpSteps, HostLoop,
       HostCall

-----------------------------------------------------------------------------
(* A breakpoint in run_frames, the target of run_until, a step *)

\* How the calls start that the three invariants are about.
LEMMA HostCallStarts ==
    ASSUME HostCall
    PROVE /\ call.op = "idle"
          /\ call'.op = "run_frames" => call'.cpuRan = 0 /\ ~call'.struck
          /\ call'.op = "run_until" => ~call'.hit
          /\ call'.op = "step" => Step
  <1>. USE DEF HostIdle, Idle
  <1>1. ASSUME NEW n, RunFrames(n)
        PROVE call.op = "idle" /\ call'.op = "run_frames" /\ call'.cpuRan = 0 /\ ~call'.struck
    BY <1>1 DEF RunFrames
  <1>2. ASSUME NEW target, NEW n, RunUntil(target, n)
        PROVE call.op = "idle" /\ call'.op = "run_until" /\ ~call'.hit
    BY <1>2 DEF RunUntil
  <1>3. CASE Step
    BY <1>3 DEF Step
  <1>4. ASSUME NEW target, SpcStep \/ SpcRunUntil(target) \/ SaveState
        PROVE call.op = "idle" /\ call'.op \in {"spc_step", "spc_run_until", "save_state"}
    BY <1>4 DEF SpcStep, SpcRunUntil, SpcDrive, SaveState
  <1>5. ASSUME NEW pc, NEW spc, NEW stp, Reboot(pc, spc, stp) \/ RearmCpu(pc)
        PROVE call.op = "idle" /\ call' = call
    BY <1>5 DEF Reboot, RearmCpu
  <1>6. ASSUME NEW p, AddCallback(p) \/ RemoveCallback(p) \/ SpcAddCallback(p) \/ SpcRemoveCallback(p)
        PROVE call.op = "idle" /\ call' = call
    BY <1>6 DEF AddCallback, RemoveCallback, SpcAddCallback, SpcRemoveCallback
  <1>. HIDE DEF HostIdle, Idle
  <1>. QED
    BY <1>1, <1>2, <1>3, <1>4, <1>5, <1>6 DEF HostCall

\* The bail a breakpoint asked for is taken in front of the next instruction.
LEMMA BreakDispatch ==
    ASSUME Typed, HookInv, HeldInv, SaveInv, BreakInv, CpuDispatch
    PROVE BreakInv'
  <1>1. cpu.at # "held"
    BY DEF CpuDispatch, CpuInMain
  <1>2. CASE ExecHook.bail
    BY <1>2, DispatchHolds, ExecHookDecides, ExecHookNotes DEF BreakInv
  <1>3. CASE ~ExecHook.bail
    BY <1>1, <1>3, DispatchRuns, ExecHookDecides, ExecHookNotes, CpuRanCounts DEF BreakInv
  <1>. QED
    BY <1>2, <1>3

\* Every step preserves BreakInv.
LEMMA BreakStep ==
    ASSUME Typed, HookInv, HeldInv, SaveInv, BreakInv, [Next]_vars
    PROVE BreakInv'
  <1>1. CASE CpuDispatch
    BY <1>1, BreakDispatch
  <1>. USE DEF HookInv, UserExec, HeldInv, SaveInv, BreakInv, HostIdle, Typed, CpuType, SchedType,
           FlagsType, CallType
  <1>2. CASE CpuSynchronize
    BY <1>2 DEF CpuSynchronize, Exit, CanRun, SafePoint, At
  <1>3. CASE CpuResume
    BY <1>3 DEF CpuResume, CpuRan
  <1>4. CASE CpuUnhooked
    BY <1>4 DEF CpuUnhooked, CpuInMain, CanRun, SafePoint, At, Runs
  <1>5. ASSUME NEW pc \in PCs, NEW touched \in BOOLEAN, CpuFinish(pc, touched)
       PROVE BreakInv'
    BY <1>5 DEF CpuFinish, MidCpu, CanRun, At, CpuTicks, Strike, Runs
  <1>6. CASE CpuStop
    BY <1>6 DEF CpuStop, MidCpu, CanRun, At, CpuTicks, Runs
  <1>7. CASE CpuWake
    BY <1>7 DEF CpuWake, MidCpu, CanRun, At, CpuTicks, Runs
  <1>8. ASSUME NEW masked \in BOOLEAN, CpuWait(masked) PROVE BreakInv'
    BY <1>8 DEF CpuWait, MidCpu, CanRun, At, CpuTicks, Runs
  <1>9. CASE SmpSteps
    BY <1>9 DEF SmpSteps, SmpSynchronize, Exit, CanRun, SafePoint, At, SmpDispatch,
       SmpInMain, SmpExecHook, SpcStrike, SpcReachesTarget, SpcStepEnds, Runs,
       SmpResume, SmpAsleep, SmpSleep, MidSmp, SmpTicks, SmpFinish, SmpRan
  <1>10. CASE PpuFrame \/ PpuSynchronize
    BY <1>10 DEF PpuFrame, CanRun, At, Exit, PpuSynchronize
  <1>11. CASE HostLoop
    BY <1>11 DEF HostLoop, RunFramesLoops, InCall, RunFramesStops, EnterAgain, Enter,
       RunFramesReturns, Idle, StepReturns, RestoreExecHook, RunUntilLoops,
       RunUntilEnds, RunUntilReturns, SpcLoops, InSpcCall, SpcReturns, SaveStateLoops,
       Synchronized, SaveStateNextThread, NextThread, SaveStateReturns
  <1>12. CASE HostCall
    BY <1>12, HostCallStarts
  <1>13. CASE UNCHANGED vars
    BY <1>13 DEF vars
  <1>. QED
    BY <1>1, <1>2, <1>3, <1>4, <1>5, <1>6, <1>7, <1>8, <1>9, <1>10, <1>11, <1>12, <1>13 DEF
       Next, Machine, CpuSteps, SmpSteps, HostLoop, HostCall

\* The target is reached with the CPU held in front of it.
LEMMA UntilDispatch ==
    ASSUME Typed, HookInv, HeldInv, SaveInv, UntilInv, CpuDispatch
    PROVE UntilInv'
  <1>1. cpu.at # "held"
    BY DEF CpuDispatch, CpuInMain
  <1>2. CASE ExecHook.bail
    BY <1>1, <1>2, DispatchHolds, ExecHookDecides, ExecHookNotes DEF UntilInv, ReachesTarget
  <1>3. CASE ~ExecHook.bail
    BY <1>1, <1>3, DispatchRuns, ExecHookDecides, ExecHookNotes, CpuRanCounts DEF UntilInv
  <1>. QED
    BY <1>2, <1>3

\* The hook of the audio CPU has no part in run_until.
LEMMA UntilSmpDispatch ==
    ASSUME Typed, HookInv, HeldInv, SaveInv, UntilInv, SmpDispatch
    PROVE UntilInv'
  <1>1. call.op = "run_until" => ~SpcReachesTarget
    BY DEF HookInv, UserSmp, SpcReachesTarget
  <1>2. /\ cpu' = cpu /\ call'.op = call.op /\ call'.target = call.target
        /\ call'.hit = (call.hit \/ SpcReachesTarget)
    BY DEF SmpDispatch, Typed, CallType
  <1>3. cpu.at = "held" => sched.active \notin {"host", "smp"} \/ ~CanRun("smp") \/ sched.active = "smp"
    BY DEF CanRun
  <1>. QED
    BY <1>1, <1>2, <1>3 DEF UntilInv, HeldInv, CanRun, SmpDispatch, SmpInMain

\* Every step preserves UntilInv.
LEMMA UntilStep ==
    ASSUME Typed, HookInv, HeldInv, SaveInv, UntilInv, [Next]_vars
    PROVE UntilInv'
  <1>1. CASE CpuDispatch
    BY <1>1, UntilDispatch
  <1>2. CASE SmpDispatch
    BY <1>2, UntilSmpDispatch
  <1>. USE DEF HookInv, UserExec, HeldInv, SaveInv, UntilInv, HostIdle, Typed, CpuType, SchedType,
           FlagsType, CallType
  <1>3. CASE CpuSynchronize
    BY <1>3 DEF CpuSynchronize, Exit, CanRun, SafePoint, At
  <1>4. CASE CpuResume
    BY <1>4 DEF CpuResume, CpuRan
  <1>5. CASE CpuUnhooked
    BY <1>5 DEF CpuUnhooked, CpuInMain, CanRun, SafePoint, At, Runs
  <1>6. ASSUME NEW pc \in PCs, NEW touched \in BOOLEAN, CpuFinish(pc, touched)
       PROVE UntilInv'
    BY <1>6 DEF CpuFinish, MidCpu, CanRun, At, CpuTicks, Strike, Runs
  <1>7. CASE CpuStop
    BY <1>7 DEF CpuStop, MidCpu, CanRun, At, CpuTicks, Runs
  <1>8. CASE CpuWake
    BY <1>8 DEF CpuWake, MidCpu, CanRun, At, CpuTicks, Runs
  <1>9. ASSUME NEW masked \in BOOLEAN, CpuWait(masked) PROVE UntilInv'
    BY <1>9 DEF CpuWait, MidCpu, CanRun, At, CpuTicks, Runs
  <1>10. CASE SmpSteps /\ ~SmpDispatch
    BY <1>10 DEF SmpSteps, SmpSynchronize, Exit, CanRun, SafePoint, At, SmpResume,
       SmpAsleep, SmpInMain, Runs, SmpSleep, MidSmp, SmpTicks, SmpFinish, SpcStrike,
       SmpRan
  <1>11. CASE PpuFrame \/ PpuSynchronize
    BY <1>11 DEF PpuFrame, CanRun, At, Exit, PpuSynchronize
  <1>12. CASE HostLoop
    BY <1>12 DEF HostLoop, RunFramesLoops, InCall, RunFramesStops, EnterAgain, Enter,
       RunFramesReturns, Idle, StepReturns, RestoreExecHook, RunUntilLoops,
       RunUntilEnds, RunUntilReturns, SpcLoops, InSpcCall, SpcReturns, SaveStateLoops,
       Synchronized, SaveStateNextThread, NextThread, SaveStateReturns
  <1>13. CASE HostCall
    BY <1>13, HostCallStarts
  <1>14. CASE UNCHANGED vars
    BY <1>14 DEF vars
  <1>. QED
    BY <1>1, <1>2, <1>3, <1>4, <1>5, <1>6, <1>7, <1>8, <1>9, <1>10, <1>11, <1>12, <1>13,
       <1>14 DEF Next, Machine, CpuSteps, SmpSteps, HostLoop, HostCall

\* A step begins with nothing run, in front of the held instruction if there is one.
LEMMA StepStarts ==
    ASSUME Typed, HeldInv, Step
    PROVE StepInv'
  <1>1. /\ sched'.active = sched.resume /\ cpu' = cpu
        /\ ~flags'.bail /\ ~flags'.halt
        /\ call'.cpuRan = 0 /\ ~call'.stepHit
        /\ (call'.stepFromHalt <=> flags.halt) /\ (call'.wasHeld <=> cpu.at = "held")
    BY DEF Step, Enter, Idle, Typed, SchedType, FlagsType
  <1>2. call'.stepFromHalt = call'.wasHeld => (call'.stepFromHalt <=> call'.wasHeld)
    OBVIOUS
  <1>. QED
    BY <1>1, <1>2 DEF StepInv, HeldInv

\* An instruction of the audio CPU may raise the halt flag, and no more.
LEMMA SmpDispatchFrame ==
    ASSUME Typed, SmpDispatch
    PROVE /\ cpu' = cpu /\ call'.op = call.op /\ call'.cpuRan = call.cpuRan
          /\ call'.stepFromHalt = call.stepFromHalt /\ call'.wasHeld = call.wasHeld
          /\ call'.stepHit = call.stepHit
          /\ flags'.bail = flags.bail
          /\ ~flags'.halt => ~flags.halt
  BY DEF SmpDispatch, SmpExecHook, SpcStrike, Typed, CallType, FlagsType

\* It leaves the scheduler or goes on, and the CPU where it is.
LEMMA StepSmpDispatch ==
    ASSUME Typed, HeldInv, SaveInv, StepInv, SmpDispatch
    PROVE StepInv'
  <1>1. CanRun("smp") /\ ~(sched.active = "cpu" /\ cpu.at = "held")
    BY DEF SmpDispatch, SmpInMain, CanRun, At
  <1>2. sched'.active \in {"host", "smp"}
    BY DEF SmpDispatch, Exit, Runs, Typed, SchedType
  <1>3. cpu.at = "held" => sched.active # "host"
    BY <1>1 DEF CanRun
  <1>. QED
    BY <1>1, <1>2, <1>3, SmpDispatchFrame DEF StepInv, HeldInv

\* stepHook lets one instruction through and holds the CPU in front of the next.
LEMMA StepDispatch ==
    ASSUME Typed, HookInv, HeldInv, SaveInv, StepInv, CpuDispatch
    PROVE StepInv'
  <1>1. cpu.at # "held" /\ (call.op = "step" => hooks.exec = "step")
    BY DEF CpuDispatch, CpuInMain, HookInv
  <1>2. CASE ExecHook.bail
    BY <1>1, <1>2, DispatchHolds, ExecHookDecides, ExecHookNotes DEF StepInv, StepEnds, ReachesTarget
  <1>3. CASE ~ExecHook.bail
    BY <1>1, <1>3, DispatchRuns, ExecHookDecides, ExecHookNotes, CpuRanCounts DEF StepInv, StepEnds
  <1>. QED
    BY <1>2, <1>3

\* Every step preserves StepInv.
LEMMA StepStep ==
    ASSUME Typed, HookInv, HeldInv, SaveInv, StepInv, [Next]_vars
    PROVE StepInv'
  <1>1. CASE CpuDispatch
    BY <1>1, StepDispatch
  <1>2. CASE SmpDispatch
    BY <1>2, StepSmpDispatch
  <1>. USE DEF HookInv, UserExec, HeldInv, SaveInv, StepInv, HostIdle, Typed, CpuType, SchedType,
           FlagsType, CallType
  <1>3. CASE CpuSynchronize
    BY <1>3 DEF CpuSynchronize, Exit, CanRun, SafePoint, At
  <1>4. CASE CpuResume
    BY <1>4 DEF CpuResume, CpuRan
  <1>5. CASE CpuUnhooked
    BY <1>5 DEF CpuUnhooked, CpuInMain, CanRun, SafePoint, At, Runs
  <1>6. ASSUME NEW pc \in PCs, NEW touched \in BOOLEAN, CpuFinish(pc, touched)
       PROVE StepInv'
    BY <1>6 DEF CpuFinish, MidCpu, CanRun, At, CpuTicks, Strike, Runs
  <1>7. CASE CpuStop
    BY <1>7 DEF CpuStop, MidCpu, CanRun, At, CpuTicks, Runs
  <1>8. CASE CpuWake
    BY <1>8 DEF CpuWake, MidCpu, CanRun, At, CpuTicks, Runs
  <1>9. ASSUME NEW masked \in BOOLEAN, CpuWait(masked) PROVE StepInv'
    BY <1>9 DEF CpuWait, MidCpu, CanRun, At, CpuTicks, Runs
  <1>10. CASE SmpSynchronize
    BY <1>10 DEF SmpSynchronize, Exit, CanRun, SafePoint, At
  <1>11. CASE SmpResume
    BY <1>11 DEF SmpResume
  <1>12. CASE SmpAsleep
    BY <1>12 DEF SmpAsleep, SmpInMain, CanRun, SafePoint, At, Runs
  <1>13. CASE SmpSleep
    BY <1>13 DEF SmpSleep, MidSmp, CanRun, At, SmpTicks, Runs
  <1>14. ASSUME NEW pc \in PCs, NEW touched \in BOOLEAN, SmpFinish(pc, touched)
       PROVE StepInv'
    BY <1>14 DEF SmpFinish, MidSmp, CanRun, At, SmpTicks, SpcStrike, SmpRan, Runs
  <1>15. CASE PpuFrame \/ PpuSynchronize
    BY <1>15 DEF PpuFrame, CanRun, At, Exit, PpuSynchronize
  <1>16. CASE HostLoop
    BY <1>16 DEF HostLoop, RunFramesLoops, InCall, RunFramesStops, EnterAgain, Enter,
       RunFramesReturns, Idle, StepReturns, RestoreExecHook, RunUntilLoops,
       RunUntilEnds, RunUntilReturns, SpcLoops, InSpcCall, SpcReturns, SaveStateLoops,
       Synchronized, SaveStateNextThread, NextThread, SaveStateReturns
  <1>17. CASE HostCall
    BY <1>17, HostCallStarts, StepStarts
  <1>18. CASE UNCHANGED vars
    BY <1>18 DEF vars
  <1>. QED
    BY <1>1, <1>2, <1>3, <1>4, <1>5, <1>6, <1>7, <1>8, <1>9, <1>10, <1>11, <1>12, <1>13,
       <1>14, <1>15, <1>16, <1>17, <1>18 DEF Next, Machine, CpuSteps, SmpSteps,
       HostLoop, HostCall

-----------------------------------------------------------------------------
(* Theorems *)

\* The machine starts stopped, with no callback and no call.
LEMMA InitEstablishes == Init => IInv
  <1>. SUFFICES ASSUME Init PROVE IInv
    OBVIOUS
  <1>1. TypeOK
    <2>1. cpu \in CpuType /\ smp \in SmpType
      BY DEF Init, Fresh, CpuType, SmpType, Positions
    <2>2. slice \in SliceType
      BY BoundsAssumption DEF Init, SliceType
    <2>3. points \in PointsType /\ call \in CallType
      BY IdleTyped DEF Init, PointsType
    <2>. QED
      BY <2>1, <2>2, <2>3, TypedIsTypeOK
         DEF Typed, Init, PpuType, SchedType, FlagsType, HooksType, Threads
  <1>2. HookInv
    BY DEF Init, HookInv, UserExec, UserSmp, ExecPoints, Idle
  <1>3. HeldInv /\ SaveInv
    BY DEF Init, HeldInv, SaveInv, Idle, Fresh, HostIdle
  <1>4. BreakInv /\ UntilInv /\ StepInv
    BY DEF Init, BreakInv, UntilInv, StepInv, Idle
  <1>. QED
    BY <1>1, <1>2, <1>3, <1>4 DEF IInv

\* Every step preserves the inductive invariant.
LEMMA StepPreserves == IInv /\ [Next]_vars => IInv'
  <1>. SUFFICES ASSUME IInv, [Next]_vars PROVE IInv'
    OBVIOUS
  <1>1. Typed /\ HookInv /\ HeldInv /\ SaveInv /\ BreakInv /\ UntilInv /\ StepInv
    BY TypedIsTypeOK DEF IInv
  <1>2. TypeOK'
    BY <1>1, TypedIsTypeOK, TypeStep
  <1>3. HookInv' /\ HeldInv' /\ SaveInv'
    BY <1>1, HookStep, HeldStep, SaveStep
  <1>4. BreakInv' /\ UntilInv' /\ StepInv'
    BY <1>1, BreakStep, UntilStep, StepStep
  <1>. QED
    BY <1>2, <1>3, <1>4 DEF IInv

\* The invariant the theorems about run control rest on.
THEOREM Invariant == Spec => []IInv
  <1>. QED
    BY InitEstablishes, StepPreserves, PTL DEF Spec

\* Coroutines, scheduler, flags, hooks and the call in progress keep their types.
THEOREM TypeCorrect == Spec => []TypeOK
  <1>1. IInv => TypeOK
    BY DEF IInv
  <1>. QED
    BY <1>1, Invariant, PTL

\* step, run_until and their SPC700 counterparts give back the hook they borrowed,
\* so that between calls the dispatchers are installed exactly while there are
\* callbacks for them.
THEOREM HooksRestored == Spec => []HooksServeCallbacks
  <1>1. IInv => HooksServeCallbacks
    BY DEF IInv, HookInv, UserExec, UserSmp, HostIdle, HooksServeCallbacks
  <1>. QED
    BY <1>1, Invariant, PTL

\* No coroutine ever runs in front of an instruction that a bail held back.
THEOREM HeldGoesFirst == Spec => []HeldIsResumed
  <1>1. IInv => HeldIsResumed
    BY DEF IInv, HeldInv, HeldIsResumed
  <1>. QED
    BY <1>1, Invariant, PTL

\* Once a halting breakpoint fired in run_frames, on an address or on a memory
\* range, no further instruction of the CPU starts before run_frames returns.
THEOREM BreakpointStops == Spec => []BreakpointStopsTheCpu
  <1>1. IInv => BreakpointStopsTheCpu
    BY DEF IInv, BreakInv, BreakpointStopsTheCpu
  <1>. QED
    BY <1>1, Invariant, PTL

\* A call ends by the action that returns from it and by no other.
LEMMA ReturnActions ==
    ASSUME IInv, [Next]_vars
    PROVE /\ Returns("run_until") => RunUntilReturns
          /\ Returns("step") => StepReturns
          /\ Returns("save_state") => SaveStateReturns
  <1>1. Typed
    BY TypedIsTypeOK DEF IInv
  <1>2. CASE Machine
    BY <1>1, <1>2, MachineFrame DEF Returns
  <1>3. CASE HostLoop
    BY <1>1, <1>3 DEF HostLoop, RunFramesLoops, RunFramesReturns, StepReturns, RunUntilLoops,
       RunUntilReturns, SpcLoops, SpcReturns, SaveStateLoops, SaveStateNextThread,
       SaveStateReturns, InSpcCall, InCall, Returns, Typed, CallType
  <1>4. CASE HostCall
    BY <1>4 DEF HostCall, RunFrames, Step, RunUntil, SpcStep, SpcRunUntil, SpcDrive, SaveState,
       Reboot, RearmCpu, AddCallback, RemoveCallback, SpcAddCallback, SpcRemoveCallback,
       HostIdle, Returns
  <1>5. CASE UNCHANGED vars
    BY <1>5 DEF vars, Returns
  <1>. QED
    BY <1>2, <1>3, <1>4, <1>5 DEF Next

\* run_until reports a hit only with the CPU held in front of the target.
THEOREM UntilHits == Spec => UntilHitIsAtTarget
  <1>1. IInv /\ [Next]_vars
          => [Returns("run_until") /\ call.hit => cpu.at = "held" /\ cpu.pc = call.target]_vars
    BY ReturnActions DEF IInv, UntilInv, RunUntilReturns, InCall
  <1>. QED
    BY <1>1, Invariant, PTL DEF Spec, UntilHitIsAtTarget

\* A step that knows where the CPU was suspended, and that nothing cut short, runs
\* exactly one instruction.
THEOREM StepRunsOne == Spec => StepRunsOneInstruction
  <1>1. IInv /\ [Next]_vars
          => [Returns("step") /\ call.stepFromHalt = call.wasHeld /\ ~flags.halt /\ cpu.at = "held"
                => call.cpuRan = 1]_vars
    BY ReturnActions DEF IInv, StepInv, StepReturns, InCall
  <1>. QED
    BY <1>1, Invariant, PTL DEF Spec, StepRunsOneInstruction

\* A state is saved only with the three coroutines at their safe points.
THEOREM SavesSafely == Spec => SavesAtSafePoints
  <1>1. IInv /\ [Next]_vars
          => [Returns("save_state")
                => /\ cpu.at = "synced" /\ smp.at = "synced" /\ ppu = "synced"]_vars
    BY ReturnActions DEF IInv, SaveInv, SaveStateReturns, InCall
  <1>. QED
    BY <1>1, Invariant, PTL DEF Spec, SavesAtSafePoints
=============================================================================
