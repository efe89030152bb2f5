----------------------------- MODULE ShadowStack -----------------------------
(***************************************************************************)
(* The shadow call stack, the per-function profiler that rides on it and   *)
(* the call slices of the timeline (target-kintsuki/libkintsuki.cpp).      *)
(*                                                                         *)
(* The emulated program runs tasks, each on a hardware stack of its own.   *)
(* JSR, JSL and interrupts call the call hook, RTS, RTL and RTI the return *)
(* hook; a TCS or TXS is seen by the exec hook, when that is armed, which  *)
(* guesses from the new value of S which task goes on.  `task` is what the *)
(* program really does, with the cycles each call really ran; everything   *)
(* else is the state of the library.                                       *)
(*                                                                         *)
(* Left out: call sites and kinds (they are only reported), labels, the    *)
(* DMA, frame and mark tracks of the timeline.  A call takes one unit of   *)
(* stack.                                                                  *)
(***************************************************************************)
EXTENDS Integers, Sequences, FiniteSets, SequencesExt

CONSTANTS
    Tasks,          \* the tasks of the emulated program
    Boot,           \* the task that runs first
    Targets,        \* the functions it calls
    StackBase,      \* StackBase[t]: S of task t with nothing on its stack
    StackDepth,     \* bound: units of stack a task may use
    Slack,          \* kStackResumeSlack
    CallstackCap,   \* kCallstackCap
    ParkedCap,      \* kParkedStackCap
    Wrap,           \* the master cycle counter wraps here (2^32)
    Filters,        \* the sets of functions a profile may be restricted to
    SavedClocks,    \* values of the counter in the save states at hand
    CycleBound,     \* bound: cycles the program runs
    HostBound       \* bound: calls the host makes

ASSUME TasksAssumption == Boot \in Tasks /\ Targets # {} /\ Filters \subseteq SUBSET Targets
ASSUME LimitsAssumption ==
    /\ StackDepth \in Nat /\ Slack \in Nat
    /\ CallstackCap \in Nat \ {0} /\ ParkedCap \in Nat \ {0}
    /\ Wrap \in Nat \ {0} /\ SavedClocks \subseteq 0 .. Wrap - 1
    /\ CycleBound \in Nat /\ HostBound \in Nat

\* Stacks lie further apart than the slack within which S may move on one.
ASSUME StacksAssumption ==
    /\ StackBase \in [Tasks -> Nat]
    /\ \A t \in Tasks : StackBase[t] >= StackDepth
    /\ \A t, u \in Tasks :
          t # u => \/ StackBase[t] > StackBase[u] + StackDepth + Slack
                   \/ StackBase[u] > StackBase[t] + StackDepth + Slack

VARIABLES
    task,      \* running task; per task S and the calls in progress
    elapsed,   \* cycles run so far
    asked,     \* calls the host made so far
    clock,     \* master cycle counter; last sample and base of its widening
    live,      \* g_callstack, g_callstackS, g_profileStack
    parked,    \* g_parkedStacks, oldest first
    profile,   \* g_profileActive, range filter, g_profileStats
    trace,     \* timeline open?, g_traceDepth, open slices of the CPU track
    hook,      \* execHook armed; exec callbacks (or a project) present
    missed,    \* the worst reason why a switch was missed since the last clear
    truth      \* the statistics the profile should show

vars == <<task, elapsed, asked, clock, live, parked, profile, trace, hook, missed, truth>>

-----------------------------------------------------------------------------
(* The emulated program *)

Booted == [cur |-> Boot, on |-> [t \in Tasks |-> [s |-> StackBase[t], calls |-> << >>]]]

Running == task.on[task.cur]

\* A call in progress: tracked when the shadow stack has had it ever since it
\* was made, timed when a profile window has been open ever since.
Made(f, s) ==
    [target |-> f, s |-> s, tracked |-> TRUE, timed |-> profile.active,
     incl |-> 0, own |-> 0]

Untracked(calls) == [i \in DOMAIN calls |-> [calls[i] EXCEPT !.tracked = FALSE]]

Untimed(calls) == [i \in DOMAIN calls |-> [calls[i] EXCEPT !.timed = FALSE]]

AllUntracked == [t \in Tasks |-> [task.on[t] EXCEPT !.calls = Untracked(@)]]

AllUntimed == [t \in Tasks |-> [task.on[t] EXCEPT !.calls = Untimed(@)]]

\* One more cycle for the calls of a task that is running.
Ran(calls) ==
    [i \in DOMAIN calls |->
        [calls[i] EXCEPT !.incl = IF calls[i].timed THEN @ + 1 ELSE @,
                         !.own = IF calls[i].timed /\ i = Len(calls) THEN @ + 1 ELSE @]]

\* Where S may be on the stack of a task without leaving the slack of its
\* innermost call.
Reach(on, base) ==
    LET top == IF on.calls = << >> THEN base ELSE Last(on.calls).s
    IN {s \in (base - StackDepth) .. base : s <= top /\ top - s <= Slack}

-----------------------------------------------------------------------------
(* The widened clock *)

\* profileMasterCycles(): a counter behind its last sample has wrapped.
Widened(c) == IF c.raw < c.last THEN c.base + Wrap ELSE c.base

Sampled(c) == [c EXCEPT !.base = Widened(c), !.last = c.raw]

Now == Widened(clock) + clock.raw

\* The cycle of an instruction that follows its hook.
Advanced(c) == [c EXCEPT !.raw = (@ + 1) % Wrap]

\* A frame ends, and its end is sampled, before the counter has gone round.
Spend ==
    /\ elapsed < CycleBound
    /\ ((clock.raw - clock.last) % Wrap) + 1 < Wrap
    /\ elapsed' = elapsed + 1

\* Handlers that stamp nothing do not sample.
SampledIf(on) == IF on THEN Sampled(clock) ELSE clock

-----------------------------------------------------------------------------
(* The profiler *)

NoStat == [calls |-> 0, incl |-> 0, excl |-> 0, max |-> 0, min |-> CycleBound + 1]
NoStats == [f \in Targets |-> NoStat]

Counted(stat, incl, excl) ==
    [calls |-> stat.calls + 1, incl |-> stat.incl + incl, excl |-> stat.excl + excl,
     max |-> IF incl > stat.max THEN incl ELSE stat.max,
     min |-> IF incl < stat.min THEN incl ELSE stat.min]

\* profileOnCall(): frames outside the filter are pushed all the same.
ProfFrame(f) ==
    [target |-> f, push |-> Now, child |-> 0, aggregated |-> f \in profile.filter]

ProfileOnCall(f) ==
    IF profile.active THEN Append(live.prof, ProfFrame(f)) ELSE live.prof

\* profileOnReturn()
Pops == profile.active /\ live.prof # << >>

Inclusive(frame) == Now - frame.push

Exclusive(frame) ==
    IF Inclusive(frame) > frame.child THEN Inclusive(frame) - frame.child ELSE 0

\* Fault: the caller is not told what its callee took.
ForgetChild(prof, incl) == prof

\* The caller's child_acc grows by what its callee took.
ChargeChild(prof, incl) ==
    IF prof = << >> THEN prof
    ELSE [prof EXCEPT ![Len(prof)].child = @ + incl]

ProfileOnReturn ==
    IF Pops THEN ChargeChild(Front(live.prof), Inclusive(Last(live.prof)))
    ELSE live.prof

StatsOnReturn ==
    IF Pops /\ Last(live.prof).aggregated
    THEN LET frame == Last(live.prof)
         IN [profile.stats EXCEPT ![frame.target] =
                Counted(@, Inclusive(frame), Exclusive(frame))]
    ELSE profile.stats

-----------------------------------------------------------------------------
(* The timeline *)

\* Fault: slices stay open over a stack switch or a clear.
KeepSlices == trace

\* traceCloseSlices()
CloseSlices ==
    IF trace.active THEN [trace EXCEPT !.depth = 0, !.slices = << >>] ELSE trace

TraceCall(f) ==
    IF trace.active
    THEN [trace EXCEPT !.depth = @ + 1, !.slices = Append(@, f)]
    ELSE trace

TraceReturn ==
    IF trace.active /\ trace.depth > 0
    THEN [trace EXCEPT !.depth = @ - 1, !.slices = Front(@)]
    ELSE trace

-----------------------------------------------------------------------------
(* Shadow stacks *)

NoStack == [calls |-> << >>, calls_s |-> << >>, prof |-> << >>]

\* stackResumesAt()
StackResumesAt(top, s) == top >= s /\ top - s <= Slack

\* Fault: nothing is dropped at the cap.
PushUncapped(seq, x) == Append(seq, x)

\* push_back behind a pop_front at the cap.
PushCapped(seq, x) == Append(IF Len(seq) >= CallstackCap THEN Tail(seq) ELSE seq, x)

Matches(s) == {i \in DOMAIN parked : StackResumesAt(Last(parked[i].calls_s), s)}

\* The nearest parked stack above s, the oldest of several.
Best(s) ==
    LET Top(i) == Last(parked[i].calls_s)
    IN CHOOSE i \in Matches(s) :
          \A j \in Matches(s) : Top(i) < Top(j) \/ (Top(i) = Top(j) /\ i <= j)

\* A stack of its own goes on, or there is nothing to park or resume.
NoSwitch(s) ==
    \/ live.calls_s # << >> /\ StackResumesAt(Last(live.calls_s), s)
    \/ live.calls = << >> /\ Matches(s) = {}

Resumed(s) ==
    IF Matches(s) = {} THEN [calls |-> << >>, calls_s |-> << >>, prof |-> << >>, at |-> 0]
    ELSE parked[Best(s)]

Parked == [calls |-> live.calls, calls_s |-> live.calls_s, prof |-> live.prof, at |-> Now]

\* Fault: the resumed stack stays parked as well.
ResumedStays(s) == parked

Remaining(s) == IF Matches(s) = {} THEN parked ELSE RemoveAt(parked, Best(s))

\* The live frames, if any, are parked; at the cap the oldest stack is dropped.
ParkedAfter(s) ==
    LET rest == Remaining(s)
    IN IF live.calls = << >> THEN rest
       ELSE Append(IF Len(rest) >= ParkedCap THEN Tail(rest) ELSE rest, Parked)

\* Fault: resumed frames are charged for the time they were parked.
RestartLate(r) == r.prof

\* The clocks of a parked stack stood still.
Restart(r) == [i \in DOMAIN r.prof |-> [r.prof[i] EXCEPT !.push = @ + (Now - r.at)]]

LiveAfter(s) ==
    LET r == Resumed(s)
    IN [calls |-> r.calls, calls_s |-> r.calls_s, prof |-> Restart(r)]

\* Which calls the library forgets because a parked stack is dropped.
Dropped(s) ==
    IF live.calls # << >> /\ Len(Remaining(s)) >= ParkedCap
    THEN Range(Head(Remaining(s)).calls_s) ELSE {}

ForgetDropped(on, s) ==
    [t \in Tasks |->
        [on[t] EXCEPT !.calls =
            [i \in DOMAIN on[t].calls |->
                [on[t].calls[i] EXCEPT !.tracked = @ /\ on[t].calls[i].s \notin Dropped(s)]]]]

\* switchShadowStack(s), called by cOnExec() in front of a TCS or TXS; `on` is
\* what becomes of the tasks.
SwitchShadowStack(s, cur, on) ==
    IF ~hook.armed \/ NoSwitch(s)
    THEN /\ task' = [cur |-> cur, on |-> [on EXCEPT ![cur].calls = Ran(@)]]
         /\ clock' = Advanced(clock)
         /\ UNCHANGED <<live, parked, trace>>
    ELSE /\ task' = [cur |-> cur,
                     on |-> [ForgetDropped(on, s) EXCEPT ![cur].calls = Ran(@)]]
         /\ live' = LiveAfter(s)
         /\ parked' = ParkedAfter(s)
         /\ trace' = CloseSlices
         /\ clock' = Advanced(Sampled(clock))

-----------------------------------------------------------------------------
(* Steps of the emulated program *)

\* The running task runs for a cycle.
Tick ==
    /\ Spend
    /\ clock' = Advanced(clock)
    /\ task' = [task EXCEPT !.on[task.cur].calls = Ran(@)]
    /\ UNCHANGED <<live, parked, profile, trace, hook, missed, truth>>

\* Program::frameHook at the end of a frame.
Frame ==
    /\ clock' = Sampled(clock)
    /\ UNCHANGED <<task, elapsed, live, parked, profile, trace, hook, missed, truth>>

\* Which of the running task's calls falls out of the shadow stack at its cap.
Overflows(i) ==
    /\ Len(live.calls) >= CallstackCap
    /\ Running.calls[i].tracked
    /\ \A j \in 1 .. i - 1 : ~Running.calls[j].tracked

\* JSR, JSL or an interrupt: the return address is pushed, then cOnCall().
Call(f) ==
    LET s == Running.s - 1
        before == [i \in DOMAIN Running.calls |->
                     [Running.calls[i] EXCEPT !.tracked = @ /\ ~Overflows(i)]]
    IN /\ s >= StackBase[task.cur] - StackDepth
       /\ Spend
       /\ task' = [task EXCEPT !.on[task.cur] =
                     [s |-> s, calls |-> Ran(Append(before, Made(f, s)))]]
       /\ live' = [calls |-> PushCapped(live.calls, f),
                   calls_s |-> PushCapped(live.calls_s, s),
                   prof |-> ProfileOnCall(f)]
       /\ trace' = TraceCall(f)
       /\ clock' = Advanced(SampledIf(profile.active \/ trace.active))
       /\ UNCHANGED <<parked, profile, hook, missed, truth>>

\* The statistics as they should be after the running task's innermost call.
TruthOnReturn ==
    LET c == Last(Running.calls)
    IN IF profile.active /\ c.tracked /\ c.timed /\ c.target \in profile.filter
       THEN [truth EXCEPT ![c.target] = Counted(@, c.incl, c.own)]
       ELSE truth

\* Fault: a return without a frame pops the profiler's all the same.
ReturnUnframed == /\ live' = [live EXCEPT !.prof = ProfileOnReturn]
                  /\ profile' = [profile EXCEPT !.stats = StatsOnReturn]
                  /\ clock' = Advanced(SampledIf(Pops))
                  /\ UNCHANGED trace

\* cOnReturn() with nothing on the shadow stack.
ReturnNowhere == clock' = Advanced(clock) /\ UNCHANGED <<live, profile, trace>>

\* RTS, RTL or RTI, after which cOnReturn() pops one frame of everything.
Return ==
    /\ Running.calls # << >>
    /\ Spend
    /\ task' = [task EXCEPT !.on[task.cur] =
                  [s |-> Last(Running.calls).s + 1, calls |-> Ran(Front(Running.calls))]]
    /\ IF live.calls = << >> THEN ReturnNowhere
       ELSE /\ live' = [calls |-> Front(live.calls), calls_s |-> Front(live.calls_s),
                        prof |-> ProfileOnReturn]
            /\ profile' = [profile EXCEPT !.stats = StatsOnReturn]
            /\ trace' = TraceReturn
            /\ clock' = Advanced(SampledIf(Pops \/ (trace.active /\ trace.depth > 0)))
    /\ truth' = TruthOnReturn
    /\ UNCHANGED <<parked, hook, missed>>

\* A local frame on the stack of the running task (tsc / sbc / tcs), or the
\* registers it saves there before it hands over.
LocalFrame(s) ==
    /\ s \in Reach(Running, StackBase[task.cur]) \ {Running.s}
    /\ Spend
    /\ SwitchShadowStack(s, task.cur, [task.on EXCEPT ![task.cur].s = s])
    /\ UNCHANGED <<profile, hook, missed, truth>>

\* kintsuki.h names what keeps the hook armed.
HookDue == hook.callbacks \/ profile.active

\* The running task hands over to task u, whose S it loads.
Switch(u) ==
    /\ u # task.cur
    /\ Spend
    /\ SwitchShadowStack(task.on[u].s, u, task.on)
    /\ missed' = IF HookDue THEN missed ELSE "unarmed"
    /\ UNCHANGED <<profile, hook, truth>>

\* kintsuki_step() over the TCS that hands over: stepHook stands in for
\* cOnExec and does not call it.
StepOverSwitch(u) ==
    /\ u # task.cur
    /\ Spend
    /\ task' = [cur |-> u, on |-> [task.on EXCEPT ![u].calls = Ran(@)]]
    /\ clock' = Advanced(clock)
    /\ missed' = IF ~HookDue THEN "unarmed" ELSE IF missed = "none" THEN "step" ELSE missed
    /\ UNCHANGED <<live, parked, profile, trace, hook, truth>>

-----------------------------------------------------------------------------
(* The host *)

\* clearShadowStacks(): the profiler's live frames stay.
ClearShadowStacks ==
    /\ live' = [NoStack EXCEPT !.prof = live.prof]
    /\ parked' = << >>
    /\ trace' = CloseSlices
    /\ missed' = "none"
    /\ truth' = IF missed = "none" THEN truth ELSE profile.stats

CallstackClear ==
    /\ ClearShadowStacks
    /\ task' = [task EXCEPT !.on = AllUntracked]
    /\ clock' = SampledIf(trace.active)
    /\ UNCHANGED <<elapsed, profile, hook>>

\* load_state: the machine, its cycle counter included, is as it was at
\* another time, here with the same calls in progress.
LoadState(raw) ==
    /\ ClearShadowStacks
    /\ task' = [task EXCEPT !.on = AllUntracked]
    /\ clock' = [SampledIf(trace.active) EXCEPT !.raw = raw]
    /\ UNCHANGED <<elapsed, profile, hook>>

\* reset: every task is gone but the first.
Reset ==
    /\ ClearShadowStacks
    /\ task' = Booted
    /\ clock' = [SampledIf(trace.active) EXCEPT !.raw = 0]
    /\ UNCHANGED <<elapsed, profile, hook>>

\* clearProfileFrames(), live and parked.
ClearProfileFrames ==
    /\ live' = [live EXCEPT !.prof = << >>]
    /\ parked' = [i \in DOMAIN parked |-> [parked[i] EXCEPT !.prof = << >>]]
    /\ task' = [task EXCEPT !.on = AllUntimed]

ProfileStart(filter) ==
    /\ ClearProfileFrames
    /\ profile' = [active |-> TRUE, filter |-> filter, stats |-> NoStats]
    /\ truth' = NoStats
    /\ hook' = [hook EXCEPT !.armed = TRUE]
    /\ UNCHANGED <<elapsed, clock, trace, missed>>

ProfileStop ==
    /\ ClearProfileFrames
    /\ profile' = [profile EXCEPT !.active = FALSE]
    /\ hook' = [hook EXCEPT !.armed = hook.callbacks]
    /\ UNCHANGED <<elapsed, clock, trace, missed, truth>>

ProfileReset ==
    /\ ClearProfileFrames
    /\ profile' = [profile EXCEPT !.stats = NoStats]
    /\ truth' = NoStats
    /\ UNCHANGED <<elapsed, clock, trace, hook, missed>>

\* The first exec callback is added, the last one removed.
AddCallback ==
    /\ hook' = [armed |-> TRUE, callbacks |-> TRUE]
    /\ UNCHANGED <<task, elapsed, clock, live, parked, profile, trace, missed, truth>>

\* Fault: the hook goes although a profile needs it.
DisarmAlways == [armed |-> FALSE, callbacks |-> FALSE]

Disarmed == [armed |-> profile.active, callbacks |-> FALSE]

RemoveCallback ==
    /\ hook.callbacks
    /\ hook' = Disarmed
    /\ UNCHANGED <<task, elapsed, clock, live, parked, profile, trace, missed, truth>>

\* kintsuki_timeline_start(), whose file may not open.
TimelineStart(opens) ==
    /\ trace' = IF opens THEN [active |-> TRUE, depth |-> 0, slices |-> << >>]
                ELSE [CloseSlices EXCEPT !.active = FALSE]
    /\ clock' = SampledIf(trace.active)
    /\ UNCHANGED <<task, elapsed, live, parked, profile, hook, missed, truth>>

TimelineStop ==
    /\ trace.active
    /\ trace' = [CloseSlices EXCEPT !.active = FALSE]
    /\ clock' = Sampled(clock)
    /\ UNCHANGED <<task, elapsed, live, parked, profile, hook, missed, truth>>

\* The program starts to run; exec callbacks may be there already.
Init ==
    /\ task = Booted
    /\ elapsed = 0
    /\ asked = 0
    /\ clock = [raw |-> 0, last |-> 0, base |-> 0]
    /\ live = NoStack
    /\ parked = << >>
    /\ profile = [active |-> FALSE, filter |-> Targets, stats |-> NoStats]
    /\ trace = [active |-> FALSE, depth |-> 0, slices |-> << >>]
    /\ \E on \in BOOLEAN : hook = [armed |-> on, callbacks |-> on]
    /\ missed = "none"
    /\ truth = NoStats

Spaces == UNION {(StackBase[t] - StackDepth) .. StackBase[t] : t \in Tasks}

Program ==
    \/ Tick
    \/ Frame
    \/ \E f \in Targets : Call(f)
    \/ Return
    \/ \E s \in Spaces : LocalFrame(s)
    \/ \E u \in Tasks : Switch(u)

Host ==
    \/ CallstackClear
    \/ \E raw \in SavedClocks : LoadState(raw)
    \/ Reset
    \/ \E filter \in Filters : ProfileStart(filter)
    \/ ProfileStop \/ ProfileReset
    \/ \E u \in Tasks : StepOverSwitch(u)
    \/ AddCallback \/ RemoveCallback
    \/ \E opens \in BOOLEAN : TimelineStart(opens)
    \/ TimelineStop

Next ==
    \/ Program /\ UNCHANGED asked
    \/ Host /\ asked < HostBound /\ asked' = asked + 1

Spec == Init /\ [][Next]_vars

-----------------------------------------------------------------------------
(* Properties *)

Stats == [calls : Nat, incl : Nat, excl : Nat, max : Nat, min : Nat]
ProfFrames == [target : Targets, push : Nat, child : Nat, aggregated : BOOLEAN]
Calls == [target : Targets, s : Nat, tracked : BOOLEAN, timed : BOOLEAN, incl : Nat, own : Nat]

StackType(st) ==
    /\ st.calls \in Seq(Targets) /\ Len(st.calls) <= CallstackCap
    /\ st.calls_s \in Seq(Nat) /\ Len(st.calls_s) = Len(st.calls)
    /\ st.prof \in Seq(ProfFrames)

\* Types, and the limits of the shadow stacks: at most CallstackCap frames,
\* each with its S, and at most ParkedCap parked stacks, none of them empty.
TypeOK ==
    /\ task \in [cur : Tasks, on : [Tasks -> [s : Nat, calls : Seq(Calls)]]]
    /\ elapsed \in 0 .. CycleBound
    /\ asked \in 0 .. HostBound
    /\ clock \in [raw : 0 .. Wrap - 1, last : 0 .. Wrap - 1, base : Nat]
    /\ StackType(live)
    /\ Len(parked) <= ParkedCap
    /\ \A i \in DOMAIN parked : StackType(parked[i]) /\ parked[i].calls # << >>
    /\ profile \in [active : BOOLEAN, filter : SUBSET Targets, stats : [Targets -> Stats]]
    /\ trace.active \in BOOLEAN /\ trace.slices \in Seq(Targets) /\ trace.depth \in Nat
    /\ hook \in [armed : BOOLEAN, callbacks : BOOLEAN]
    /\ missed \in {"none", "step", "unarmed"}
    /\ truth \in [Targets -> Stats]

\* A shadow stack shows a call chain: its frames are the innermost calls of the
\* chain, and those are the ones it has had all along.
Shows(shadow, calls) ==
    /\ Len(shadow) <= Len(calls)
    /\ \A i \in DOMAIN calls : calls[i].tracked <=> i > Len(calls) - Len(shadow)
    /\ \A i \in DOMAIN shadow : shadow[i] = calls[Len(calls) - Len(shadow) + i].target

Observed(t) == \E i \in DOMAIN task.on[t].calls : task.on[t].calls[i].tracked

Others == {t \in Tasks \ {task.cur} : Observed(t)}

FollowsTask ==
    /\ Shows(live.calls, Running.calls)
    /\ \A t \in Others : \E i \in DOMAIN parked : Shows(parked[i].calls, task.on[t].calls)
    /\ Len(parked) = Cardinality(Others)

\* As long as the hook saw every switch since the last clear, the live stack
\* is the call chain of the running task, as far back as it was observed, and
\* each other task with observed calls has exactly one parked stack, which is
\* its call chain: switching never mixes up, loses or duplicates frames.
StackFollowsTask == missed = "none" => FollowsTask

\* The profile counts, for every call that began and ended inside the window,
\* the cycles its task ran between the two, and as exclusive the cycles it was
\* the innermost call: parked time, the wrap of the counter, loaded states,
\* cleared stacks and callers dropped at the cap leave the numbers right.
ProfileIsOwnTime == missed = "none" => profile.stats = truth

\* The innermost n elements.
Innermost(seq, n) == SubSeq(seq, Len(seq) - n + 1, Len(seq))

Least(m, n) == IF m < n THEN m ELSE n

Agree(seq, calls) ==
    LET n == Least(Len(seq), Len(calls)) IN Innermost(seq, n) = Innermost(calls, n)

ProfTargets(st) == [i \in DOMAIN st.prof |-> st.prof[i].target]

\* Whatever was missed, cleared or dropped, profiler frames and timeline
\* slices are those of the innermost shadow frames, so that a return closes
\* what its own call opened; and no slice is open in a closed timeline.
FramesAgree ==
    /\ Agree(ProfTargets(live), live.calls)
    /\ \A i \in DOMAIN parked : Agree(ProfTargets(parked[i]), parked[i].calls)
    /\ Agree(trace.slices, live.calls)
    /\ Len(trace.slices) = trace.depth
    /\ ~trace.active => trace.depth = 0

\* kintsuki.h says of the shadow stack: "one shadow stack per hardware stack
\* while the exec hook is armed (an exec callback, a project, or a profile
\* window): a TCS/TXS onto another stack (task / fiber switch) parks the live
\* frames and resumes that stack's".
StackFollowsTaskWhileArmed == missed # "unarmed" => FollowsTask
=============================================================================
