-------------------------- MODULE ShadowFollowProofs --------------------------
(***************************************************************************)
(* Proofs about ShadowStack: for all tasks, functions, stacks that lie     *)
(* apart and limits, the shadow stacks follow the tasks of the program as  *)
(* long as the exec hook sees every switch, and the profile then counts    *)
(* the cycles each call really ran.                                        *)
(***************************************************************************)
EXTENDS ShadowStackProofs, FiniteSetTheorems

-----------------------------------------------------------------------------
(* The inductive invariant *)

\* The stack of a task, where S is while that task runs.
StackOf(t) == (StackBase[t] - StackDepth) .. StackBase[t]

\* Each call was made with S on the stack of its task, within the slack of the
\* call around it, and S is within the slack of the innermost one.
Chained(on, t) ==
    /\ on.s \in StackOf(t)
    /\ \A i \in DOMAIN on.calls :
          on.calls[i].s \in StackOf(t) /\ on.calls[i].s + 1 \in StackOf(t)
    /\ on.calls # << >> => StackResumesAt(Last(on.calls).s, on.s)
    /\ \A i \in 1 .. Len(on.calls) - 1 :
          StackResumesAt(on.calls[i].s, on.calls[i + 1].s + 1)

ChainInv == \A t \in Tasks : Chained(task.on[t], t)

HookDueInv == hook.armed <=> HookDue

\* The element k places from the innermost.
Inner(seq, k) == seq[Len(seq) - k]

\* At time t a frame of the profiler and the call it times, k places from the
\* innermost, tell the same: cycles since the call, and cycles in callees.
Times(fr, calls, k, t, filter) ==
    /\ fr.target = Inner(calls, k).target
    /\ fr.aggregated <=> fr.target \in filter
    /\ t - fr.push = Inner(calls, k).incl
    /\ Inner(calls, k).incl = Inner(calls, k).own + fr.child
                              + (IF k = 0 THEN 0 ELSE Inner(calls, k - 1).incl)

\* At time t a shadow stack has the frames of the tracked calls of a chain,
\* which are the innermost ones, and the profiler's frames of those that began
\* in its window.
Mirrors(st, calls, t, filter) ==
    /\ Len(st.calls) <= Len(calls)
    /\ \A k \in Nat : k < Len(calls) => (Inner(calls, k).tracked <=> k < Len(st.calls))
    /\ \A k \in Nat : k < Len(st.calls) =>
          /\ Inner(st.calls, k) = Inner(calls, k).target
          /\ Inner(st.calls_s, k) = Inner(calls, k).s
          /\ Inner(calls, k).timed <=> k < Len(st.prof)
          /\ k < Len(st.prof) => Times(Inner(st.prof, k), calls, k, t, filter)

\* Each parked stack belongs to a task of its own, and each task that was
\* observed and does not run has one.
Owners(own) ==
    /\ \A i, j \in DOMAIN own : own[i] = own[j] => i = j
    /\ {own[i] : i \in DOMAIN own} = Others
    /\ \A i \in DOMAIN parked :
          Mirrors(parked[i], task.on[own[i]].calls, parked[i].at, profile.filter)

FollowInv ==
    missed = "none" =>
        /\ profile.stats = truth
        /\ Mirrors(live, Running.calls, Now, profile.filter)
        /\ \E own \in [DOMAIN parked -> Tasks] : Owners(own)


-----------------------------------------------------------------------------
(* Calls in progress *)

\* The calls of a sequence of calls.
LEMMA CallElements ==
    ASSUME NEW c \in Seq(Calls)
    PROVE  /\ Len(c) \in Nat /\ DOMAIN c = 1 .. Len(c)
           /\ \A i \in 1 .. Len(c) : /\ c[i] \in Calls
                                     /\ c[i].incl \in Nat /\ c[i].own \in Nat /\ c[i].s \in Nat
                                     /\ c[i].target \in Targets
  <1>1. Len(c) \in Nat /\ DOMAIN c = 1 .. Len(c) /\ \A i \in 1 .. Len(c) : c[i] \in Calls
    BY LenProperties, ElementOfSeq
  <1> QED
    BY <1>1 DEF Calls

\* The same calls on the same stack.
SameCalls(d, c) ==
    /\ Len(d) = Len(c)
    /\ \A i \in 1 .. Len(c) : d[i].s = c[i].s /\ d[i].target = c[i].target

\* The same calls, with the same cycles and the same past.
SameTimes(d, c) ==
    /\ SameCalls(d, c)
    /\ \A i \in 1 .. Len(c) :
          d[i].incl = c[i].incl /\ d[i].own = c[i].own /\ (d[i].timed <=> c[i].timed)

SameTracks(d, c) == \A i \in 1 .. Len(c) : d[i].tracked <=> c[i].tracked

\* What changes in a record of a call, and what does not.
LEMMA CallRecords ==
    ASSUME NEW x \in Calls
    PROVE  /\ \A m, n : LET y == [x EXCEPT !.incl = m, !.own = n]
                        IN /\ y.s = x.s /\ y.target = x.target /\ y.incl = m /\ y.own = n
                           /\ (y.tracked <=> x.tracked) /\ (y.timed <=> x.timed)
           /\ \A v \in BOOLEAN : LET y == [x EXCEPT !.tracked = v]
                     IN /\ y.s = x.s /\ y.target = x.target /\ y.incl = x.incl /\ y.own = x.own
                        /\ (y.tracked <=> v) /\ (y.timed <=> x.timed)
           /\ LET y == [x EXCEPT !.tracked = FALSE]
              IN /\ y.s = x.s /\ y.target = x.target /\ y.incl = x.incl /\ y.own = x.own
                 /\ ~y.tracked /\ (y.timed <=> x.timed)
           /\ LET y == [x EXCEPT !.timed = FALSE]
              IN /\ y.s = x.s /\ y.target = x.target /\ y.incl = x.incl /\ y.own = x.own
                 /\ (y.tracked <=> x.tracked) /\ ~y.timed
  BY DEF Calls

\* A function over the indices of a sequence of calls.
LEMMA MapsLength ==
    ASSUME NEW c \in Seq(Calls), NEW d \in Seq(Calls), DOMAIN d = DOMAIN c
    PROVE  Len(d) = Len(c)
  BY LenProperties, SameInterval

\* A cycle for the calls of a running task.
LEMMA RanFields ==
    ASSUME NEW c \in Seq(Calls)
    PROVE  /\ Ran(c) \in Seq(Calls) /\ SameCalls(Ran(c), c) /\ SameTracks(Ran(c), c)
           /\ \A i \in 1 .. Len(c) :
                 /\ Ran(c)[i].timed <=> c[i].timed
                 /\ c[i].timed => Ran(c)[i].incl = c[i].incl + 1
                 /\ c[i].timed => Ran(c)[i].own = c[i].own + (IF i = Len(c) THEN 1 ELSE 0)
  <1>1. Ran(c) \in Seq(Calls) /\ DOMAIN Ran(c) = DOMAIN c
    BY ChangesCalls DEF Ran
  <1>2. Len(Ran(c)) = Len(c)
    BY <1>1, MapsLength
  <1>3. ASSUME NEW i \in 1 .. Len(c)
        PROVE  /\ Ran(c)[i].s = c[i].s /\ Ran(c)[i].target = c[i].target
               /\ (Ran(c)[i].tracked <=> c[i].tracked) /\ (Ran(c)[i].timed <=> c[i].timed)
               /\ c[i].timed => Ran(c)[i].incl = c[i].incl + 1
               /\ c[i].timed => Ran(c)[i].own = c[i].own + (IF i = Len(c) THEN 1 ELSE 0)
    <2> DEFINE x == c[i]
               m == IF x.timed THEN x.incl + 1 ELSE x.incl
               n == IF x.timed /\ i = Len(c) THEN x.own + 1 ELSE x.own
    <2>1. x \in Calls /\ i \in DOMAIN c /\ x.incl \in Nat /\ x.own \in Nat
      BY CallElements
    <2>2. Ran(c)[i] = [x EXCEPT !.incl = m, !.own = n]
      BY <2>1 DEF Ran
    <2>3. /\ x.timed => m = x.incl + 1
          /\ x.timed => n = x.own + (IF i = Len(c) THEN 1 ELSE 0)
      BY <2>1
    <2> HIDE DEF x, m, n
    <2>4. /\ Ran(c)[i].s = x.s /\ Ran(c)[i].target = x.target
          /\ (Ran(c)[i].tracked <=> x.tracked) /\ (Ran(c)[i].timed <=> x.timed)
          /\ Ran(c)[i].incl = m /\ Ran(c)[i].own = n
      BY <2>1, <2>2, CallRecords
    <2> QED
      BY <2>3, <2>4 DEF x
  <1> QED
    BY <1>1, <1>2, <1>3 DEF SameCalls, SameTracks

\* The library forgets calls, or the profiler does.
LEMMA ForgottenFields ==
    ASSUME NEW c \in Seq(Calls)
    PROVE  /\ Untracked(c) \in Seq(Calls) /\ SameTimes(Untracked(c), c)
           /\ \A i \in 1 .. Len(c) : ~Untracked(c)[i].tracked
           /\ Untimed(c) \in Seq(Calls) /\ SameCalls(Untimed(c), c) /\ SameTracks(Untimed(c), c)
           /\ \A i \in 1 .. Len(c) : ~Untimed(c)[i].timed
  <1>1. /\ Untracked(c) \in Seq(Calls) /\ DOMAIN Untracked(c) = DOMAIN c
        /\ Untimed(c) \in Seq(Calls) /\ DOMAIN Untimed(c) = DOMAIN c
    BY ChangesCalls DEF Untracked, Untimed
  <1>2. Len(Untracked(c)) = Len(c) /\ Len(Untimed(c)) = Len(c)
    BY <1>1, MapsLength
  <1>3. ASSUME NEW i \in 1 .. Len(c)
        PROVE  /\ Untracked(c)[i] = [c[i] EXCEPT !.tracked = FALSE]
               /\ Untimed(c)[i] = [c[i] EXCEPT !.timed = FALSE]
               /\ c[i] \in Calls
    BY CallElements DEF Untracked, Untimed
  <1>4. ASSUME NEW i \in 1 .. Len(c)
        PROVE  LET y == Untracked(c)[i] IN
               /\ y.s = c[i].s /\ y.target = c[i].target
               /\ y.incl = c[i].incl /\ y.own = c[i].own
               /\ (y.timed <=> c[i].timed) /\ ~y.tracked
    <2> DEFINE x == c[i]
    <2>1. Untracked(c)[i] = [x EXCEPT !.tracked = FALSE] /\ x \in Calls
      BY <1>3
    <2> HIDE DEF x
    <2>2. LET y == [x EXCEPT !.tracked = FALSE]
          IN /\ y.s = x.s /\ y.target = x.target /\ y.incl = x.incl /\ y.own = x.own
             /\ ~y.tracked /\ (y.timed <=> x.timed)
      BY <2>1, CallRecords
    <2> QED
      BY <2>1, <2>2 DEF x
  <1>5. ASSUME NEW i \in 1 .. Len(c)
        PROVE  LET y == Untimed(c)[i] IN
               /\ y.s = c[i].s /\ y.target = c[i].target
               /\ (y.tracked <=> c[i].tracked) /\ ~y.timed
    <2> DEFINE x == c[i]
    <2>1. Untimed(c)[i] = [x EXCEPT !.timed = FALSE] /\ x \in Calls
      BY <1>3
    <2> HIDE DEF x
    <2>2. LET y == [x EXCEPT !.timed = FALSE]
          IN /\ y.s = x.s /\ y.target = x.target /\ y.incl = x.incl /\ y.own = x.own
             /\ (y.tracked <=> x.tracked) /\ ~y.timed
      BY <2>1, CallRecords
    <2> QED
      BY <2>1, <2>2 DEF x
  <1> QED
    BY <1>1, <1>2, <1>4, <1>5 DEF SameCalls, SameTimes, SameTracks

\* Calls some of which, the ones in lost, are forgotten.
LEMMA LosesFields ==
    ASSUME NEW c \in Seq(Calls), NEW lost, NEW d \in Seq(Calls), DOMAIN d = DOMAIN c,
           \A i \in 1 .. Len(c) : \E v \in BOOLEAN :
              /\ d[i] = [c[i] EXCEPT !.tracked = v]
              /\ v <=> c[i].tracked /\ i \notin lost
    PROVE  /\ SameTimes(d, c)
           /\ \A i \in 1 .. Len(c) : d[i].tracked <=> c[i].tracked /\ i \notin lost
  <1>1. Len(d) = Len(c) /\ DOMAIN c = 1 .. Len(c)
    BY MapsLength, CallElements
  <1>2. ASSUME NEW i \in 1 .. Len(c)
        PROVE  /\ d[i].s = c[i].s /\ d[i].target = c[i].target
               /\ d[i].incl = c[i].incl /\ d[i].own = c[i].own
               /\ (d[i].timed <=> c[i].timed)
               /\ d[i].tracked <=> c[i].tracked /\ i \notin lost
    <2>1. PICK v \in BOOLEAN : /\ d[i] = [c[i] EXCEPT !.tracked = v]
                               /\ v <=> c[i].tracked /\ i \notin lost
      OBVIOUS
    <2>2. c[i] \in Calls
      BY CallElements
    <2> QED
      BY <2>1, <2>2, CallRecords
  <1> QED
    BY <1>1, <1>2 DEF SameCalls, SameTimes

-----------------------------------------------------------------------------
(* Tasks on their stacks *)

\* Nothing else moves on the stack of a task while its calls stay the same.
LEMMA SameChain ==
    ASSUME NEW t \in Tasks, NEW on \in OnType, NEW en \in OnType, Chained(on, t),
           en.s = on.s, SameCalls(en.calls, on.calls)
    PROVE  Chained(en, t)
  <1> DEFINE c == on.calls
             d == en.calls
  <1>1. /\ c \in Seq(Calls) /\ d \in Seq(Calls)
    BY DEF OnType
  <1>2. Len(c) \in Nat /\ DOMAIN c = 1 .. Len(c) /\ Len(d) = Len(c) /\ DOMAIN d = 1 .. Len(c)
    BY <1>1, CallElements DEF SameCalls
  <1>3. \A i \in 1 .. Len(c) : d[i].s = c[i].s
    BY DEF SameCalls
  <1>4. d # << >> <=> c # << >>
    BY <1>1, <1>2, EmptySeq
  <1>5. c # << >> => Last(d).s = Last(c).s
    BY <1>1, <1>2, <1>3, EmptySeq DEF Last
  <1>6. /\ on.s \in StackOf(t)
        /\ \A i \in 1 .. Len(c) : c[i].s \in StackOf(t) /\ c[i].s + 1 \in StackOf(t)
        /\ c # << >> => StackResumesAt(Last(c).s, on.s)
        /\ \A i \in 1 .. Len(c) - 1 : StackResumesAt(c[i].s, c[i + 1].s + 1)
    BY <1>2 DEF Chained
  <1> HIDE DEF c, d
  <1>7. \A i \in 1 .. Len(c) - 1 : StackResumesAt(d[i].s, d[i + 1].s + 1)
    <2> TAKE i \in 1 .. Len(c) - 1
    <2>1. i \in 1 .. Len(c) /\ i + 1 \in 1 .. Len(c)
      BY <1>2
    <2> QED
      BY <2>1, <1>3, <1>6
  <1>8. \A i \in DOMAIN d : d[i].s \in StackOf(t) /\ d[i].s + 1 \in StackOf(t)
    BY <1>2, <1>3, <1>6
  <1> QED
    BY <1>2, <1>4, <1>5, <1>6, <1>7, <1>8 DEF Chained, c, d

\* Two tasks have nothing of their stacks in common, not even within the slack.
LEMMA Apart ==
    ASSUME NEW t \in Tasks, NEW u \in Tasks, t # u,
           NEW x \in StackOf(t), NEW y \in StackOf(u)
    PROVE  x # y /\ ~StackResumesAt(x, y)
  <1>1. /\ StackBase[t] \in Nat /\ StackBase[u] \in Nat /\ StackDepth \in Nat /\ Slack \in Nat
        /\ \/ StackBase[t] > StackBase[u] + StackDepth + Slack
           \/ StackBase[u] > StackBase[t] + StackDepth + Slack
    BY StacksAssumption, LimitsAssumption
  <1>2. /\ x \in (StackBase[t] - StackDepth) .. StackBase[t]
        /\ y \in (StackBase[u] - StackDepth) .. StackBase[u]
    BY DEF StackOf
  <1>3. x > y + Slack \/ y > x
    BY <1>1, <1>2
  <1> QED
    BY <1>1, <1>2, <1>3 DEF StackResumesAt

\* Stack pointers are numbers.
LEMMA OnStack ==
    ASSUME NEW t \in Tasks
    PROVE  /\ StackBase[t] \in Nat /\ StackDepth \in Nat /\ Slack \in Nat
           /\ StackBase[t] >= StackDepth
           /\ \A x \in StackOf(t) : x \in Nat /\ x <= StackBase[t] /\ x >= StackBase[t] - StackDepth
  <1>1. /\ StackBase[t] \in Nat /\ StackDepth \in Nat /\ Slack \in Nat
        /\ StackBase[t] >= StackDepth
    BY StacksAssumption, LimitsAssumption
  <1> QED
    BY <1>1 DEF StackOf

\* A call is made within the slack of the one around it.
LEMMA ChainPush ==
    ASSUME NEW t \in Tasks, NEW on \in OnType, NEW en \in OnType, Chained(on, t),
           NEW x \in Calls, NEW c \in Seq(Calls), SameCalls(c, on.calls),
           x.s = on.s - 1, x.s \in StackOf(t), en.s = x.s, SameCalls(en.calls, Append(c, x))
    PROVE  Chained(en, t)
  <1> DEFINE n == Len(on.calls)
             e == Append(c, x)
             d == en.calls
  <1>1. on.calls \in Seq(Calls) /\ d \in Seq(Calls) /\ on.s \in Nat
    BY DEF OnType
  <1>2. /\ n \in Nat /\ DOMAIN on.calls = 1 .. n /\ Len(c) = n
        /\ \A i \in 1 .. n : c[i].s = on.calls[i].s
    BY <1>1, CallElements DEF SameCalls
  <1>3. /\ e \in Seq(Calls) /\ Len(e) = n + 1
        /\ \A i \in 1 .. n : e[i] = c[i]
        /\ e[n + 1] = x
    BY <1>2, AppendProperties
  <1>4. /\ Len(d) = n + 1 /\ DOMAIN d = 1 .. n + 1
        /\ \A i \in 1 .. n + 1 : d[i].s = e[i].s
    BY <1>1, <1>3, CallElements DEF SameCalls
  <1>5. /\ on.s \in StackOf(t)
        /\ \A i \in 1 .. n : on.calls[i].s \in StackOf(t) /\ on.calls[i].s + 1 \in StackOf(t)
        /\ on.calls # << >> => StackResumesAt(on.calls[n].s, on.s)
        /\ \A i \in 1 .. n - 1 : StackResumesAt(on.calls[i].s, on.calls[i + 1].s + 1)
    BY <1>2 DEF Chained, Last
  <1>6. n # 0 => on.calls # << >>
    BY <1>1, EmptySeq
  <1> HIDE DEF n, e, d
  <1>7. d[n + 1].s = on.s - 1 /\ \A i \in 1 .. n : d[i].s = on.calls[i].s
    <2>1. n + 1 \in 1 .. n + 1 /\ \A i \in 1 .. n : i \in 1 .. n + 1
      BY <1>2
    <2> QED
      BY <2>1, <1>2, <1>3, <1>4
  <1>8. \A i \in 1 .. n + 1 : d[i].s \in StackOf(t) /\ d[i].s + 1 \in StackOf(t)
    <2> TAKE i \in 1 .. n + 1
    <2>1. i \in 1 .. n \/ i = n + 1
      BY <1>2
    <2>2. d[n + 1].s \in StackOf(t) /\ d[n + 1].s + 1 = on.s
      BY <1>1, <1>7
    <2> QED
      BY <2>1, <2>2, <1>5, <1>7
  <1>9. d # << >> /\ Last(d).s = en.s
    <2>1. d # << >>
      BY <1>1, <1>2, <1>4, EmptySeq DEF d
    <2> QED
      BY <2>1, <1>4, <1>7 DEF Last
  <1>10. StackResumesAt(Last(d).s, en.s)
    BY <1>1, <1>9, OnStack DEF StackResumesAt
  <1>11. \A i \in 1 .. (n + 1) - 1 : StackResumesAt(d[i].s, d[i + 1].s + 1)
    <2> TAKE i \in 1 .. (n + 1) - 1
    <2>1. i \in 1 .. n
      BY <1>2
    <2>2. CASE i = n
      <3>1. d[i + 1].s + 1 = on.s /\ d[i].s = on.calls[n].s
        BY <1>1, <1>7, <2>1, <2>2
      <3> QED
        BY <3>1, <1>2, <1>5, <1>6, <2>1
    <2>3. CASE i # n
      <3>1. i + 1 \in 1 .. n /\ i \in 1 .. n - 1
        BY <1>2, <2>1, <2>3
      <3> QED
        BY <3>1, <2>1, <1>5, <1>7
    <2> QED
      BY <2>2, <2>3
  <1> QED
    BY <1>4, <1>8, <1>9, <1>10, <1>11 DEF Chained, d

\* A return goes back to where the call was made.
LEMMA ChainPop ==
    ASSUME NEW t \in Tasks, NEW on \in OnType, NEW en \in OnType, Chained(on, t),
           on.calls # << >>, en.s = Last(on.calls).s + 1,
           SameCalls(en.calls, Front(on.calls))
    PROVE  Chained(en, t)
  <1> DEFINE n == Len(on.calls)
             c == on.calls
             d == en.calls
  <1>1. c \in Seq(Calls) /\ d \in Seq(Calls)
    BY DEF OnType
  <1>2. /\ n \in Nat \ {0} /\ DOMAIN c = 1 .. n
        /\ Front(c) \in Seq(Calls) /\ Len(Front(c)) = n - 1
        /\ \A i \in 1 .. n - 1 : Front(c)[i] = c[i]
        /\ Last(c) = c[n]
    BY <1>1, CallElements, FrontLast
  <1>3. /\ Len(d) = n - 1 /\ DOMAIN d = 1 .. n - 1
        /\ \A i \in 1 .. n - 1 : d[i].s = c[i].s
    BY <1>1, <1>2, CallElements DEF SameCalls
  <1>4. /\ \A i \in 1 .. n : c[i].s \in StackOf(t) /\ c[i].s + 1 \in StackOf(t)
        /\ \A i \in 1 .. n - 1 : StackResumesAt(c[i].s, c[i + 1].s + 1)
    BY <1>2 DEF Chained
  <1>7. d # << >> => n - 1 # 0
    BY <1>1, <1>3, EmptySeq
  <1> HIDE DEF n, c, d
  <1>5. en.s \in StackOf(t) /\ en.s = c[n].s + 1
    BY <1>2, <1>4 DEF c
  <1>6. \A i \in 1 .. n - 1 : d[i].s \in StackOf(t) /\ d[i].s + 1 \in StackOf(t)
    BY <1>2, <1>3, <1>4
  <1>8. d # << >> => StackResumesAt(Last(d).s, en.s)
    <2> SUFFICES ASSUME n - 1 # 0
                 PROVE  StackResumesAt(Last(d).s, en.s)
      BY <1>7
    <2>1. n - 1 \in 1 .. n - 1 /\ (n - 1) + 1 = n
      BY <1>2
    <2>2. Last(d).s = c[n - 1].s
      BY <1>3, <2>1 DEF Last
    <2>3. StackResumesAt(c[n - 1].s, c[n].s + 1)
      BY <1>4, <2>1
    <2> QED
      BY <1>5, <2>2, <2>3
  <1>9. \A i \in 1 .. (n - 1) - 1 : StackResumesAt(d[i].s, d[i + 1].s + 1)
    <2> TAKE i \in 1 .. (n - 1) - 1
    <2>1. i \in 1 .. n - 1 /\ i + 1 \in 1 .. n - 1
      BY <1>2
    <2> QED
      BY <2>1, <1>3, <1>4
  <1> QED
    BY <1>3, <1>5, <1>6, <1>8, <1>9 DEF Chained, d
-----------------------------------------------------------------------------
(* Places in a sequence, from the innermost *)

\* Pushing an element.
LEMMA InnerPush ==
    ASSUME NEW S, NEW seq \in Seq(S), NEW x \in S
    PROVE  /\ Append(seq, x) \in Seq(S) /\ Len(Append(seq, x)) = Len(seq) + 1
           /\ Inner(Append(seq, x), 0) = x
           /\ \A k \in Nat : k < Len(seq) => Inner(Append(seq, x), k + 1) = Inner(seq, k)
  <1> DEFINE e == Append(seq, x)
             n == Len(seq)
  <1>1. /\ e \in Seq(S) /\ Len(e) = n + 1 /\ n \in Nat
        /\ \A i \in 1 .. n : e[i] = seq[i]
        /\ e[n + 1] = x
    BY AppendProperties, LenProperties
  <1> HIDE DEF e, n
  <1>2. Inner(e, 0) = x
    <2>1. (n + 1) - 0 = n + 1
      BY <1>1
    <2> QED
      BY <1>1, <2>1 DEF Inner
  <1>3. ASSUME NEW k \in Nat, k < n
        PROVE  Inner(e, k + 1) = seq[n - k]
    <2>1. (n + 1) - (k + 1) = n - k /\ n - k \in 1 .. n
      BY <1>1, <1>3
    <2> QED
      BY <1>1, <2>1 DEF Inner
  <1> QED
    BY <1>1, <1>2, <1>3 DEF e, n, Inner

\* Pushing an element on a stack with a cap.
LEMMA InnerPushesCapped ==
    ASSUME NEW S, NEW seq \in Seq(S), NEW x \in S, Len(seq) <= CallstackCap
    PROVE  /\ PushCapped(seq, x) \in Seq(S)
           /\ Len(PushCapped(seq, x)) = IF Len(seq) = CallstackCap THEN Len(seq) ELSE Len(seq) + 1
           /\ Inner(PushCapped(seq, x), 0) = x
           /\ \A k \in Nat : k + 1 < Len(PushCapped(seq, x)) =>
                 Inner(PushCapped(seq, x), k + 1) = Inner(seq, k)
  <1> DEFINE e == PushCapped(seq, x)
             n == Len(e)
  <1>1. /\ e \in Seq(S)
        /\ n = IF Len(seq) = CallstackCap THEN Len(seq) ELSE Len(seq) + 1
        /\ e[n] = x
        /\ \A k \in 1 .. n - 1 : e[n - k] = seq[Len(seq) - (k - 1)]
    <2>1. e \in Seq(S)
      BY PushesCapped
    <2>3. n = IF Len(seq) = CallstackCap THEN Len(seq) ELSE Len(seq) + 1
      BY PushesCapped
    <2>4. e[n] = x
      BY PushesCapped
    <2>5. \A k \in 1 .. n - 1 : e[n - k] = seq[Len(seq) - (k - 1)]
      BY PushesCapped
    <2> QED
      BY <2>1, <2>3, <2>4, <2>5
  <1> HIDE DEF e, n
  <1>2. n \in Nat /\ n - 0 = n
    BY <1>1, LenProperties DEF n
  <1>3. ASSUME NEW k \in Nat, k + 1 < n
        PROVE  e[n - (k + 1)] = seq[Len(seq) - k]
    <2>1. k + 1 \in 1 .. n - 1 /\ (k + 1) - 1 = k
      BY <1>2, <1>3
    <2> QED
      BY <1>1, <2>1
  <1> QED
    BY <1>1, <1>2, <1>3 DEF e, n, Inner

\* The same, for a stack that the element was pushed on.
LEMMA InnerPushCapped ==
    ASSUME NEW S, NEW seq \in Seq(S), NEW x \in S, Len(seq) <= CallstackCap,
           NEW e, e = PushCapped(seq, x)
    PROVE  /\ e \in Seq(S)
           /\ Len(e) = IF Len(seq) = CallstackCap THEN Len(seq) ELSE Len(seq) + 1
           /\ Inner(e, 0) = x
           /\ \A k \in Nat : k + 1 < Len(e) => Inner(e, k + 1) = Inner(seq, k)
  BY InnerPushesCapped, Zenon

\* Popping an element.
LEMMA InnerPop ==
    ASSUME NEW S, NEW seq \in Seq(S), seq # << >>
    PROVE  /\ Front(seq) \in Seq(S) /\ Len(Front(seq)) = Len(seq) - 1
           /\ Len(seq) \in Nat \ {0}
           /\ Last(seq) = Inner(seq, 0) /\ Last(seq) \in S
           /\ \A k \in Nat : k < Len(seq) - 1 => Inner(Front(seq), k) = Inner(seq, k + 1)
  <1> DEFINE e == Front(seq)
             n == Len(seq)
  <1>1. /\ e \in Seq(S) /\ Len(e) = n - 1 /\ n \in Nat \ {0}
        /\ \A i \in 1 .. n - 1 : e[i] = seq[i]
        /\ Last(seq) = seq[n] /\ Last(seq) \in S
    BY FrontLast
  <1> HIDE DEF e, n
  <1>2. n - 0 = n
    BY <1>1
  <1>3. ASSUME NEW k \in Nat, k < n - 1
        PROVE  e[Len(e) - k] = seq[n - (k + 1)]
    <2>1. Len(e) - k = n - (k + 1) /\ n - (k + 1) \in 1 .. n - 1
      BY <1>1, <1>3
    <2> QED
      BY <1>1, <2>1
  <1> QED
    BY <1>1, <1>2, <1>3 DEF e, n, Inner

\* The place of an element from both ends.
LEMMA Places ==
    ASSUME NEW n \in Nat
    PROVE  /\ \A k \in Nat : k < n => n - k \in 1 .. n
           /\ \A i \in 1 .. n : n - i \in Nat /\ n - i < n /\ n - (n - i) = i
  OBVIOUS


\* The running task goes on for a cycle, the others stand still.
LEMMA RunsFields ==
    ASSUME NEW on \in [Tasks -> OnType], NEW cur \in Tasks
    PROVE  LET en == [on EXCEPT ![cur].calls = Ran(@)]
           IN /\ en \in [Tasks -> OnType]
              /\ en[cur].s = on[cur].s /\ en[cur].calls = Ran(on[cur].calls)
              /\ \A t \in Tasks : t # cur => en[t] = on[t]
              /\ \A t \in Tasks : en[t].s = on[t].s /\ SameCalls(en[t].calls, on[t].calls)
  <1> DEFINE en == [on EXCEPT ![cur].calls = Ran(@)]
  <1>1. on[cur].calls \in Seq(Calls)
    BY DEF OnType
  <1>2. Ran(on[cur].calls) \in Seq(Calls) /\ SameCalls(Ran(on[cur].calls), on[cur].calls)
    BY <1>1, RanFields
  <1>3. [on[cur] EXCEPT !.calls = Ran(on[cur].calls)] \in OnType
    BY <1>2 DEF OnType
  <1>4. en[cur] = [on[cur] EXCEPT !.calls = Ran(on[cur].calls)] /\ \A t \in Tasks : t # cur => en[t] = on[t]
    OBVIOUS
  <1>5. en \in [Tasks -> OnType]
    BY <1>3
  <1>6. en[cur].s = on[cur].s /\ en[cur].calls = Ran(on[cur].calls)
    BY <1>4 DEF OnType
  <1>7. \A t \in Tasks : SameCalls(on[t].calls, on[t].calls)
    BY DEF SameCalls
  <1> HIDE DEF en
  <1>8. \A t \in Tasks : en[t].s = on[t].s /\ SameCalls(en[t].calls, on[t].calls)
    <2> TAKE t \in Tasks
    <2>1. CASE t = cur
      BY <2>1, <1>2, <1>6
    <2>2. CASE t # cur
      BY <2>2, <1>4, <1>7
    <2> QED
      BY <2>1, <2>2
  <1> QED
    BY <1>4, <1>5, <1>6, <1>8 DEF en

\* A dropped stack is forgotten by its S.
LEMMA ForgetFields ==
    ASSUME NEW on \in [Tasks -> OnType], NEW s, NEW t \in Tasks
    PROVE  LET en == ForgetDropped(on, s)
           IN /\ en[t] \in OnType /\ en[t].s = on[t].s
              /\ SameTimes(en[t].calls, on[t].calls)
              /\ \A i \in 1 .. Len(on[t].calls) :
                    en[t].calls[i].tracked <=>
                       on[t].calls[i].tracked /\ on[t].calls[i].s \notin Dropped(s)
  <1> DEFINE en == ForgetDropped(on, s)
             c == on[t].calls
             d == [i \in DOMAIN c |-> [c[i] EXCEPT !.tracked = @ /\ c[i].s \notin Dropped(s)]]
             lost == {i \in 1 .. Len(c) : c[i].s \in Dropped(s)}
  <1>1. en \in [Tasks -> OnType] /\ on[t] \in OnType
    BY Forgets
  <1>2. c \in Seq(Calls) /\ en[t] \in OnType /\ en[t].calls \in Seq(Calls)
    BY <1>1 DEF OnType
  <1>3. en[t] = [on[t] EXCEPT !.calls = d]
    BY DEF ForgetDropped
  <1>4. en[t].s = on[t].s /\ en[t].calls = d
    BY <1>1, <1>3 DEF OnType
  <1>5. d \in Seq(Calls) /\ DOMAIN d = DOMAIN c /\ DOMAIN c = 1 .. Len(c)
    BY <1>2, <1>4, CallElements
  <1>6. ASSUME NEW i \in 1 .. Len(c)
        PROVE  \E v \in BOOLEAN : /\ d[i] = [c[i] EXCEPT !.tracked = v]
                                  /\ v <=> c[i].tracked /\ i \notin lost
    <2> DEFINE v == c[i].tracked /\ c[i].s \notin Dropped(s)
    <2>1. d[i] = [c[i] EXCEPT !.tracked = v]
      BY <1>5
    <2>2. v <=> c[i].tracked /\ i \notin lost
      OBVIOUS
    <2>3. v \in BOOLEAN
      OBVIOUS
    <2> HIDE DEF v
    <2> QED
      BY <2>1, <2>2, <2>3
  <1>7. \A i \in 1 .. Len(c) : i \notin lost <=> c[i].s \notin Dropped(s)
    OBVIOUS
  <1> HIDE DEF en, c, d, lost
  <1>8. /\ SameTimes(d, c)
        /\ \A i \in 1 .. Len(c) : d[i].tracked <=> c[i].tracked /\ i \notin lost
    BY <1>2, <1>5, <1>6, LosesFields
  <1> QED
    BY <1>2, <1>4, <1>7, <1>8 DEF en, c

\* What becomes of a call that falls out of the shadow stack at its cap.
BeforeCall ==
    [i \in DOMAIN Running.calls |-> [Running.calls[i] EXCEPT !.tracked = @ /\ ~Overflows(i)]]

\* The calls around a new one.
LEMMA BeforeFields ==
    ASSUME Running \in OnType
    PROVE  /\ BeforeCall \in Seq(Calls) /\ SameTimes(BeforeCall, Running.calls)
           /\ \A i \in 1 .. Len(Running.calls) :
                 BeforeCall[i].tracked <=> Running.calls[i].tracked /\ ~Overflows(i)
  <1> DEFINE c == Running.calls
             d == BeforeCall
             lost == {i \in 1 .. Len(c) : Overflows(i)}
  <1>1. c \in Seq(Calls) /\ DOMAIN c = 1 .. Len(c)
    BY CallElements DEF OnType
  <1>2. DOMAIN d = DOMAIN c
    BY DEF BeforeCall
  <1>3. ASSUME NEW i \in 1 .. Len(c)
        PROVE  \E v \in BOOLEAN : /\ d[i] = [c[i] EXCEPT !.tracked = v]
                                  /\ v <=> c[i].tracked /\ i \notin lost
    <2> DEFINE v == c[i].tracked /\ ~Overflows(i)
    <2>1. d[i] = [c[i] EXCEPT !.tracked = v]
      BY <1>1 DEF BeforeCall
    <2>2. v <=> c[i].tracked /\ i \notin lost
      OBVIOUS
    <2>3. v \in BOOLEAN
      OBVIOUS
    <2> HIDE DEF v
    <2> QED
      BY <2>1, <2>2, <2>3
  <1>4. d \in Seq(Calls)
    <2>1. d = [i \in DOMAIN c |-> d[i]]
      BY DEF BeforeCall
    <2>2. ASSUME NEW i \in 1 .. Len(c), c[i] \in Calls
          PROVE  d[i] \in Calls
      <3>1. PICK v \in BOOLEAN : d[i] = [c[i] EXCEPT !.tracked = v]
        BY <1>3
      <3> QED
        BY <2>2, <3>1, CallFields
    <2> HIDE DEF c, d
    <2> QED
      BY <1>1, <2>1, <2>2, MapsCalls
  <1>5. \A i \in 1 .. Len(c) : i \notin lost <=> ~Overflows(i)
    OBVIOUS
  <1> HIDE DEF c, d, lost
  <1>6. /\ SameTimes(d, c)
        /\ \A i \in 1 .. Len(c) : d[i].tracked <=> c[i].tracked /\ i \notin lost
    BY <1>1, <1>2, <1>3, <1>4, LosesFields
  <1> QED
    BY <1>4, <1>5, <1>6 DEF c, d

\* What a call does to the running task, and to the others nothing.
LEMMA CallTask ==
    ASSUME IInv, ChainInv, NEW f \in Targets, Call(f)
    PROVE  LET s == Running.s - 1
               x == Made(f, s)
               en == task'.on[task.cur]
           IN /\ task'.cur = task.cur /\ task.cur \in Tasks
              /\ Running \in OnType /\ s \in StackOf(task.cur)
              /\ x \in Calls /\ x.s = s /\ x.target = f /\ x.tracked
              /\ (x.timed <=> profile.active) /\ x.incl = 0 /\ x.own = 0
              /\ en.s = s /\ en.calls = Ran(Append(BeforeCall, x))
              /\ \A t \in Tasks : t # task.cur => task'.on[t] = task.on[t]
  <1> DEFINE s == Running.s - 1
             x == Made(f, s)
  <1>0. task \in TaskType /\ task.cur \in Tasks /\ Running \in OnType /\ task.on \in [Tasks -> OnType]
    BY DEF IInv, TaskInv, TaskType, OnType, Running
  <1>1. /\ s >= StackBase[task.cur] - StackDepth
        /\ task' = [task EXCEPT !.on[task.cur] = [s |-> s, calls |-> Ran(Append(BeforeCall, x))]]
    BY DEF Call, BeforeCall
  <1>2. Running.s \in Nat /\ profile.active \in BOOLEAN
    BY <1>0 DEF OnType, IInv, StatsInv
  <1>3. s \in Nat /\ s \in StackOf(task.cur)
    <2>1. StackBase[task.cur] \in Nat /\ StackDepth \in Nat /\ StackBase[task.cur] >= StackDepth
      BY <1>0, OnStack
    <2>2. Running.s <= StackBase[task.cur]
      BY <1>0, OnStack DEF ChainInv, Chained, Running
    <2> QED
      BY <1>1, <1>2, <2>1, <2>2 DEF StackOf
  <1>4. /\ x = [target |-> f, s |-> s, tracked |-> TRUE, timed |-> profile.active,
                incl |-> 0, own |-> 0]
    BY DEF Made
  <1> HIDE DEF s, x
  <1>5. /\ x \in Calls /\ x.s = s /\ x.target = f /\ x.tracked
        /\ (x.timed <=> profile.active) /\ x.incl = 0 /\ x.own = 0
    BY <1>2, <1>3, <1>4 DEF Calls
  <1>6. /\ task'.cur = task.cur
        /\ task'.on[task.cur] = [s |-> s, calls |-> Ran(Append(BeforeCall, x))]
        /\ \A t \in Tasks : t # task.cur => task'.on[t] = task.on[t]
    BY <1>0, <1>1 DEF TaskType
  <1> QED
    BY <1>0, <1>3, <1>5, <1>6 DEF s, x

\* A task is where it should be: nothing but its calls' records changed.
LEMMA ChainsRun ==
    ASSUME NEW on \in [Tasks -> OnType], NEW cur \in Tasks,
           \A t \in Tasks : Chained(on[t], t)
    PROVE  LET en == [on EXCEPT ![cur].calls = Ran(@)]
           IN en \in [Tasks -> OnType] /\ \A t \in Tasks : Chained(en[t], t)
  <1> DEFINE en == [on EXCEPT ![cur].calls = Ran(@)]
  <1>1. /\ en \in [Tasks -> OnType]
        /\ \A t \in Tasks : en[t].s = on[t].s /\ SameCalls(en[t].calls, on[t].calls)
    BY RunsFields
  <1> HIDE DEF en
  <1>2. ASSUME NEW t \in Tasks
        PROVE  Chained(en[t], t)
    <2>1. on[t] \in OnType /\ en[t] \in OnType
      BY <1>1
    <2> QED
      BY <1>1, <2>1, SameChain
  <1> QED
    BY <1>1, <1>2 DEF en

\* The same when a dropped stack is forgotten.
LEMMA ChainsForget ==
    ASSUME NEW on \in [Tasks -> OnType], NEW s, \A t \in Tasks : Chained(on[t], t)
    PROVE  LET en == ForgetDropped(on, s)
           IN en \in [Tasks -> OnType] /\ \A t \in Tasks : Chained(en[t], t)
  <1> DEFINE en == ForgetDropped(on, s)
  <1>1. en \in [Tasks -> OnType]
    BY Forgets
  <1>2. \A t \in Tasks : en[t].s = on[t].s /\ SameCalls(en[t].calls, on[t].calls)
    BY ForgetFields DEF SameTimes
  <1> HIDE DEF en
  <1>3. ASSUME NEW t \in Tasks
        PROVE  Chained(en[t], t)
    <2>1. on[t] \in OnType /\ en[t] \in OnType
      BY <1>1
    <2> QED
      BY <1>2, <2>1, SameChain
  <1> QED
    BY <1>1, <1>3 DEF en

\* A switch, or the absence of one, leaves every task on its stack.
LEMMA ChainsSwitch ==
    ASSUME NEW on \in [Tasks -> OnType], NEW cur \in Tasks, NEW s,
           \A t \in Tasks : Chained(on[t], t), SwitchShadowStack(s, cur, on)
    PROVE  \A t \in Tasks : Chained(task'.on[t], t)
  <1>1. CASE ~hook.armed \/ NoSwitch(s)
    <2>1. task' = [cur |-> cur, on |-> [on EXCEPT ![cur].calls = Ran(@)]]
      BY <1>1 DEF SwitchShadowStack
    <2>2. task'.on = [on EXCEPT ![cur].calls = Ran(@)]
      BY <2>1
    <2> QED
      BY <2>2, ChainsRun
  <1>2. CASE ~(~hook.armed \/ NoSwitch(s))
    <2> DEFINE en == ForgetDropped(on, s)
    <2>1. task' = [cur |-> cur, on |-> [en EXCEPT ![cur].calls = Ran(@)]]
      BY <1>2 DEF SwitchShadowStack
    <2>2. en \in [Tasks -> OnType] /\ \A t \in Tasks : Chained(en[t], t)
      BY ChainsForget
    <2>3. task'.on = [en EXCEPT ![cur].calls = Ran(@)]
      BY <2>1
    <2> HIDE DEF en
    <2> QED
      BY <2>2, <2>3, ChainsRun
  <1> QED
    BY <1>1, <1>2

\* S moves on the stack of the running task, within the slack.
LEMMA ChainMoves ==
    ASSUME NEW t \in Tasks, NEW on \in OnType, Chained(on, t),
           NEW s \in Reach(on, StackBase[t])
    PROVE  /\ s \in StackOf(t) /\ s \in Nat
           /\ on.calls # << >> => StackResumesAt(Last(on.calls).s, s)
           /\ [on EXCEPT !.s = s] \in OnType /\ [on EXCEPT !.s = s].calls = on.calls
           /\ Chained([on EXCEPT !.s = s], t)
  <1> DEFINE en == [on EXCEPT !.s = s]
             top == IF on.calls = << >> THEN StackBase[t] ELSE Last(on.calls).s
  <1>1. s \in StackOf(t) /\ s <= top /\ top - s <= Slack
    BY DEF Reach, StackOf
  <1>2. s \in Nat
    BY <1>1, OnStack
  <1>3. en \in OnType /\ en.calls = on.calls /\ en.s = s
    BY <1>2 DEF OnType
  <1>4. on.calls # << >> => StackResumesAt(Last(on.calls).s, s)
    <2> SUFFICES ASSUME on.calls # << >>
                 PROVE  StackResumesAt(Last(on.calls).s, s)
      OBVIOUS
    <2>0. on.calls \in Seq(Calls)
      BY DEF OnType
    <2>1. Last(on.calls) \in Calls
      BY <2>0, FrontLast
    <2>2. Last(on.calls).s \in Nat
      BY <2>1 DEF Calls
    <2> QED
      BY <1>1, <1>2, <2>2 DEF StackResumesAt
  <1> HIDE DEF en
  <1>5. Chained(en, t)
    BY <1>1, <1>3, <1>4 DEF Chained
  <1> QED
    BY <1>1, <1>2, <1>3, <1>4, <1>5 DEF en

\* What a return does to the running task, and to the others nothing.
LEMMA ReturnTask ==
    ASSUME IInv, ChainInv, Return
    PROVE  LET en == task'.on[task.cur]
           IN /\ task'.cur = task.cur /\ task.cur \in Tasks
              /\ Running \in OnType /\ Running.calls # << >>
              /\ en.s = Last(Running.calls).s + 1 /\ en.calls = Ran(Front(Running.calls))
              /\ \A t \in Tasks : t # task.cur => task'.on[t] = task.on[t]
  <1>1. task \in TaskType /\ task.cur \in Tasks /\ Running \in OnType
    BY DEF IInv, TaskInv, TaskType, OnType, Running
  <1>2. /\ Running.calls # << >>
        /\ task' = [task EXCEPT !.on[task.cur] =
                      [s |-> Last(Running.calls).s + 1, calls |-> Ran(Front(Running.calls))]]
    BY DEF Return
  <1>3. /\ task'.cur = task.cur
        /\ task'.on[task.cur] =
              [s |-> Last(Running.calls).s + 1, calls |-> Ran(Front(Running.calls))]
        /\ \A t \in Tasks : t # task.cur => task'.on[t] = task.on[t]
    BY <1>1, <1>2 DEF TaskType
  <1> QED
    BY <1>1, <1>2, <1>3

\* The library, or the profiler, forgets all calls.
LEMMA AllFields ==
    ASSUME task \in TaskType, NEW t \in Tasks
    PROVE  /\ AllUntracked[t].s = task.on[t].s
           /\ AllUntracked[t].calls = Untracked(task.on[t].calls)
           /\ AllUntimed[t].s = task.on[t].s
           /\ AllUntimed[t].calls = Untimed(task.on[t].calls)
           /\ [task EXCEPT !.on = AllUntracked].on = AllUntracked
           /\ [task EXCEPT !.on = AllUntimed].on = AllUntimed
           /\ [task EXCEPT !.on = AllUntracked].cur = task.cur
           /\ [task EXCEPT !.on = AllUntimed].cur = task.cur
  <1>1. task.on[t] \in OnType
    BY DEF TaskType
  <1>2. /\ AllUntracked[t] = [task.on[t] EXCEPT !.calls = Untracked(@)]
        /\ AllUntimed[t] = [task.on[t] EXCEPT !.calls = Untimed(@)]
    BY DEF AllUntracked, AllUntimed
  <1>3. /\ AllUntracked[t].s = task.on[t].s
        /\ AllUntracked[t].calls = Untracked(task.on[t].calls)
        /\ AllUntimed[t].s = task.on[t].s
        /\ AllUntimed[t].calls = Untimed(task.on[t].calls)
    BY <1>1, <1>2 DEF OnType
  <1>4. /\ [task EXCEPT !.on = AllUntracked].on = AllUntracked
        /\ [task EXCEPT !.on = AllUntimed].on = AllUntimed
        /\ [task EXCEPT !.on = AllUntracked].cur = task.cur
        /\ [task EXCEPT !.on = AllUntimed].cur = task.cur
    BY DEF TaskType
  <1> QED
    BY <1>3, <1>4

\* Tasks stay on their stacks, with their calls chained.
LEMMA ChainKeeps ==
    ASSUME IInv, ChainInv, [Next]_vars
    PROVE  ChainInv'
  <1>0. /\ task \in TaskType /\ task.cur \in Tasks /\ task.on \in [Tasks -> OnType]
        /\ task.on[task.cur] = Running /\ Running \in OnType
        /\ \A t \in Tasks : Chained(task.on[t], t) /\ task.on[t] \in OnType
    BY DEF IInv, TaskInv, TaskType, OnType, Running, ChainInv
  <1>t. task' \in TaskType /\ \A t \in Tasks : task'.on[t] \in OnType
    BY TaskKeeps DEF TaskInv, TaskType, OnType
  <1>00. SUFFICES \A t \in Tasks : Chained(task'.on[t], t)
    BY DEF ChainInv
  <1>1. CASE task' = task
    BY <1>0, <1>1
  <1>2. CASE Tick
    <2>1. task' = [task EXCEPT !.on[task.cur].calls = Ran(@)]
      BY <1>2 DEF Tick
    <2>2. task'.on = [task.on EXCEPT ![task.cur].calls = Ran(@)]
      BY <1>0, <2>1 DEF TaskType
    <2> QED
      BY <1>0, <2>2, ChainsRun
  <1>3. ASSUME NEW u \in Tasks, StepOverSwitch(u)
        PROVE  \A t \in Tasks : Chained(task'.on[t], t)
    <2>1. task' = [cur |-> u, on |-> [task.on EXCEPT ![u].calls = Ran(@)]]
      BY <1>3 DEF StepOverSwitch
    <2>2. task'.on = [task.on EXCEPT ![u].calls = Ran(@)]
      BY <2>1
    <2> QED
      BY <1>0, <2>2, ChainsRun
  <1>4. ASSUME NEW f \in Targets, Call(f)
        PROVE  \A t \in Tasks : Chained(task'.on[t], t)
    <2> DEFINE x == Made(f, Running.s - 1)
               en == task'.on[task.cur]
    <2>1. /\ x \in Calls /\ x.s = Running.s - 1 /\ x.s \in StackOf(task.cur)
          /\ en.s = x.s /\ en.calls = Ran(Append(BeforeCall, x))
          /\ \A t \in Tasks : t # task.cur => task'.on[t] = task.on[t]
      BY <1>4, CallTask
    <2> HIDE DEF x
    <2>2. BeforeCall \in Seq(Calls) /\ SameCalls(BeforeCall, Running.calls)
      BY <1>0, BeforeFields DEF SameTimes
    <2>3. Append(BeforeCall, x) \in Seq(Calls)
      BY <2>1, <2>2, AppendProperties
    <2>4. SameCalls(en.calls, Append(BeforeCall, x))
      BY <2>1, <2>3, RanFields
    <2>5. en \in OnType /\ Chained(Running, task.cur)
      BY <1>0, <1>t
    <2> HIDE DEF en
    <2>6. Chained(en, task.cur)
      BY <1>0, <2>1, <2>2, <2>4, <2>5, ChainPush
    <2> QED
      BY <1>0, <2>1, <2>6 DEF en
  <1>5. CASE Return
    <2> DEFINE en == task'.on[task.cur]
    <2>1. /\ en.s = Last(Running.calls).s + 1 /\ en.calls = Ran(Front(Running.calls))
          /\ Running.calls # << >>
          /\ \A t \in Tasks : t # task.cur => task'.on[t] = task.on[t]
      BY <1>5, ReturnTask
    <2>2. Front(Running.calls) \in Seq(Calls)
      BY <1>0, <2>1, FrontLast DEF OnType
    <2>3. SameCalls(en.calls, Front(Running.calls))
      BY <2>1, <2>2, RanFields
    <2>4. en \in OnType /\ Chained(Running, task.cur)
      BY <1>0, <1>t
    <2> HIDE DEF en
    <2>5. Chained(en, task.cur)
      BY <1>0, <2>1, <2>3, <2>4, ChainPop
    <2> QED
      BY <1>0, <2>1, <2>5 DEF en
  <1>6. ASSUME NEW s, LocalFrame(s)
        PROVE  \A t \in Tasks : Chained(task'.on[t], t)
    <2> DEFINE on == [task.on EXCEPT ![task.cur].s = s]
               r == [Running EXCEPT !.s = s]
    <2>1. s \in Reach(Running, StackBase[task.cur]) /\ SwitchShadowStack(s, task.cur, on)
      BY <1>6 DEF LocalFrame
    <2>2. r \in OnType /\ Chained(r, task.cur)
      BY <1>0, <2>1, ChainMoves
    <2>3. on[task.cur] = r /\ \A t \in Tasks : t # task.cur => on[t] = task.on[t]
      BY <1>0
    <2>4. on \in [Tasks -> OnType]
      BY <1>0, <2>2
    <2> HIDE DEF on, r
    <2>5. \A t \in Tasks : Chained(on[t], t)
      BY <1>0, <2>2, <2>3
    <2> QED
      BY <1>0, <2>1, <2>4, <2>5, ChainsSwitch
  <1>7. ASSUME NEW u \in Tasks, Switch(u)
        PROVE  \A t \in Tasks : Chained(task'.on[t], t)
    <2>1. SwitchShadowStack(task.on[u].s, u, task.on)
      BY <1>7 DEF Switch
    <2> QED
      BY <1>0, <2>1, ChainsSwitch
  <1>8. CASE \/ task' = [task EXCEPT !.on = AllUntracked]
             \/ task' = [task EXCEPT !.on = AllUntimed]
    <2> TAKE t \in Tasks
    <2>0. task.on[t].calls \in Seq(Calls)
      BY <1>0 DEF OnType
    <2>1. CASE task' = [task EXCEPT !.on = AllUntracked]
      <3>1. task'.on[t].s = task.on[t].s /\ task'.on[t].calls = Untracked(task.on[t].calls)
        BY <1>0, <2>1, AllFields
      <3>2. SameCalls(task'.on[t].calls, task.on[t].calls)
        BY <2>0, <3>1, ForgottenFields DEF SameTimes
      <3> QED
        BY <1>0, <1>t, <3>1, <3>2, SameChain
    <2>2. CASE task' = [task EXCEPT !.on = AllUntimed]
      <3>1. task'.on[t].s = task.on[t].s /\ task'.on[t].calls = Untimed(task.on[t].calls)
        BY <1>0, <2>2, AllFields
      <3>2. SameCalls(task'.on[t].calls, task.on[t].calls)
        BY <2>0, <3>1, ForgottenFields
      <3> QED
        BY <1>0, <1>t, <3>1, <3>2, SameChain
    <2> QED
      BY <1>8, <2>1, <2>2
  <1>9. CASE task' = Booted
    <2> TAKE t \in Tasks
    <2>1. task'.on[t] = [s |-> StackBase[t], calls |-> << >>]
      BY <1>9 DEF Booted
    <2>2. StackBase[t] \in StackOf(t)
      BY OnStack DEF StackOf
    <2>3. task'.on[t].calls = << >> /\ task'.on[t].s = StackBase[t]
      BY <2>1
    <2>4. DOMAIN << >> = {} /\ 1 .. Len(<< >>) - 1 = {}
      BY EmptySeq
    <2> QED
      BY <2>2, <2>3, <2>4 DEF Chained
  <1> QED
    BY <1>1, <1>2, <1>3, <1>4, <1>5, <1>6, <1>7, <1>8, <1>9
       DEF Next, Program, Host, Frame, CallstackClear, LoadState, Reset, ProfileStart,
           ProfileStop, ProfileReset, ClearProfileFrames, AddCallback, RemoveCallback,
           TimelineStart, TimelineStop, vars

\* The exec hook is armed as long as anyone needs it.
LEMMA HookDueKeeps ==
    ASSUME IInv, HookDueInv, [Next]_vars
    PROVE  HookDueInv'
  <1>0. /\ hook \in [armed : BOOLEAN, callbacks : BOOLEAN] /\ profile.active \in BOOLEAN
        /\ profile \in ProfileType
        /\ hook.armed <=> hook.callbacks \/ profile.active
    BY DEF IInv, RestInv, StatsInv, ProfileType, HookDueInv, HookDue
  <1>00. SUFFICES hook'.armed <=> hook'.callbacks \/ profile'.active
    BY DEF HookDueInv, HookDue
  <1>1. CASE hook' = hook /\ profile' = profile
    BY <1>0, <1>1
  <1>2. CASE Return
    <2>1. /\ hook' = hook
          /\ profile' = profile \/ profile' = [profile EXCEPT !.stats = StatsOnReturn]
      BY <1>2 DEF Return, ReturnNowhere
    <2>2. profile'.active = profile.active
      BY <1>0, <2>1 DEF ProfileType
    <2> QED
      BY <1>0, <2>1, <2>2
  <1>3. ASSUME NEW filter, ProfileStart(filter)
        PROVE  hook'.armed <=> hook'.callbacks \/ profile'.active
    <2>1. profile'.active /\ hook' = [hook EXCEPT !.armed = TRUE]
      BY <1>3 DEF ProfileStart
    <2> QED
      BY <1>0, <2>1
  <1>4. CASE ProfileStop
    <2>1. profile' = [profile EXCEPT !.active = FALSE] /\ hook' = [hook EXCEPT !.armed = hook.callbacks]
      BY <1>4 DEF ProfileStop
    <2>2. ~profile'.active
      BY <1>0, <2>1 DEF ProfileType
    <2>3. hook'.armed = hook.callbacks /\ hook'.callbacks = hook.callbacks
      BY <1>0, <2>1
    <2> QED
      BY <1>0, <2>2, <2>3
  <1>5. CASE ProfileReset
    <2>1. profile' = [profile EXCEPT !.stats = NoStats] /\ hook' = hook
      BY <1>5 DEF ProfileReset
    <2>2. profile'.active = profile.active
      BY <1>0, <2>1 DEF ProfileType
    <2> QED
      BY <1>0, <2>1, <2>2
  <1>6. CASE AddCallback
    BY <1>6 DEF AddCallback
  <1>7. CASE RemoveCallback
    BY <1>0, <1>7 DEF RemoveCallback, Disarmed
  <1> QED
    BY <1>1, <1>2, <1>3, <1>4, <1>5, <1>6, <1>7
       DEF Next, Program, Host, Tick, Frame, Call, LocalFrame, Switch, StepOverSwitch,
           CallstackClear, LoadState, Reset, TimelineStart, TimelineStop, vars

-----------------------------------------------------------------------------
(* A shadow stack and the calls it shows *)

ShadowType(st) ==
    /\ st.calls \in Seq(Targets) /\ st.calls_s \in Seq(Nat)
    /\ Len(st.calls_s) = Len(st.calls)
    /\ st.prof \in Seq(ProfFrames)

\* The k-th call from the innermost is one of the calls.
LEMMA InnerCall ==
    ASSUME NEW c \in Seq(Calls)
    PROVE  /\ Len(c) \in Nat
           /\ \A k \in Nat : k < Len(c) =>
                /\ Len(c) - k \in 1 .. Len(c)
                /\ Inner(c, k) \in Calls
                /\ Inner(c, k).incl \in Nat /\ Inner(c, k).own \in Nat
                /\ Inner(c, k).s \in Nat /\ Inner(c, k).target \in Targets
  <1>1. /\ Len(c) \in Nat
        /\ \A i \in 1 .. Len(c) : /\ c[i] \in Calls
                                  /\ c[i].incl \in Nat /\ c[i].own \in Nat /\ c[i].s \in Nat
                                  /\ c[i].target \in Targets
    BY CallElements
  <1>2. ASSUME NEW k \in Nat, k < Len(c)
        PROVE  Len(c) - k \in 1 .. Len(c)
    BY <1>1, <1>2, Places
  <1> QED
    BY <1>1, <1>2 DEF Inner

\* The k-th frame from the innermost is one of the frames.
LEMMA InnerFrame ==
    ASSUME NEW prof \in Seq(ProfFrames)
    PROVE  /\ Len(prof) \in Nat
           /\ \A k \in Nat : k < Len(prof) =>
                /\ Inner(prof, k) \in ProfFrames
                /\ Inner(prof, k).push \in Nat /\ Inner(prof, k).child \in Nat
  <1>1. Len(prof) \in Nat /\ \A i \in 1 .. Len(prof) : prof[i] \in ProfFrames
    BY LenProperties, ElementOfSeq
  <1>2. ASSUME NEW k \in Nat, k < Len(prof)
        PROVE  Len(prof) - k \in 1 .. Len(prof)
    BY <1>1, <1>2, Places
  <1>3. \A fr \in ProfFrames : fr.push \in Nat /\ fr.child \in Nat
    BY DEF ProfFrames
  <1> QED
    BY <1>1, <1>2, <1>3 DEF Inner

\* A shadow stack mirrors whatever shows the same calls.
LEMMA MirrorsSame ==
    ASSUME NEW st, NEW c \in Seq(Calls), NEW d \in Seq(Calls), NEW t, NEW filter,
           Len(st.calls) \in Nat,
           Mirrors(st, c, t, filter), SameTimes(d, c), SameTracks(d, c)
    PROVE  Mirrors(st, d, t, filter)
  <1> DEFINE n == Len(st.calls)
             m == Len(c)
  <1>1. Len(d) = m /\ m \in Nat /\ n <= m
    BY CallElements DEF SameTimes, SameCalls, Mirrors
  <1>2. ASSUME NEW k \in Nat, k < m
        PROVE  /\ Inner(d, k).s = Inner(c, k).s /\ Inner(d, k).target = Inner(c, k).target
               /\ Inner(d, k).incl = Inner(c, k).incl /\ Inner(d, k).own = Inner(c, k).own
               /\ (Inner(d, k).timed <=> Inner(c, k).timed)
               /\ (Inner(d, k).tracked <=> Inner(c, k).tracked)
    <2>1. m - k \in 1 .. m
      BY <1>1, <1>2, Places
    <2> QED
      BY <1>1, <2>1 DEF SameTimes, SameCalls, SameTracks, Inner
  <1>3. \A k \in Nat : k < m => (Inner(c, k).tracked <=> k < n)
    BY DEF Mirrors
  <1>4. ASSUME NEW k \in Nat, k < n
        PROVE  /\ Inner(st.calls, k) = Inner(c, k).target
               /\ Inner(st.calls_s, k) = Inner(c, k).s
               /\ Inner(c, k).timed <=> k < Len(st.prof)
               /\ k < Len(st.prof) => Times(Inner(st.prof, k), c, k, t, filter)
    BY <1>4 DEF Mirrors
  <1> HIDE DEF n, m
  <1>5. \A k \in Nat : k < m => (Inner(d, k).tracked <=> k < n)
    BY <1>2, <1>3
  <1>6. ASSUME NEW k \in Nat, k < n
        PROVE  /\ Inner(st.calls, k) = Inner(d, k).target
               /\ Inner(st.calls_s, k) = Inner(d, k).s
               /\ Inner(d, k).timed <=> k < Len(st.prof)
               /\ k < Len(st.prof) => Times(Inner(st.prof, k), d, k, t, filter)
    <2>1. k < m
      BY <1>1, <1>6 DEF n
    <2>2. k # 0 => k - 1 \in Nat /\ k - 1 < m
      BY <1>1, <2>1
    <2>3. k < Len(st.prof) => Times(Inner(st.prof, k), d, k, t, filter)
      BY <1>2, <1>4, <1>6, <2>1, <2>2 DEF Times
    <2> QED
      BY <1>2, <1>4, <1>6, <2>1, <2>3
  <1> QED
    BY <1>1, <1>5, <1>6 DEF Mirrors, n, m

\* A cycle runs.
LEMMA MirrorsRan ==
    ASSUME NEW st, NEW c \in Seq(Calls), NEW t \in Nat, NEW filter,
           Len(st.calls) \in Nat, st.prof \in Seq(ProfFrames), Mirrors(st, c, t, filter)
    PROVE  Mirrors(st, Ran(c), t + 1, filter)
  <1> DEFINE n == Len(st.calls)
             m == Len(c)
             d == Ran(c)
  <1>1. Len(d) = m /\ m \in Nat /\ n <= m
    BY CallElements, RanFields DEF SameCalls, Mirrors
  <1>2. ASSUME NEW k \in Nat, k < m
        PROVE  /\ Inner(d, k).s = Inner(c, k).s /\ Inner(d, k).target = Inner(c, k).target
               /\ (Inner(d, k).timed <=> Inner(c, k).timed)
               /\ (Inner(d, k).tracked <=> Inner(c, k).tracked)
               /\ Inner(c, k).timed =>
                     /\ Inner(d, k).incl = Inner(c, k).incl + 1
                     /\ Inner(d, k).own = Inner(c, k).own + (IF k = 0 THEN 1 ELSE 0)
    <2>1. m - k \in 1 .. m /\ (m - k = m <=> k = 0)
      BY <1>1, <1>2
    <2> QED
      BY <1>1, <2>1, RanFields DEF SameCalls, SameTracks, Inner
  <1>3. \A k \in Nat : k < m => (Inner(c, k).tracked <=> k < n)
    BY DEF Mirrors
  <1>4. ASSUME NEW k \in Nat, k < n
        PROVE  /\ Inner(st.calls, k) = Inner(c, k).target
               /\ Inner(st.calls_s, k) = Inner(c, k).s
               /\ Inner(c, k).timed <=> k < Len(st.prof)
               /\ k < Len(st.prof) => Times(Inner(st.prof, k), c, k, t, filter)
    BY <1>4 DEF Mirrors
  <1> HIDE DEF n, m, d
  <1>5. \A k \in Nat : k < m => (Inner(d, k).tracked <=> k < n)
    BY <1>2, <1>3
  <1>6. ASSUME NEW k \in Nat, k < n
        PROVE  /\ Inner(st.calls, k) = Inner(d, k).target
               /\ Inner(st.calls_s, k) = Inner(d, k).s
               /\ Inner(d, k).timed <=> k < Len(st.prof)
               /\ k < Len(st.prof) => Times(Inner(st.prof, k), d, k, t + 1, filter)
    <2>1. k < m /\ n \in Nat
      BY <1>1, <1>6 DEF n
    <2>3. ASSUME k < Len(st.prof)
          PROVE  Times(Inner(st.prof, k), d, k, t + 1, filter)
      <3> DEFINE fr == Inner(st.prof, k)
                 x == Inner(c, k)
                 y == Inner(d, k)
      <3>1. /\ fr.target = x.target /\ (fr.aggregated <=> fr.target \in filter)
            /\ t - fr.push = x.incl
            /\ x.incl = x.own + fr.child + (IF k = 0 THEN 0 ELSE Inner(c, k - 1).incl)
        BY <1>4, <1>6, <2>3 DEF Times
      <3>2. /\ y.target = x.target /\ y.incl = x.incl + 1
            /\ y.own = x.own + (IF k = 0 THEN 1 ELSE 0)
        BY <1>2, <1>4, <1>6, <2>1, <2>3
      <3>3. fr.push \in Nat /\ fr.child \in Nat /\ x.own \in Nat /\ x.incl \in Nat
        BY <2>1, <2>3, InnerFrame, InnerCall DEF m
      <3> HIDE DEF fr, x, y
      <3>4. (t + 1) - fr.push = y.incl
        BY <3>1, <3>2, <3>3
      <3>5. y.incl = y.own + fr.child + (IF k = 0 THEN 0 ELSE Inner(d, k - 1).incl)
        <4>1. CASE k = 0
          BY <3>1, <3>2, <3>3, <4>1
        <4>2. CASE k # 0
          <5>1. k - 1 \in Nat /\ k - 1 < m /\ k - 1 < n /\ k - 1 < Len(st.prof)
            BY <1>1, <1>6, <2>1, <2>3, <4>2, InnerFrame
          <5>2. Inner(d, k - 1).incl = Inner(c, k - 1).incl + 1
            BY <5>1, <1>2, <1>4
          <5>3. Inner(c, k - 1).incl \in Nat
            BY <5>1, InnerCall DEF m
          <5>4. y.own = x.own + 0 /\ x.incl = x.own + fr.child + Inner(c, k - 1).incl
            BY <3>1, <3>2, <4>2
          <5>5. y.incl = y.own + fr.child + Inner(d, k - 1).incl
            <6> DEFINE a == Inner(c, k - 1).incl
                       b == Inner(d, k - 1).incl
            <6>1. a \in Nat /\ b = a + 1 /\ x.incl = x.own + fr.child + a
              BY <5>2, <5>3, <5>4
            <6>2. y.incl = x.incl + 1 /\ y.own = x.own
              BY <3>2, <3>3, <5>4
            <6> HIDE DEF a, b
            <6>3. y.incl = y.own + fr.child + b
              BY <3>3, <6>1, <6>2
            <6> QED
              BY <6>3 DEF b
          <5> QED
            BY <4>2, <5>5
        <4> QED
          BY <4>1, <4>2
      <3> QED
        BY <3>1, <3>2, <3>4, <3>5 DEF Times, fr, y
    <2> QED
      BY <1>2, <1>4, <1>6, <2>1, <2>3
  <1> QED
    BY <1>1, <1>5, <1>6 DEF Mirrors, n, m, d

\* Nothing is known of calls that nobody tracks.
LEMMA MirrorsNone ==
    ASSUME NEW st, st.calls = << >>, NEW c \in Seq(Calls), NEW t, NEW filter,
           \A i \in 1 .. Len(c) : ~c[i].tracked
    PROVE  Mirrors(st, c, t, filter)
  <1>1. Len(st.calls) = 0 /\ Len(c) \in Nat
    BY EmptySeq, CallElements
  <1>2. \A k \in Nat : k < Len(c) => ~Inner(c, k).tracked
    BY <1>1, Places DEF Inner
  <1> QED
    BY <1>1, <1>2 DEF Mirrors

\* The frames of the profiler are dropped, and no call is timed.
LEMMA MirrorsUntimed ==
    ASSUME NEW st, NEW en, NEW c \in Seq(Calls), NEW t, NEW u, NEW filter, NEW other,
           Len(st.calls) \in Nat, Mirrors(st, c, t, filter),
           en.calls = st.calls, en.calls_s = st.calls_s, en.prof = << >>
    PROVE  Mirrors(en, Untimed(c), u, other)
  <1> DEFINE n == Len(st.calls)
             m == Len(c)
             d == Untimed(c)
  <1>1. Len(d) = m /\ m \in Nat /\ n <= m /\ Len(en.prof) = 0
    BY CallElements, ForgottenFields, EmptySeq DEF SameCalls, Mirrors
  <1>2. ASSUME NEW k \in Nat, k < m
        PROVE  /\ Inner(d, k).s = Inner(c, k).s /\ Inner(d, k).target = Inner(c, k).target
               /\ (Inner(d, k).tracked <=> Inner(c, k).tracked) /\ ~Inner(d, k).timed
    <2>1. m - k \in 1 .. m
      BY <1>1, <1>2, Places
    <2> QED
      BY <1>1, <2>1, ForgottenFields DEF SameCalls, SameTracks, Inner
  <1>3. \A k \in Nat : k < m => (Inner(c, k).tracked <=> k < n)
    BY DEF Mirrors
  <1>4. ASSUME NEW k \in Nat, k < n
        PROVE  Inner(st.calls, k) = Inner(c, k).target /\ Inner(st.calls_s, k) = Inner(c, k).s
    BY <1>4 DEF Mirrors
  <1> HIDE DEF m, d
  <1>5. \A k \in Nat : k < m => (Inner(d, k).tracked <=> k < n)
    BY <1>2, <1>3
  <1>6. ASSUME NEW k \in Nat, k < n
        PROVE  /\ Inner(en.calls, k) = Inner(d, k).target
               /\ Inner(en.calls_s, k) = Inner(d, k).s
               /\ Inner(d, k).timed <=> k < Len(en.prof)
               /\ k < Len(en.prof) => Times(Inner(en.prof, k), d, k, u, other)
    <2>1. k < m
      BY <1>1, <1>6
    <2>2. ~(k < Len(en.prof))
      BY <1>1
    <2> QED
      BY <1>2, <1>4, <1>6, <2>1, <2>2
  <1> QED
    BY <1>1, <1>5, <1>6 DEF Mirrors, m, d

\* A call is pushed on a stack with a cap, and timed if a profile is open.
LEMMA MirrorsPush ==
    ASSUME NEW st, ShadowType(st), Len(st.calls) <= CallstackCap,
           NEW c \in Seq(Calls), NEW t \in Nat, NEW filter, Mirrors(st, c, t, filter),
           NEW b \in Seq(Calls), SameTimes(b, c),
           \A k \in Nat : k < Len(c) =>
              (Inner(b, k).tracked <=> k < Len(st.calls)
                                       /\ ~(Len(st.calls) = CallstackCap /\ k + 1 = Len(st.calls))),
           NEW x \in Calls, x.tracked, x.incl = 0, x.own = 0,
           NEW en,
           en.calls = PushCapped(st.calls, x.target), en.calls_s = PushCapped(st.calls_s, x.s),
           NEW fr \in ProfFrames, fr.target = x.target, fr.aggregated <=> fr.target \in filter,
           fr.push = t, fr.child = 0,
           \/ x.timed /\ en.prof = Append(st.prof, fr)
           \/ ~x.timed /\ st.prof = << >> /\ en.prof = << >>
    PROVE  Mirrors(en, Append(b, x), t, filter)
  <1> DEFINE n == Len(st.calls)
             m == Len(c)
             d == Append(b, x)
             N == Len(en.calls)
             l == Len(st.prof)
             L == Len(en.prof)
  <1>0. /\ n \in Nat /\ m \in Nat /\ l \in Nat /\ n <= m /\ n <= CallstackCap
        /\ CallstackCap \in Nat /\ CallstackCap > 0
        /\ x.target \in Targets /\ x.s \in Nat
    BY LenProperties, LimitsAssumption DEF ShadowType, Mirrors, Calls
  <1>1. /\ d \in Seq(Calls) /\ Len(d) = m + 1 /\ Inner(d, 0) = x
        /\ \A k \in Nat : k < m => Inner(d, k + 1) = Inner(b, k)
    <2>1. Len(b) = m
      BY DEF SameTimes, SameCalls
    <2> QED
      BY <2>1, InnerPush
  <1>2. /\ N = IF n = CallstackCap THEN n ELSE n + 1
        /\ Inner(en.calls, 0) = x.target
        /\ \A k \in Nat : k + 1 < N => Inner(en.calls, k + 1) = Inner(st.calls, k)
    <2>1. st.calls \in Seq(Targets)
      BY DEF ShadowType
    <2> HIDE DEF n, N
    <2>2. /\ Len(en.calls) = IF Len(st.calls) = CallstackCap THEN Len(st.calls) ELSE Len(st.calls) + 1
          /\ Inner(en.calls, 0) = x.target
          /\ \A k \in Nat : k + 1 < Len(en.calls) => Inner(en.calls, k + 1) = Inner(st.calls, k)
      BY <1>0, <2>1, InnerPushCapped
    <2> QED
      BY <2>2 DEF n, N
  <1>3. /\ Inner(en.calls_s, 0) = x.s
        /\ \A k \in Nat : k + 1 < N => Inner(en.calls_s, k + 1) = Inner(st.calls_s, k)
    <2> DEFINE e == en.calls_s
               o == Len(st.calls_s)
               q == st.calls_s
               y == x.s
    <2>1. q \in Seq(Nat) /\ o = n /\ o <= CallstackCap /\ y \in Nat /\ e = PushCapped(q, y)
      BY <1>0 DEF ShadowType
    <2>4. Len(q) <= CallstackCap
      BY <2>1
    <2> HIDE DEF n, N, e, q, y, o
    <2>5. /\ Len(e) = IF Len(q) = CallstackCap THEN Len(q) ELSE Len(q) + 1
          /\ Inner(e, 0) = y
          /\ \A k \in Nat : k + 1 < Len(e) => Inner(e, k + 1) = Inner(q, k)
      BY <2>1, <2>4, InnerPushCapped
    <2>2. /\ Len(e) = IF o = CallstackCap THEN o ELSE o + 1
          /\ Inner(e, 0) = x.s
          /\ \A k \in Nat : k + 1 < Len(e) => Inner(e, k + 1) = Inner(st.calls_s, k)
      BY <2>5 DEF o, q, y
    <2>3. Len(e) = N
      BY <1>2, <2>1, <2>2
    <2> QED
      BY <2>2, <2>3 DEF e
  <1>4. \/ /\ x.timed /\ L = l + 1 /\ Inner(en.prof, 0) = fr
           /\ \A k \in Nat : k < l => Inner(en.prof, k + 1) = Inner(st.prof, k)
        \/ ~x.timed /\ l = 0 /\ L = 0
    <2>1. st.prof \in Seq(ProfFrames)
      BY DEF ShadowType
    <2>2. CASE x.timed /\ en.prof = Append(st.prof, fr)
      BY <2>1, <2>2, InnerPush
    <2>3. CASE ~x.timed /\ st.prof = << >> /\ en.prof = << >>
      BY <2>3, EmptySeq
    <2> QED
      BY <2>2, <2>3
  <1>5. ASSUME NEW k \in Nat, k < m
        PROVE  /\ Inner(b, k).s = Inner(c, k).s /\ Inner(b, k).target = Inner(c, k).target
               /\ Inner(b, k).incl = Inner(c, k).incl /\ Inner(b, k).own = Inner(c, k).own
               /\ (Inner(b, k).timed <=> Inner(c, k).timed)
    <2>1. m - k \in 1 .. m
      BY <1>0, <1>5, Places
    <2>2. Len(b) = m
      BY DEF SameTimes, SameCalls
    <2> QED
      BY <2>1, <2>2 DEF SameTimes, SameCalls, Inner
  <1>6. ASSUME NEW k \in Nat, k < n
        PROVE  /\ Inner(st.calls, k) = Inner(c, k).target
               /\ Inner(st.calls_s, k) = Inner(c, k).s
               /\ Inner(c, k).timed <=> k < l
               /\ k < l => Times(Inner(st.prof, k), c, k, t, filter)
    BY <1>6 DEF Mirrors
  <1>7. \A k \in Nat : k < m =>
           (Inner(b, k).tracked <=> k < n /\ ~(n = CallstackCap /\ k + 1 = n))
    OBVIOUS
  <1> HIDE DEF n, m, d, N, l, L
  <1>8. N \in Nat /\ 0 < N /\ N <= n + 1
    BY <1>0, <1>2
  <1>9. \A k \in Nat : k + 1 < N <=> k < n /\ ~(n = CallstackCap /\ k + 1 = n)
    BY <1>0, <1>2
  <1>10. ASSUME NEW k \in Nat, k < m + 1
         PROVE  Inner(d, k).tracked <=> k < N
    <2>1. CASE k = 0
      BY <1>1, <1>8, <2>1
    <2>2. CASE k # 0
      <3> DEFINE j == k - 1
      <3>1. j \in Nat /\ j < m /\ k = j + 1
        BY <1>0, <1>10, <2>2
      <3> HIDE DEF j
      <3> QED
        BY <1>1, <1>7, <1>9, <3>1
    <2> QED
      BY <2>1, <2>2
  <1>11. ASSUME NEW k \in Nat, k < N
         PROVE  /\ Inner(en.calls, k) = Inner(d, k).target
                /\ Inner(en.calls_s, k) = Inner(d, k).s
                /\ Inner(d, k).timed <=> k < L
                /\ k < L => Times(Inner(en.prof, k), d, k, t, filter)
    <2>1. CASE k = 0
      <3>1. x.timed <=> 0 < L
        BY <1>0, <1>4
      <3>2. x.timed => Times(fr, d, 0, t, filter)
        BY <1>1 DEF Times
      <3> QED
        BY <1>1, <1>2, <1>3, <1>4, <2>1, <3>1, <3>2
    <2>2. CASE k # 0
      <3> DEFINE j == k - 1
      <3>1. j \in Nat /\ k = j + 1 /\ j + 1 < N
        BY <1>11, <2>2
      <3> HIDE DEF j
      <3>2. j < n /\ j < m
        BY <1>0, <1>9, <3>1
      <3>3. /\ Inner(en.calls, k) = Inner(d, k).target
            /\ Inner(en.calls_s, k) = Inner(d, k).s
        BY <1>1, <1>2, <1>3, <1>5, <1>6, <3>1, <3>2
      <3>4. Inner(d, k).timed <=> k < L
        <4>1. Inner(d, k).timed <=> j < l
          BY <1>1, <1>5, <1>6, <3>1, <3>2
        <4>2. j < l <=> j + 1 < L
          BY <1>0, <1>4, <3>1
        <4> QED
          BY <3>1, <4>1, <4>2
      <3>5. ASSUME k < L
            PROVE  Times(Inner(en.prof, k), d, k, t, filter)
        <4>1. x.timed /\ j < l /\ Inner(en.prof, k) = Inner(st.prof, j)
          BY <1>0, <1>4, <3>1, <3>5
        <4>2. Times(Inner(st.prof, j), c, j, t, filter)
          BY <1>6, <3>1, <3>2, <4>1
        <4>3. /\ Inner(d, k).target = Inner(c, j).target /\ Inner(d, k).incl = Inner(c, j).incl
              /\ Inner(d, k).own = Inner(c, j).own
          BY <1>1, <1>5, <3>1, <3>2
        <4>4. Inner(d, k - 1).incl = IF j = 0 THEN 0 ELSE Inner(c, j - 1).incl
          <5>0. k - 1 = j
            BY <3>1
          <5>1. CASE j = 0
            BY <1>1, <5>0, <5>1
          <5>2. CASE j # 0
            <6>1. j - 1 \in Nat /\ j - 1 < m /\ j = (j - 1) + 1
              BY <1>0, <3>1, <3>2, <5>2
            <6>2. Inner(d, j) = Inner(b, j - 1)
              BY <1>1, <6>1
            <6> QED
              BY <1>5, <5>0, <5>2, <6>1, <6>2
          <5> QED
            BY <5>1, <5>2
        <4> QED
          BY <2>2, <4>1, <4>2, <4>3, <4>4 DEF Times
      <3> QED
        BY <3>3, <3>4, <3>5
    <2> QED
      BY <2>1, <2>2
  <1>12. N <= m + 1
    BY <1>0, <1>8
  <1> QED
    BY <1>1, <1>10, <1>11, <1>12 DEF Mirrors, N, d, L

\* The call that falls out at the cap is the outermost one that is tracked.
LEMMA BeforeTracks ==
    ASSUME Running \in OnType, Len(live.calls) \in Nat, Len(live.calls) <= CallstackCap,
           NEW t, NEW filter, Mirrors(live, Running.calls, t, filter)
    PROVE  \A k \in Nat : k < Len(Running.calls) =>
              (Inner(BeforeCall, k).tracked <=>
                  k < Len(live.calls)
                  /\ ~(Len(live.calls) = CallstackCap /\ k + 1 = Len(live.calls)))
  <1> DEFINE c == Running.calls
             n == Len(live.calls)
             m == Len(c)
             d == BeforeCall
  <1>0. /\ c \in Seq(Calls) /\ m \in Nat /\ n \in Nat /\ n <= m /\ n <= CallstackCap
        /\ CallstackCap \in Nat
    BY CallElements, LimitsAssumption DEF OnType, Mirrors
  <1>1. /\ Len(d) = m
        /\ \A i \in 1 .. m : d[i].tracked <=> c[i].tracked /\ ~Overflows(i)
    BY BeforeFields DEF SameTimes, SameCalls
  <1>2. ASSUME NEW i \in 1 .. m
        PROVE  c[i].tracked <=> i > m - n
    <2>1. /\ m - i \in Nat /\ m - i < m /\ m - (m - i) = i
      BY <1>0, Places
    <2>2. Inner(c, m - i).tracked <=> m - i < n
      <3> DEFINE k == m - i
      <3>1. k \in Nat /\ k < m
        BY <2>1
      <3> HIDE DEF k
      <3>2. Inner(c, k).tracked <=> k < n
        BY <3>1 DEF Mirrors
      <3> QED
        BY <3>2 DEF k
    <2>3. m - i < n <=> i > m - n
      <3> HIDE DEF c, n, m
      <3> QED
        BY <1>0
    <2> QED
      BY <2>1, <2>2, <2>3 DEF Inner
  <1>3. \A i : Overflows(i) <=> /\ n >= CallstackCap
                                /\ c[i].tracked
                                /\ \A j \in 1 .. i - 1 : ~c[j].tracked
    BY DEF Overflows
  <1> HIDE DEF c, n, m, d
  <1>4. ASSUME NEW k \in Nat, k < m
        PROVE  d[m - k].tracked <=> k < n /\ ~(n = CallstackCap /\ k + 1 = n)
    <2> DEFINE i == m - k
    <2>1. i \in 1 .. m /\ (i > m - n <=> k < n)
      BY <1>0, <1>4
    <2>2. CASE ~(k < n)
      BY <1>1, <1>2, <2>1, <2>2
    <2>3. CASE k < n /\ k + 1 = n
      <3>1. \A j \in 1 .. i - 1 : j \in 1 .. m /\ ~(j > m - n)
        BY <1>0, <1>4, <2>3
      <3>2. \A j \in 1 .. i - 1 : ~c[j].tracked
        BY <1>2, <3>1
      <3>3. Overflows(i) <=> n >= CallstackCap
        BY <1>2, <1>3, <2>1, <2>3, <3>2
      <3>4. n >= CallstackCap <=> n = CallstackCap
        BY <1>0
      <3> QED
        BY <1>1, <1>2, <2>1, <2>3, <3>3, <3>4
    <2>4. CASE k < n /\ k + 1 # n
      <3>1. /\ m - n + 1 \in 1 .. i - 1 /\ m - n + 1 \in 1 .. m
            /\ m - n + 1 > m - n
        BY <1>0, <1>4, <2>4
      <3>2. c[m - n + 1].tracked
        BY <1>2, <3>1
      <3>3. ~Overflows(i)
        BY <1>3, <3>1, <3>2
      <3> QED
        BY <1>1, <1>2, <2>1, <2>4, <3>3
    <2> QED
      BY <2>2, <2>3, <2>4
  <1> QED
    BY <1>1, <1>4 DEF Inner, c, n, m, d

\* The innermost frame is charged for its callee.
LEMMA InnerCharged ==
    ASSUME NEW prof \in Seq(ProfFrames), NEW n \in Nat, NEW q, q = ChargeChild(prof, n)
    PROVE  /\ q \in Seq(ProfFrames) /\ Len(q) = Len(prof)
           /\ Len(prof) # 0 =>
                /\ Inner(q, 0).target = Inner(prof, 0).target
                /\ Inner(q, 0).push = Inner(prof, 0).push
                /\ (Inner(q, 0).aggregated <=> Inner(prof, 0).aggregated)
                /\ Inner(q, 0).child = Inner(prof, 0).child + n
           /\ \A k \in Nat : k # 0 /\ k < Len(prof) => Inner(q, k) = Inner(prof, k)
  <1>0. Len(prof) \in Nat
    BY LenProperties
  <1>1. CASE prof = << >>
    <2>1. q = prof /\ Len(prof) = 0
      BY <1>1, EmptySeq DEF ChargeChild
    <2> QED
      BY <2>1
  <1>2. CASE prof # << >>
    <2> DEFINE l == Len(prof)
               fr == prof[l]
               e == [fr EXCEPT !.child = @ + n]
    <2>1. q = [prof EXCEPT ![l] = e]
      BY <1>2 DEF ChargeChild
    <2>2. l \in Nat \ {0} /\ DOMAIN prof = 1 .. l /\ \A i \in 1 .. l : prof[i] \in ProfFrames
      BY <1>2, EmptySeq, LenProperties, ElementOfSeq
    <2>3. l \in 1 .. l /\ fr \in ProfFrames
      BY <2>2
    <2> HIDE DEF fr, l
    <2>4. /\ e \in ProfFrames /\ e.target = fr.target /\ e.push = fr.push
          /\ (e.aggregated <=> fr.aggregated) /\ e.child = fr.child + n
      <3>1. fr.child + n \in Nat
        BY <2>3 DEF ProfFrames
      <3>2. e \in ProfFrames
        BY <2>3, <3>1 DEF ProfFrames
      <3>3. e.target = fr.target /\ e.push = fr.push /\ e.child = fr.child + n
        BY <2>3 DEF ProfFrames
      <3>4. e.aggregated <=> fr.aggregated
        BY <2>3 DEF ProfFrames
      <3> QED
        BY <3>2, <3>3, <3>4
    <2> HIDE DEF e
    <2>5. /\ q \in [1 .. l -> ProfFrames] /\ q[l] = e
          /\ \A i \in 1 .. l : i # l => q[i] = prof[i]
      BY <2>1, <2>2, <2>3, <2>4
    <2>6. q \in Seq(ProfFrames)
      BY <2>2, <2>5, SeqDef
    <2>7. Len(q) = l
      <3>1. DOMAIN q = 1 .. l /\ DOMAIN q = 1 .. Len(q) /\ Len(q) \in Nat
        BY <2>5, <2>6, LenProperties
      <3> QED
        BY <2>2, <3>1, SameInterval
    <2>8. l - 0 = l
      BY <2>2
    <2>9. Inner(q, 0) = e /\ Inner(prof, 0) = fr
      BY <2>5, <2>7, <2>8 DEF Inner, l, fr
    <2>10. ASSUME NEW k \in Nat, k # 0, k < l
           PROVE  Inner(q, k) = Inner(prof, k)
      <3>1. l - k \in 1 .. l /\ l - k # l
        BY <2>2, <2>10
      <3> QED
        BY <2>5, <2>7, <3>1 DEF Inner, l
    <2> QED
      BY <2>4, <2>6, <2>7, <2>9, <2>10 DEF l
  <1> QED
    BY <1>1, <1>2

\* A return pops the frame of the call that ends, and charges its caller.
LEMMA MirrorsPop ==
    ASSUME NEW st, ShadowType(st), st.calls # << >>,
           NEW c \in Seq(Calls), NEW t \in Nat, NEW filter, Mirrors(st, c, t, filter),
           NEW en, en.calls = Front(st.calls), en.calls_s = Front(st.calls_s),
           \/ st.prof = << >> /\ en.prof = << >>
           \/ /\ st.prof # << >>
              /\ en.prof = ChargeChild(Front(st.prof), t - Last(st.prof).push)
    PROVE  Mirrors(en, Front(c), t, filter)
  <1> DEFINE n == Len(st.calls)
             m == Len(c)
             d == Front(c)
             l == Len(st.prof)
             L == Len(en.prof)
             p == Front(st.prof)
  <1>0. /\ st.calls \in Seq(Targets) /\ st.calls_s \in Seq(Nat) /\ st.prof \in Seq(ProfFrames)
        /\ Len(st.calls_s) = n
    BY DEF ShadowType
  <1>1. /\ n \in Nat \ {0} /\ Len(en.calls) = n - 1
        /\ \A k \in Nat : k < n - 1 => Inner(en.calls, k) = Inner(st.calls, k + 1)
    BY <1>0, InnerPop
  <1>2. \A k \in Nat : k < n - 1 => Inner(en.calls_s, k) = Inner(st.calls_s, k + 1)
    <2>1. st.calls_s # << >>
      BY <1>0, <1>1, EmptySeq
    <2> QED
      BY <1>0, <2>1, InnerPop
  <1>3. /\ m \in Nat \ {0} /\ n <= m /\ d \in Seq(Calls) /\ Len(d) = m - 1
        /\ \A k \in Nat : k < m - 1 => Inner(d, k) = Inner(c, k + 1)
    <2>1. n <= m /\ m \in Nat
      BY CallElements DEF Mirrors
    <2>2. c # << >>
      BY <1>1, <2>1, EmptySeq
    <2> QED
      BY <2>1, <2>2, InnerPop
  <1>4. \A k \in Nat : k < m => (Inner(c, k).tracked <=> k < n)
    BY DEF Mirrors
  <1>5. ASSUME NEW k \in Nat, k < n
        PROVE  /\ Inner(st.calls, k) = Inner(c, k).target
               /\ Inner(st.calls_s, k) = Inner(c, k).s
               /\ Inner(c, k).timed <=> k < l
               /\ k < l => Times(Inner(st.prof, k), c, k, t, filter)
    BY <1>5 DEF Mirrors
  <1>6. CASE l # 0
    <2> DEFINE i == t - Last(st.prof).push
    <2>1. st.prof # << >> /\ l \in Nat \ {0}
      BY <1>0, <1>6, EmptySeq, LenProperties
    <2>2. /\ p \in Seq(ProfFrames) /\ Len(p) = l - 1 /\ Last(st.prof) = Inner(st.prof, 0)
          /\ \A k \in Nat : k < l - 1 => Inner(p, k) = Inner(st.prof, k + 1)
      BY <1>0, <2>1, InnerPop
    <2>3. en.prof = ChargeChild(p, i)
      BY <2>1
    <2> HIDE DEF p, n, m, d, l
    <2>4. i = Inner(c, 0).incl /\ i \in Nat
      <3>1. 0 < n /\ 0 < l /\ 0 < m
        BY <1>1, <1>3, <2>1
      <3>2. Times(Inner(st.prof, 0), c, 0, t, filter)
        BY <1>5, <3>1
      <3>3. Inner(c, 0).incl \in Nat
        BY <3>1, InnerCall DEF m
      <3> QED
        BY <2>2, <3>2, <3>3 DEF Times
    <2> HIDE DEF i
    <2>5. /\ Len(en.prof) = Len(p)
          /\ Len(p) # 0 =>
               /\ Inner(en.prof, 0).target = Inner(p, 0).target
               /\ Inner(en.prof, 0).push = Inner(p, 0).push
               /\ (Inner(en.prof, 0).aggregated <=> Inner(p, 0).aggregated)
               /\ Inner(en.prof, 0).child = Inner(p, 0).child + i
          /\ \A k \in Nat : k # 0 /\ k < Len(p) => Inner(en.prof, k) = Inner(p, k)
      <3> DEFINE q == en.prof
      <3>1. q = ChargeChild(p, i) /\ p \in Seq(ProfFrames) /\ i \in Nat
        BY <2>2, <2>3, <2>4
      <3> HIDE DEF q
      <3>2. /\ Len(q) = Len(p)
            /\ Len(p) # 0 =>
                 /\ Inner(q, 0).target = Inner(p, 0).target
                 /\ Inner(q, 0).push = Inner(p, 0).push
                 /\ (Inner(q, 0).aggregated <=> Inner(p, 0).aggregated)
                 /\ Inner(q, 0).child = Inner(p, 0).child + i
            /\ \A k \in Nat : k # 0 /\ k < Len(p) => Inner(q, k) = Inner(p, k)
        BY <3>1, InnerCharged
      <3> QED
        BY <3>2 DEF q
    <2>6. L = l - 1
      BY <2>2, <2>5
    <2> HIDE DEF L
    <2>7. ASSUME NEW k \in Nat, k < n - 1
          PROVE  /\ Inner(d, k).timed <=> k < L
                 /\ k < L => Times(Inner(en.prof, k), d, k, t, filter)
      <3>1. k + 1 \in Nat /\ k + 1 < n /\ k < m - 1 /\ (k < L <=> k + 1 < l)
        BY <1>1, <1>3, <2>1, <2>6, <2>7
      <3>2. Inner(d, k) = Inner(c, k + 1)
        BY <1>3, <3>1
      <3>3. ASSUME k < L
            PROVE  Times(Inner(en.prof, k), d, k, t, filter)
        <4> DEFINE fr == Inner(st.prof, k + 1)
                   er == Inner(en.prof, k)
                   x == Inner(c, k + 1)
                   y == Inner(c, k)
        <4>1. Times(fr, c, k + 1, t, filter)
          BY <1>5, <3>1, <3>3
        <4>0. k + 1 # 0 /\ (k + 1) - 1 = k
          OBVIOUS
        <4>2. /\ fr.target = x.target /\ (fr.aggregated <=> fr.target \in filter)
              /\ t - fr.push = x.incl /\ x.incl = x.own + fr.child + y.incl
          BY <4>0, <4>1 DEF Times
        <4>3. k < l - 1 /\ Len(p) = l - 1
          BY <2>2, <2>6, <3>3
        <4>4. Inner(p, k) = fr
          BY <2>2, <4>3
        <4>5. CASE k = 0
          <5>1. /\ er.target = fr.target /\ er.push = fr.push
                /\ (er.aggregated <=> fr.aggregated) /\ er.child = fr.child + y.incl
            BY <2>1, <2>4, <2>5, <4>3, <4>4, <4>5
          <5>2. fr.child \in Nat /\ y.incl \in Nat /\ x.own \in Nat
            BY <1>0, <1>1, <1>3, <2>1, <3>1, <3>3, InnerFrame, InnerCall DEF l, m
          <5> HIDE DEF fr, er, x, y
          <5>3. x.incl = x.own + er.child + 0
            BY <4>2, <5>1, <5>2
          <5> QED
            BY <3>2, <4>2, <4>5, <5>1, <5>3 DEF Times, er, x
        <4>6. CASE k # 0
          <5>1. er = fr
            BY <2>5, <4>3, <4>4, <4>6
          <5>2. Inner(d, k - 1) = y
            <6>1. k - 1 \in Nat /\ k - 1 < m - 1 /\ (k - 1) + 1 = k
              BY <1>3, <3>1, <4>6
            <6> QED
              BY <1>3, <6>1
          <5> HIDE DEF fr, er, x, y
          <5> QED
            BY <3>2, <4>2, <4>6, <5>1, <5>2 DEF Times, er, x
        <4> QED
          BY <4>5, <4>6
      <3> QED
        BY <1>5, <3>1, <3>2, <3>3
    <2>8. \A k \in Nat : k < m - 1 => (Inner(d, k).tracked <=> k < n - 1)
      <3> TAKE k \in Nat
      <3> HAVE k < m - 1
      <3>1. k + 1 \in Nat /\ k + 1 < m /\ (k + 1 < n <=> k < n - 1)
        BY <1>1, <1>3
      <3> QED
        BY <1>3, <1>4, <3>1
    <2>9. ASSUME NEW k \in Nat, k < n - 1
          PROVE  Inner(en.calls, k) = Inner(d, k).target /\ Inner(en.calls_s, k) = Inner(d, k).s
      <3>1. k + 1 \in Nat /\ k + 1 < n /\ k < m - 1
        BY <1>1, <1>3, <2>9
      <3> QED
        BY <1>1, <1>2, <1>3, <1>5, <2>9, <3>1
    <2>10. n - 1 <= m - 1
      BY <1>1, <1>3
    <2> QED
      BY <1>1, <1>3, <2>7, <2>8, <2>9, <2>10 DEF Mirrors, d, L
  <1>7. CASE l = 0
    <2>1. L = 0
      BY <1>0, <1>7, EmptySeq
    <2> HIDE DEF n, m, d, l, L, p
    <2>7. ASSUME NEW k \in Nat, k < n - 1
          PROVE  ~Inner(d, k).timed /\ ~(k < L)
      <3>1. k + 1 \in Nat /\ k + 1 < n /\ k < m - 1 /\ ~(k + 1 < l) /\ ~(k < L)
        BY <1>1, <1>3, <1>7, <2>1, <2>7
      <3> QED
        BY <1>3, <1>5, <3>1
    <2>8. \A k \in Nat : k < m - 1 => (Inner(d, k).tracked <=> k < n - 1)
      <3> TAKE k \in Nat
      <3> HAVE k < m - 1
      <3>1. k + 1 \in Nat /\ k + 1 < m /\ (k + 1 < n <=> k < n - 1)
        BY <1>1, <1>3
      <3> QED
        BY <1>3, <1>4, <3>1
    <2>9. ASSUME NEW k \in Nat, k < n - 1
          PROVE  Inner(en.calls, k) = Inner(d, k).target /\ Inner(en.calls_s, k) = Inner(d, k).s
      <3>1. k + 1 \in Nat /\ k + 1 < n /\ k < m - 1
        BY <1>1, <1>3, <2>9
      <3> QED
        BY <1>1, <1>2, <1>3, <1>5, <2>9, <3>1
    <2>10. n - 1 <= m - 1
      BY <1>1, <1>3
    <2> QED
      BY <1>1, <1>3, <2>7, <2>8, <2>9, <2>10 DEF Mirrors, d, L
  <1> QED
    BY <1>6, <1>7

\* A parked stack goes on at another time, its clocks having stood still.
LEMMA MirrorsResume ==
    ASSUME Now \in Nat, NEW r, r.at \in Nat, r.at <= Now, r.prof \in Seq(Pushed(r.at)),
           NEW c, NEW filter, Mirrors(r, c, r.at, filter),
           NEW en, en.calls = r.calls, en.calls_s = r.calls_s, en.prof = Restart(r)
    PROVE  Mirrors(en, c, Now, filter)
  <1> DEFINE n == Len(r.calls)
             l == Len(r.prof)
  <1>1. /\ l \in Nat /\ Len(en.prof) = l
        /\ \A i \in 1 .. l : en.prof[i] = [r.prof[i] EXCEPT !.push = @ + (Now - r.at)]
        /\ \A i \in 1 .. l : r.prof[i] \in Pushed(r.at)
    BY Restarted, LenProperties, ElementOfSeq
  <1>2. ASSUME NEW k \in Nat, k < l
        PROVE  /\ Inner(en.prof, k).target = Inner(r.prof, k).target
               /\ (Inner(en.prof, k).aggregated <=> Inner(r.prof, k).aggregated)
               /\ Inner(en.prof, k).child = Inner(r.prof, k).child
               /\ Now - Inner(en.prof, k).push = r.at - Inner(r.prof, k).push
    <2> DEFINE fr == r.prof[l - k]
               gap == Now - r.at
    <2>1. l - k \in 1 .. l
      BY <1>1, <1>2
    <2>2. en.prof[l - k] = [fr EXCEPT !.push = @ + gap] /\ fr \in Pushed(r.at)
      BY <1>1, <2>1
    <2>3. gap \in Nat /\ Now = r.at + gap
      OBVIOUS
    <2> HIDE DEF fr, gap, l
    <2>4. fr \in ProfFrames /\ fr.push \in Nat
      BY <2>2 DEF Pushed, ProfFrames
    <2>5. LET e == [fr EXCEPT !.push = @ + gap]
          IN /\ e.target = fr.target /\ (e.aggregated <=> fr.aggregated)
             /\ e.child = fr.child /\ e.push = fr.push + gap
      BY <2>4 DEF ProfFrames
    <2>6. Now - (fr.push + gap) = r.at - fr.push
      BY <2>3, <2>4
    <2> QED
      BY <1>1, <2>2, <2>5, <2>6 DEF Inner, fr, l
  <1>3. ASSUME NEW k \in Nat, k < n
        PROVE  /\ Inner(r.calls, k) = Inner(c, k).target
               /\ Inner(r.calls_s, k) = Inner(c, k).s
               /\ Inner(c, k).timed <=> k < l
               /\ k < l => Times(Inner(r.prof, k), c, k, r.at, filter)
    BY <1>3 DEF Mirrors
  <1>4. ASSUME NEW k \in Nat, k < n, k < l
        PROVE  Times(Inner(en.prof, k), c, k, Now, filter)
    BY <1>2, <1>3, <1>4 DEF Times
  <1>5. n <= Len(c) /\ \A k \in Nat : k < Len(c) => (Inner(c, k).tracked <=> k < n)
    BY DEF Mirrors
  <1> HIDE DEF n, l
  <1>6. Len(en.calls) = n
    BY DEF n
  <1> QED
    BY <1>1, <1>3, <1>4, <1>5, <1>6 DEF Mirrors

\* A return counts the cycles that the call really ran.
LEMMA CountsTruth ==
    ASSUME ShadowType(live), live.calls # << >>, Now \in Nat,
           profile.active \/ live.prof = << >>,
           NEW c \in Seq(Calls), c = Running.calls,
           Mirrors(live, c, Now, profile.filter), profile.stats = truth
    PROVE  StatsOnReturn = TruthOnReturn
  <1> DEFINE n == Len(live.calls)
             m == Len(c)
             l == Len(live.prof)
             x == Inner(c, 0)
             fr == Inner(live.prof, 0)
  <1>1. n \in Nat \ {0} /\ m \in Nat /\ l \in Nat /\ n <= m
    BY EmptySeq, LenProperties DEF ShadowType, Mirrors
  <1>2. c # << >> /\ 0 < n /\ 0 < m
    BY <1>1, EmptySeq
  <1>3. Last(c) = x
    BY <1>2, InnerPop
  <1>4. x.tracked /\ (x.timed <=> 0 < l) /\ (0 < l => Times(fr, c, 0, Now, profile.filter))
    BY <1>1, <1>2 DEF Mirrors
  <1>5. /\ l = 0 <=> live.prof = << >>
        /\ l # 0 => Last(live.prof) = fr
    BY EmptySeq, InnerPop DEF ShadowType
  <1>6. CASE l = 0
    <2>1. StatsOnReturn = profile.stats
      BY <1>5, <1>6 DEF StatsOnReturn, Pops
    <2>2. ~Last(Running.calls).timed
      BY <1>3, <1>4, <1>6
    <2>3. TruthOnReturn = truth
      BY <2>2 DEF TruthOnReturn
    <2> QED
      BY <2>1, <2>3
  <1>7. CASE l # 0
    <2>1. Pops /\ profile.active
      BY <1>5, <1>7 DEF Pops
    <2>2. 0 < l
      BY <1>1, <1>7
    <2>3. /\ fr.target = x.target /\ (fr.aggregated <=> fr.target \in profile.filter)
          /\ Now - fr.push = x.incl /\ x.incl = x.own + fr.child + 0
      BY <1>4, <2>2 DEF Times
    <2>4. fr.child \in Nat /\ x.own \in Nat /\ x.incl \in Nat
      BY <1>2, <2>2, InnerFrame, InnerCall DEF ShadowType
    <2> HIDE DEF fr, x, l
    <2>5. Inclusive(fr) = x.incl
      BY <2>3 DEF Inclusive
    <2>6. Exclusive(fr) = x.own
      BY <2>3, <2>4, <2>5 DEF Exclusive
    <2>7. StatsOnReturn = IF fr.aggregated
                          THEN [profile.stats EXCEPT ![fr.target] = Counted(@, x.incl, x.own)]
                          ELSE profile.stats
      BY <1>5, <1>7, <2>1, <2>5, <2>6 DEF StatsOnReturn
    <2>8. TruthOnReturn = IF x.target \in profile.filter
                          THEN [truth EXCEPT ![x.target] = Counted(@, x.incl, x.own)]
                          ELSE truth
      BY <1>3, <1>4, <2>1, <2>2 DEF TruthOnReturn
    <2> QED
      BY <2>3, <2>7, <2>8
  <1> QED
    BY <1>6, <1>7

-----------------------------------------------------------------------------
(* The clock *)

\* The counter's range, wrapped once in either direction.
LEMMA WrapsOnce ==
    /\ \A x \in 0 .. Wrap - 1 : (x + 1) % Wrap = IF x + 1 < Wrap THEN x + 1 ELSE 0
    /\ \A x, y \in 0 .. Wrap - 1 : (x - y) % Wrap = IF x >= y THEN x - y ELSE x - y + Wrap
  <1>1. Wrap \in Nat \ {0}
    BY LimitsAssumption
  <1>2. ASSUME NEW x \in 0 .. Wrap - 1
        PROVE  (x + 1) % Wrap = IF x + 1 < Wrap THEN x + 1 ELSE 0
    BY <1>1, <1>2
  <1>3. ASSUME NEW x \in 0 .. Wrap - 1, NEW y \in 0 .. Wrap - 1
        PROVE  (x - y) % Wrap = IF x >= y THEN x - y ELSE x - y + Wrap
    BY <1>1, <1>3
  <1> QED
    BY <1>2, <1>3

\* Sampling does not move the clock; a cycle moves it by one, sampled or not.
LEMMA NowMoves ==
    ASSUME IInv
    PROVE  /\ \/ clock' = clock
              \/ clock' = Sampled(clock)
              \/ \E on : clock' = SampledIf(on)
              => Now' = Now
           /\ /\ Spend
              /\ \/ clock' = Advanced(clock)
                 \/ clock' = Advanced(Sampled(clock))
                 \/ \E on : clock' = Advanced(SampledIf(on))
              => Now' = Now + 1
  <1> DEFINE r == clock.raw
             l == clock.last
             b == clock.base
             w == IF r < l THEN b + Wrap ELSE b
             R == (r + 1) % Wrap
  <1>0. /\ clock \in ClockType /\ Wrap \in Nat \ {0}
        /\ r \in 0 .. Wrap - 1 /\ l \in 0 .. Wrap - 1 /\ b \in Nat
    BY LimitsAssumption DEF IInv, ClockInv, ClockType
  <1>1. Widened(clock) = w /\ Now = w + r
    BY DEF Now, Widened
  <1>2. Sampled(clock) = [raw |-> r, last |-> r, base |-> w]
    <2>1. Sampled(clock) = [clock EXCEPT !.base = w, !.last = r]
      BY <1>1 DEF Sampled
    <2> HIDE DEF w
    <2> QED
      BY <1>0, <2>1 DEF ClockType
  <1>3. Advanced(clock) = [raw |-> R, last |-> l, base |-> b]
    BY <1>0 DEF Advanced, ClockType
  <1>4. Advanced(Sampled(clock)) = [raw |-> R, last |-> r, base |-> w]
    BY <1>2 DEF Advanced
  <1>5. \A on : SampledIf(on) = clock \/ SampledIf(on) = Sampled(clock)
    BY DEF SampledIf
  <1>6. /\ R = IF r + 1 < Wrap THEN r + 1 ELSE 0
        /\ (r - l) % Wrap = IF r >= l THEN r - l ELSE r - l + Wrap
    BY <1>0, WrapsOnce
  <1>7. Now' = (IF clock'.raw < clock'.last THEN clock'.base + Wrap ELSE clock'.base) + clock'.raw
    BY DEF Now, Widened
  <1>8. clock' = clock => Now' = Now
    BY <1>7, <1>1
  <1> HIDE DEF r, l, b, w, R
  <1>9. clock' = Sampled(clock) => Now' = Now
    BY <1>0, <1>1, <1>2, <1>7
  <1>10. w = IF r < l THEN b + Wrap ELSE b
    BY DEF w
  <1>11. ASSUME Spend, clock' = Advanced(clock)
         PROVE  Now' = Now + 1
    <2>1. ((r - l) % Wrap) + 1 < Wrap
      BY <1>11 DEF Spend, r, l
    <2>2. Now' = (IF R < l THEN b + Wrap ELSE b) + R
      BY <1>3, <1>7, <1>11
    <2> QED
      BY <1>0, <1>1, <1>6, <1>10, <2>1, <2>2
  <1>12. ASSUME Spend, clock' = Advanced(Sampled(clock))
         PROVE  Now' = Now + 1
    <2>1. ((r - l) % Wrap) + 1 < Wrap
      BY <1>12 DEF Spend, r, l
    <2>2. Now' = (IF R < r THEN w + Wrap ELSE w) + R
      BY <1>4, <1>7, <1>12
    <2>3. w \in Nat
      BY <1>0, <1>10
    <2> QED
      BY <1>0, <1>1, <1>6, <2>1, <2>2, <2>3
  <1> QED
    BY <1>5, <1>8, <1>9, <1>11, <1>12

-----------------------------------------------------------------------------
(* Shadow stacks follow the tasks *)

\* What the shadow stack and the parked ones are.
LEMMA ShadowTypes ==
    ASSUME IInv
    PROVE  /\ ShadowType(live) /\ Len(live.calls) \in Nat /\ Len(live.calls) <= CallstackCap
           /\ profile.active \/ live.prof = << >>
           /\ \A i \in DOMAIN parked :
                 /\ ShadowType(parked[i]) /\ parked[i].calls # << >>
                 /\ Len(parked[i].calls) \in Nat
                 /\ parked[i].at \in Nat /\ parked[i].at <= Stamp
                 /\ parked[i].prof \in Seq(Pushed(parked[i].at))
           /\ Now \in Nat /\ Stamp \in Nat /\ Stamp <= Now
  <1>0. LiveInv /\ ParkedInv /\ clock \in ClockType
    BY DEF IInv, ClockInv, ClockType
  <1>1. ShadowType(live) /\ Len(live.calls) <= CallstackCap /\ (profile.active \/ live.prof = << >>)
    BY <1>0, LiveFacts DEF ShadowType
  <1>2. \A st : ShadowType(st) => Len(st.calls) \in Nat
    BY LenProperties DEF ShadowType
  <1>3. ASSUME NEW i \in DOMAIN parked
        PROVE  /\ ShadowType(parked[i]) /\ parked[i].calls # << >>
               /\ parked[i].at \in Nat /\ parked[i].at <= Stamp
               /\ parked[i].prof \in Seq(Pushed(parked[i].at))
    <2>1. parked[i] \in Holdable(Stamp, profile.active)
      BY <1>0, ParkedElements
    <2> QED
      BY <2>1, Held DEF ShadowType
  <1> QED
    BY <1>0, <1>1, <1>2, <1>3, NowIsLater

\* The tasks and their calls.
LEMMA TaskTypes ==
    ASSUME IInv
    PROVE  /\ task \in TaskType /\ task.cur \in Tasks /\ task.on \in [Tasks -> OnType]
           /\ Running = task.on[task.cur] /\ Running \in OnType
           /\ \A t \in Tasks : /\ task.on[t] \in OnType /\ task.on[t].calls \in Seq(Calls)
                               /\ task.on[t].s \in Nat
           /\ profile \in ProfileType
  BY DEF IInv, TaskInv, TaskType, OnType, Running, StatsInv, ProfileType

\* The task a shadow stack belongs to: its top is on that task's stack, where
\* the task can go on.
LEMMA TopOf ==
    ASSUME NEW u \in Tasks, NEW on \in OnType, Chained(on, u),
           NEW st, ShadowType(st), st.calls # << >>,
           NEW t, NEW filter, Mirrors(st, on.calls, t, filter)
    PROVE  /\ on.calls # << >> /\ st.calls_s # << >>
           /\ Inner(on.calls, 0).tracked
           /\ Last(st.calls_s) = Last(on.calls).s
           /\ Last(st.calls_s) \in StackOf(u)
           /\ StackResumesAt(Last(st.calls_s), on.s)
  <1> DEFINE c == on.calls
             n == Len(st.calls)
             m == Len(c)
  <1>1. c \in Seq(Calls) /\ st.calls \in Seq(Targets) /\ st.calls_s \in Seq(Nat) /\ Len(st.calls_s) = n
    BY DEF OnType, ShadowType
  <1>2. n \in Nat \ {0} /\ m \in Nat /\ n <= m
    BY <1>1, EmptySeq, LenProperties DEF Mirrors
  <1>3. c # << >> /\ st.calls_s # << >> /\ 0 < n /\ 0 < m
    BY <1>1, <1>2, EmptySeq
  <1>4. Last(st.calls_s) = Inner(st.calls_s, 0) /\ Last(c) = Inner(c, 0)
    BY <1>1, <1>3, InnerPop
  <1>5. Inner(c, 0).tracked /\ Inner(st.calls_s, 0) = Inner(c, 0).s
    BY <1>3 DEF Mirrors
  <1>6. m - 0 \in DOMAIN c
    BY <1>1, <1>2, CallElements
  <1>7. Inner(c, 0).s \in StackOf(u) /\ StackResumesAt(Last(c).s, on.s)
    BY <1>3, <1>6 DEF Chained, Inner
  <1> QED
    BY <1>3, <1>4, <1>5, <1>7

\* What the next state has to be like.
LEMMA FollowNext ==
    ASSUME missed' = "none" =>
             /\ profile'.stats = truth'
             /\ Mirrors(live', task'.on[task'.cur].calls, Now', profile'.filter)
             /\ \E own \in [DOMAIN parked' -> Tasks] : Owners(own)'
    PROVE  FollowInv'
  BY DEF FollowInv, Running

\* Only the running task has done anything.
LEMMA OwnersStay ==
    ASSUME NEW own \in [DOMAIN parked -> Tasks], Owners(own),
           parked' = parked, profile'.filter = profile.filter, task'.cur = task.cur,
           \A t \in Tasks : t # task.cur => task'.on[t] = task.on[t]
    PROVE  Owners(own)'
  <1>1. \A t \in Tasks \ {task.cur} : Observed(t)' <=> Observed(t)
    BY DEF Observed
  <1>2. Others' = Others
    BY <1>1 DEF Others
  <1>3. \A i \in DOMAIN parked : own[i] \in Others
    BY DEF Owners
  <1>4. \A i \in DOMAIN parked : own[i] \in Tasks /\ own[i] # task.cur
    BY <1>3 DEF Others
  <1>5. \A i \in DOMAIN parked : task'.on[own[i]] = task.on[own[i]]
    BY <1>4
  <1> QED
    BY <1>2, <1>5 DEF Owners

\* Steps of the running task, and steps that do not concern the tasks.
LEMMA Stays ==
    ASSUME FollowInv, parked' = parked, profile'.filter = profile.filter, missed' = missed,
           task'.cur = task.cur, \A t \in Tasks : t # task.cur => task'.on[t] = task.on[t],
           missed = "none" /\ profile.stats = truth
             /\ Mirrors(live, Running.calls, Now, profile.filter)
           => /\ profile'.stats = truth'
              /\ Mirrors(live', task'.on[task.cur].calls, Now', profile.filter)
    PROVE  FollowInv'
  <1> SUFFICES ASSUME missed = "none"
               PROVE  /\ profile'.stats = truth'
                      /\ Mirrors(live', task'.on[task.cur].calls, Now', profile.filter)
                      /\ \E own \in [DOMAIN parked -> Tasks] : Owners(own)'
    BY FollowNext
  <1>1. PICK own \in [DOMAIN parked -> Tasks] : Owners(own)
    BY DEF FollowInv
  <1>2. Owners(own)'
    BY <1>1, OwnersStay
  <1> QED
    BY <1>2 DEF FollowInv

\* A step that only takes a cycle.
LEMMA StaysRunning ==
    ASSUME IInv, FollowInv, Spend, clock' = Advanced(clock),
           live' = live, parked' = parked, profile' = profile, truth' = truth, missed' = missed,
           task'.cur = task.cur, task'.on[task.cur].calls = Ran(Running.calls),
           \A t \in Tasks : t # task.cur => task'.on[t] = task.on[t]
    PROVE  FollowInv'
  <1>1. Now' = Now + 1
    BY NowMoves
  <1>2. /\ Running.calls \in Seq(Calls) /\ Now \in Nat
        /\ Len(live.calls) \in Nat /\ live.prof \in Seq(ProfFrames)
    BY TaskTypes, ShadowTypes DEF ShadowType
  <1>3. Mirrors(live, Running.calls, Now, profile.filter)
        => Mirrors(live', task'.on[task.cur].calls, Now', profile.filter)
    BY <1>1, <1>2, MirrorsRan
  <1> QED
    BY <1>3, Stays

\* The calls that are made.
LEMMA FollowCall ==
    ASSUME IInv, ChainInv, FollowInv, NEW f \in Targets, Call(f)
    PROVE  FollowInv'
  <1> DEFINE s == Running.s - 1
             x == Made(f, s)
             c == Running.calls
             fr == ProfFrame(f)
             on == profile.active \/ trace.active
  <1>1. /\ task'.cur = task.cur
        /\ x \in Calls /\ x.s = s /\ x.target = f /\ x.tracked
        /\ (x.timed <=> profile.active) /\ x.incl = 0 /\ x.own = 0
        /\ task'.on[task.cur].calls = Ran(Append(BeforeCall, x))
        /\ \A t \in Tasks : t # task.cur => task'.on[t] = task.on[t]
    BY CallTask
  <1>2. /\ Spend /\ clock' = Advanced(SampledIf(on))
        /\ live' = [calls |-> PushCapped(live.calls, f), calls_s |-> PushCapped(live.calls_s, s),
                    prof |-> ProfileOnCall(f)]
        /\ parked' = parked /\ profile' = profile /\ truth' = truth /\ missed' = missed
    BY DEF Call
  <1>3. Now' = Now + 1 /\ Now \in Nat
    BY <1>2, NowMoves, ShadowTypes
  <1>4. /\ ShadowType(live) /\ Len(live.calls) \in Nat /\ Len(live.calls) <= CallstackCap
        /\ (profile.active \/ live.prof = << >>)
        /\ Running \in OnType /\ c \in Seq(Calls)
    BY ShadowTypes, TaskTypes
  <1>5. BeforeCall \in Seq(Calls) /\ SameTimes(BeforeCall, c)
    BY <1>4, BeforeFields
  <1>6. /\ fr \in ProfFrames /\ fr.target = f /\ (fr.aggregated <=> fr.target \in profile.filter)
        /\ fr.push = Now /\ fr.child = 0
    <2> DEFINE v == f \in profile.filter
    <2>1. v \in BOOLEAN
      OBVIOUS
    <2>2. fr = [target |-> f, push |-> Now, child |-> 0, aggregated |-> v]
      BY DEF ProfFrame
    <2> HIDE DEF v
    <2>3. fr \in ProfFrames
      BY <1>3, <2>1, <2>2 DEF ProfFrames
    <2>4. fr.target = f /\ fr.push = Now /\ fr.child = 0
      BY <2>2
    <2>5. fr.aggregated = v
      BY <2>2
    <2> QED
      BY <2>3, <2>4, <2>5 DEF v
  <1>7. /\ live'.calls = PushCapped(live.calls, x.target)
        /\ live'.calls_s = PushCapped(live.calls_s, x.s)
        /\ \/ x.timed /\ live'.prof = Append(live.prof, fr)
           \/ ~x.timed /\ live.prof = << >> /\ live'.prof = << >>
    BY <1>1, <1>2, <1>4 DEF ProfileOnCall
  <1> HIDE DEF s, x, c, fr
  <1>8. ASSUME Mirrors(live, c, Now, profile.filter)
        PROVE  Mirrors(live', task'.on[task.cur].calls, Now', profile.filter)
    <2>1. \A k \in Nat : k < Len(c) =>
             (Inner(BeforeCall, k).tracked <=>
                 k < Len(live.calls)
                 /\ ~(Len(live.calls) = CallstackCap /\ k + 1 = Len(live.calls)))
      BY <1>4, <1>8, BeforeTracks DEF c
    <2>2. Mirrors(live', Append(BeforeCall, x), Now, profile.filter)
      <3> DEFINE st == live
                 en == live'
                 b == BeforeCall
                 t == Now
                 filter == profile.filter
      <3>1. /\ ShadowType(st) /\ Len(st.calls) <= CallstackCap
            /\ c \in Seq(Calls) /\ t \in Nat /\ Mirrors(st, c, t, filter)
            /\ b \in Seq(Calls) /\ SameTimes(b, c)
        BY <1>3, <1>4, <1>5, <1>8
      <3>2. \A k \in Nat : k < Len(c) =>
               (Inner(b, k).tracked <=> k < Len(st.calls)
                                       /\ ~(Len(st.calls) = CallstackCap /\ k + 1 = Len(st.calls)))
        BY <2>1
      <3>3. /\ x \in Calls /\ x.tracked /\ x.incl = 0 /\ x.own = 0
            /\ en.calls = PushCapped(st.calls, x.target) /\ en.calls_s = PushCapped(st.calls_s, x.s)
        BY <1>1, <1>7
      <3>4. /\ fr \in ProfFrames /\ fr.target = x.target /\ (fr.aggregated <=> fr.target \in filter)
            /\ fr.push = t /\ fr.child = 0
        BY <1>1, <1>6
      <3>5. \/ x.timed /\ en.prof = Append(st.prof, fr)
            \/ ~x.timed /\ st.prof = << >> /\ en.prof = << >>
        BY <1>7
      <3> HIDE DEF st, en, b, t, filter
      <3>6. Mirrors(en, Append(b, x), t, filter)
        BY <3>1, <3>2, <3>3, <3>4, <3>5, MirrorsPush
      <3> QED
        BY <3>6 DEF en, b, t, filter
    <2>3. Append(BeforeCall, x) \in Seq(Calls)
      BY <1>1, <1>5, AppendProperties
    <2>4. Len(live'.calls) \in Nat /\ live'.prof \in Seq(ProfFrames)
      <3>0. live.calls \in Seq(Targets) /\ x.target \in Targets /\ Len(live.calls) <= CallstackCap
        BY <1>1, <1>4 DEF ShadowType
      <3>1. PushCapped(live.calls, x.target) \in Seq(Targets)
        <4> DEFINE q == live.calls
                   y == x.target
        <4>1. q \in Seq(Targets) /\ y \in Targets /\ Len(q) <= CallstackCap
          BY <3>0
        <4> HIDE DEF q, y
        <4>2. PushCapped(q, y) \in Seq(Targets)
          BY <4>1, PushesCapped
        <4> QED
          BY <4>2 DEF q, y
      <3>2. live'.prof \in Seq(ProfFrames)
        <4> DEFINE q == live.prof
                   e == live'.prof
        <4>1. q \in Seq(ProfFrames) /\ fr \in ProfFrames /\ << >> \in Seq(ProfFrames)
          BY <1>4, <1>6, EmptySeq DEF ShadowType
        <4>2. e = Append(q, fr) \/ e = << >>
          BY <1>7
        <4> HIDE DEF q, e
        <4>3. Append(q, fr) \in Seq(ProfFrames)
          BY <4>1, AppendProperties
        <4>4. e \in Seq(ProfFrames)
          BY <4>1, <4>2, <4>3
        <4> QED
          BY <4>4 DEF e
      <3> QED
        BY <1>7, <3>1, <3>2, LenProperties
    <2> QED
      BY <1>1, <1>3, <2>2, <2>3, <2>4, MirrorsRan
  <1> QED
    BY <1>1, <1>2, <1>8, Stays DEF c

\* The calls that end.
LEMMA FollowReturn ==
    ASSUME IInv, ChainInv, FollowInv, Return
    PROVE  FollowInv'
  <1> DEFINE c == Running.calls
  <1>1. /\ task'.cur = task.cur /\ c # << >>
        /\ task'.on[task.cur].calls = Ran(Front(c))
        /\ \A t \in Tasks : t # task.cur => task'.on[t] = task.on[t]
    BY ReturnTask
  <1>2. Spend /\ truth' = TruthOnReturn /\ parked' = parked /\ missed' = missed
    BY DEF Return
  <1>3. /\ ShadowType(live) /\ Len(live.calls) \in Nat /\ Now \in Nat
        /\ (profile.active \/ live.prof = << >>) /\ profile \in ProfileType
        /\ Running \in OnType /\ c \in Seq(Calls)
    BY ShadowTypes, TaskTypes
  <1>4. /\ Front(c) \in Seq(Calls) /\ Len(Front(c)) = Len(c) - 1 /\ Len(c) \in Nat \ {0}
        /\ Last(c) = Inner(c, 0)
        /\ \A k \in Nat : k < Len(c) - 1 => Inner(Front(c), k) = Inner(c, k + 1)
    BY <1>1, <1>3, InnerPop
  <1>5. CASE live.calls = << >>
    <2>1. live' = live /\ profile' = profile /\ clock' = Advanced(clock)
      BY <1>5 DEF Return, ReturnNowhere
    <2>2. Now' = Now + 1
      BY <1>2, <2>1, NowMoves
    <2>3. ASSUME Mirrors(live, c, Now, profile.filter)
          PROVE  /\ truth' = truth
                 /\ Mirrors(live', task'.on[task.cur].calls, Now', profile.filter)
      <3>1. Len(live.calls) = 0
        BY <1>5, EmptySeq
      <3>2. \A k \in Nat : k < Len(c) => ~Inner(c, k).tracked
        BY <2>3, <3>1 DEF Mirrors
      <3>3. ~Last(c).tracked
        BY <1>4, <3>2
      <3>4. truth' = truth
        BY <1>2, <3>3 DEF TruthOnReturn
      <3>5. \A k \in Nat : k < Len(Front(c)) => ~Inner(Front(c), k).tracked
        <4> TAKE k \in Nat
        <4> HAVE k < Len(Front(c))
        <4>1. k < Len(c) - 1 /\ k + 1 \in Nat /\ k + 1 < Len(c)
          BY <1>4
        <4> QED
          BY <1>4, <3>2, <4>1
      <3>6. Mirrors(live, Front(c), Now, profile.filter)
        BY <1>4, <3>1, <3>5 DEF Mirrors
      <3>7. Mirrors(live, Ran(Front(c)), Now + 1, profile.filter)
        BY <1>3, <1>4, <3>6, MirrorsRan DEF ShadowType
      <3> QED
        BY <1>1, <2>1, <2>2, <3>4, <3>7
    <2> QED
      BY <1>1, <1>2, <2>1, <2>3, Stays
  <1>6. CASE live.calls # << >>
    <2>1. /\ live' = [calls |-> Front(live.calls), calls_s |-> Front(live.calls_s),
                      prof |-> ProfileOnReturn]
          /\ profile' = [profile EXCEPT !.stats = StatsOnReturn]
          /\ \E on : clock' = Advanced(SampledIf(on))
      BY <1>6 DEF Return
    <2>2. Now' = Now + 1
      BY <1>2, <2>1, NowMoves
    <2>3. profile'.stats = StatsOnReturn /\ profile'.filter = profile.filter
      BY <1>3, <2>1 DEF ProfileType
    <2>4. \/ live.prof = << >> /\ live'.prof = << >>
          \/ /\ live.prof # << >>
             /\ live'.prof = ChargeChild(Front(live.prof), Now - Last(live.prof).push)
      BY <1>3, <2>1 DEF ProfileOnReturn, Pops, Inclusive
    <2>5. live'.calls = Front(live.calls) /\ live'.calls_s = Front(live.calls_s)
      BY <2>1
    <2>6. Len(live'.calls) \in Nat /\ live'.prof \in Seq(ProfFrames)
      <3>1. Front(live.calls) \in Seq(Targets)
        BY <1>3, <1>6, FrontLast DEF ShadowType
      <3>2. ProfileOnReturn \in Seq(Pushed(Stamp))
        BY ReturnPops, ShadowTypes DEF IInv
      <3>3. ProfileOnReturn \in Seq(ProfFrames)
        BY <3>2, SeqMonotonic DEF Pushed
      <3> QED
        BY <2>1, <2>5, <3>1, <3>3, LenProperties
    <2>7. ASSUME Mirrors(live, c, Now, profile.filter), profile.stats = truth
          PROVE  /\ profile'.stats = truth'
                 /\ Mirrors(live', task'.on[task.cur].calls, Now', profile.filter)
      <3>1. StatsOnReturn = TruthOnReturn
        BY <1>3, <1>6, <2>7, CountsTruth
      <3>2. Mirrors(live', Front(c), Now, profile.filter)
        BY <1>3, <1>6, <2>4, <2>5, <2>7, MirrorsPop
      <3>3. Mirrors(live', Ran(Front(c)), Now + 1, profile.filter)
        BY <1>3, <1>4, <2>6, <3>2, MirrorsRan
      <3> QED
        BY <1>1, <1>2, <2>2, <2>3, <3>1, <3>3
    <2> QED
      BY <1>1, <1>2, <2>3, <2>7, Stays
  <1> QED
    BY <1>5, <1>6

\* The same tracked calls.
LEMMA SameObserved ==
    ASSUME NEW c \in Seq(Calls), NEW d \in Seq(Calls), SameCalls(d, c), SameTracks(d, c)
    PROVE  (\E i \in DOMAIN d : d[i].tracked) <=> (\E i \in DOMAIN c : c[i].tracked)
  <1>1. DOMAIN d = 1 .. Len(c) /\ DOMAIN c = 1 .. Len(c)
    BY CallElements DEF SameCalls
  <1> QED
    BY <1>1 DEF SameTracks

\* Whatever was missed is forgotten with the shadow stacks.
LEMMA FollowClears ==
    ASSUME IInv, FollowInv, ClearShadowStacks, profile' = profile,
           task'.cur \in Tasks,
           \A t \in Tasks : /\ task'.on[t].calls \in Seq(Calls)
                            /\ \A i \in 1 .. Len(task'.on[t].calls) : ~task'.on[t].calls[i].tracked
    PROVE  FollowInv'
  <1>1. /\ live' = [NoStack EXCEPT !.prof = live.prof] /\ parked' = << >>
        /\ truth' = IF missed = "none" THEN truth ELSE profile.stats
    BY DEF ClearShadowStacks
  <1>2. profile'.stats = truth'
    BY <1>1 DEF FollowInv
  <1>3. live'.calls = << >>
    BY <1>1 DEF NoStack
  <1>4. Mirrors(live', task'.on[task'.cur].calls, Now', profile'.filter)
    <2> DEFINE c == task'.on[task'.cur].calls
               st == live'
    <2>1. c \in Seq(Calls) /\ \A i \in 1 .. Len(c) : ~c[i].tracked
      OBVIOUS
    <2>2. st.calls = << >>
      BY <1>3
    <2> HIDE DEF c, st
    <2>3. Mirrors(st, c, Now', profile'.filter)
      BY <2>1, <2>2, MirrorsNone
    <2> QED
      BY <2>3 DEF c, st
  <1>5. DOMAIN parked' = {}
    <2>1. DOMAIN << >> = {}
      OBVIOUS
    <2> QED
      BY <1>1, <2>1
  <1>6. \A t \in Tasks : ~Observed(t)'
    <2> TAKE t \in Tasks
    <2>1. DOMAIN task'.on[t].calls = 1 .. Len(task'.on[t].calls)
      BY CallElements
    <2> QED
      BY <2>1 DEF Observed
  <1>7. Others' = {}
    BY <1>6 DEF Others
  <1>8. PICK own \in [{} -> Tasks] : TRUE
    <2>1. [i \in {} |-> Boot] \in [{} -> Tasks]
      OBVIOUS
    <2> QED
      BY <2>1
  <1>9. Owners(own)'
    BY <1>5, <1>7 DEF Owners
  <1>10. \E o \in [DOMAIN parked' -> Tasks] : Owners(o)'
    BY <1>5, <1>8, <1>9
  <1> QED
    BY <1>2, <1>4, <1>10, FollowNext

\* The frames of the profiler are dropped: no call in progress counts.
LEMMA FollowUntimes ==
    ASSUME IInv, FollowInv, ClearProfileFrames, missed' = missed,
           missed = "none" /\ profile.stats = truth => profile'.stats = truth'
    PROVE  FollowInv'
  <1>1. /\ live' = [live EXCEPT !.prof = << >>]
        /\ parked' = [i \in DOMAIN parked |-> [parked[i] EXCEPT !.prof = << >>]]
        /\ task' = [task EXCEPT !.on = AllUntimed]
    BY DEF ClearProfileFrames
  <1>2. task \in TaskType /\ task.cur \in Tasks /\ \A t \in Tasks : task.on[t].calls \in Seq(Calls)
    BY TaskTypes
  <1>3. /\ task'.cur = task.cur
        /\ \A t \in Tasks : task'.on[t].calls = Untimed(task.on[t].calls)
    BY <1>1, <1>2, AllFields
  <1>4. \A t \in Tasks : Observed(t)' <=> Observed(t)
    <2> TAKE t \in Tasks
    <2> DEFINE c == task.on[t].calls
               d == task'.on[t].calls
    <2>1. c \in Seq(Calls) /\ d = Untimed(c)
      BY <1>2, <1>3
    <2> HIDE DEF c, d
    <2>2. d \in Seq(Calls) /\ SameCalls(d, c) /\ SameTracks(d, c)
      BY <2>1, ForgottenFields
    <2>3. (\E i \in DOMAIN d : d[i].tracked) <=> (\E i \in DOMAIN c : c[i].tracked)
      BY <2>1, <2>2, SameObserved
    <2> QED
      BY <2>3 DEF c, d, Observed
  <1>5. Others' = Others
    BY <1>3, <1>4 DEF Others
  <1>6. LiveInv /\ ParkedInv
    BY DEF IInv
  <1>7. /\ live'.calls = live.calls /\ live'.calls_s = live.calls_s /\ live'.prof = << >>
        /\ Len(live.calls) \in Nat
    BY <1>1, <1>6, LiveFacts, ShadowTypes
  <1>8. /\ DOMAIN parked' = DOMAIN parked
        /\ \A i \in DOMAIN parked :
              /\ parked'[i].calls = parked[i].calls /\ parked'[i].calls_s = parked[i].calls_s
              /\ parked'[i].prof = << >> /\ Len(parked[i].calls) \in Nat
    <2>1. DOMAIN parked' = DOMAIN parked
      BY <1>1
    <2>2. ASSUME NEW i \in DOMAIN parked
          PROVE  /\ parked'[i].calls = parked[i].calls /\ parked'[i].calls_s = parked[i].calls_s
                 /\ parked'[i].prof = << >> /\ Len(parked[i].calls) \in Nat
      <3>1. parked[i] \in ParkedStacks
        BY <1>6, ParkedElements DEF Holdable
      <3>2. parked'[i] = [parked[i] EXCEPT !.prof = << >>]
        BY <1>1
      <3>3. Len(parked[i].calls) \in Nat
        BY ShadowTypes
      <3> QED
        BY <3>1, <3>2, <3>3 DEF ParkedStacks
    <2> QED
      BY <2>1, <2>2
  <1> SUFFICES ASSUME missed = "none"
               PROVE  /\ profile'.stats = truth'
                      /\ Mirrors(live', task'.on[task'.cur].calls, Now', profile'.filter)
                      /\ \E own \in [DOMAIN parked' -> Tasks] : Owners(own)'
    BY FollowNext
  <1>9. /\ profile.stats = truth /\ Mirrors(live, Running.calls, Now, profile.filter)
    BY DEF FollowInv
  <1>10. Mirrors(live', task'.on[task'.cur].calls, Now', profile'.filter)
    <2> DEFINE c == task.on[task.cur].calls
               st == live
               en == live'
    <2>1. c \in Seq(Calls) /\ Mirrors(st, c, Now, profile.filter) /\ Len(st.calls) \in Nat
      BY <1>2, <1>7, <1>9 DEF Running
    <2>2. en.calls = st.calls /\ en.calls_s = st.calls_s /\ en.prof = << >>
      BY <1>7
    <2>3. task'.on[task'.cur].calls = Untimed(c)
      BY <1>2, <1>3
    <2> HIDE DEF c, st, en
    <2>4. Mirrors(en, Untimed(c), Now', profile'.filter)
      BY <2>1, <2>2, MirrorsUntimed
    <2> QED
      BY <2>3, <2>4 DEF en
  <1>11. PICK own \in [DOMAIN parked -> Tasks] : Owners(own)
    BY DEF FollowInv
  <1>12. ASSUME NEW i \in DOMAIN parked
         PROVE  Mirrors(parked'[i], task'.on[own[i]].calls, parked'[i].at, profile'.filter)
    <2> DEFINE c == task.on[own[i]].calls
               st == parked[i]
               en == parked'[i]
    <2>1. c \in Seq(Calls) /\ Mirrors(st, c, st.at, profile.filter) /\ Len(st.calls) \in Nat
      BY <1>2, <1>8, <1>11, <1>12 DEF Owners
    <2>2. en.calls = st.calls /\ en.calls_s = st.calls_s /\ en.prof = << >>
      BY <1>8, <1>12
    <2>3. task'.on[own[i]].calls = Untimed(c)
      BY <1>3, <1>11, <1>12
    <2> HIDE DEF c, st
    <2>4. Mirrors(en, Untimed(c), en.at, profile'.filter)
      <3> HIDE DEF en
      <3> QED
        BY <2>1, <2>2, MirrorsUntimed
    <2> QED
      BY <2>3, <2>4
  <1>13. Owners(own)'
    BY <1>5, <1>8, <1>11, <1>12 DEF Owners
  <1> QED
    BY <1>8, <1>9, <1>10, <1>13

\* What the host does to the hook and the timeline, and the end of a frame.
LEMMA FollowIdle ==
    ASSUME IInv, FollowInv, task' = task, live' = live, parked' = parked,
           profile' = profile, missed' = missed, truth' = truth,
           \/ clock' = clock
           \/ clock' = Sampled(clock)
           \/ \E on : clock' = SampledIf(on)
    PROVE  FollowInv'
  <1>1. Now' = Now
    BY NowMoves
  <1> QED
    BY <1>1, Stays DEF Running

\* The stack that can go on at an S is parked by the task that S belongs to, and
\* where that task can go on, its stack can.
LEMMA MatchesOwn ==
    ASSUME IInv, ChainInv, NEW own \in [DOMAIN parked -> Tasks], Owners(own),
           NEW u \in Tasks
    PROVE  /\ \A s \in StackOf(u) : \A i \in Matches(s) : own[i] = u
           /\ \A i \in DOMAIN parked : own[i] = u => i \in Matches(task.on[u].s)
  <1>1. ASSUME NEW i \in DOMAIN parked
        PROVE  /\ Last(parked[i].calls_s) \in StackOf(own[i])
               /\ StackResumesAt(Last(parked[i].calls_s), task.on[own[i]].s)
    <2>1. own[i] \in Tasks
      BY <1>1
    <2>2. /\ task.on[own[i]] \in OnType /\ Chained(task.on[own[i]], own[i])
          /\ ShadowType(parked[i]) /\ parked[i].calls # << >>
          /\ Mirrors(parked[i], task.on[own[i]].calls, parked[i].at, profile.filter)
      BY <1>1, <2>1, TaskTypes, ShadowTypes DEF ChainInv, Owners
    <2> DEFINE v == own[i]
               on == task.on[own[i]]
               st == parked[i]
    <2>3. /\ v \in Tasks /\ on \in OnType /\ Chained(on, v)
          /\ ShadowType(st) /\ st.calls # << >> /\ Mirrors(st, on.calls, st.at, profile.filter)
      BY <2>1, <2>2
    <2> HIDE DEF v, on, st
    <2>4. Last(st.calls_s) \in StackOf(v) /\ StackResumesAt(Last(st.calls_s), on.s)
      BY <2>3, TopOf
    <2> QED
      BY <2>4 DEF v, on, st
  <1>2. ASSUME NEW s \in StackOf(u), NEW i \in Matches(s)
        PROVE  own[i] = u
    <2>1. i \in DOMAIN parked /\ StackResumesAt(Last(parked[i].calls_s), s)
      BY <1>2 DEF Matches
    <2>2. own[i] \in Tasks /\ Last(parked[i].calls_s) \in StackOf(own[i])
      BY <1>1, <2>1
    <2> QED
      BY <2>1, <2>2, Apart
  <1>3. ASSUME NEW i \in DOMAIN parked, own[i] = u
        PROVE  i \in Matches(task.on[u].s)
    BY <1>1, <1>3 DEF Matches
  <1> QED
    BY <1>2, <1>3

\* A move of S on the stack of the running task switches nothing.
LEMMA FollowLocal ==
    ASSUME IInv, ChainInv, FollowInv, NEW s, LocalFrame(s)
    PROVE  FollowInv'
  <1>1. /\ s \in Reach(Running, StackBase[task.cur])
        /\ Spend /\ SwitchShadowStack(s, task.cur, [task.on EXCEPT ![task.cur].s = s])
        /\ profile' = profile /\ missed' = missed /\ truth' = truth
    BY DEF LocalFrame
  <1>2. /\ task.cur \in Tasks /\ task.on \in [Tasks -> OnType] /\ Running = task.on[task.cur]
        /\ Running \in OnType /\ Chained(Running, task.cur)
        /\ ShadowType(live)
    BY TaskTypes, ShadowTypes DEF ChainInv
  <1>3. /\ s \in StackOf(task.cur)
        /\ Running.calls # << >> => StackResumesAt(Last(Running.calls).s, s)
    <2> DEFINE on == Running
               t == task.cur
    <2>1. t \in Tasks /\ on \in OnType /\ Chained(on, t) /\ s \in Reach(on, StackBase[t])
      BY <1>1, <1>2
    <2> HIDE DEF on, t
    <2>2. s \in StackOf(t) /\ (on.calls # << >> => StackResumesAt(Last(on.calls).s, s))
      BY <2>1, ChainMoves
    <2> QED
      BY <2>2 DEF on, t
  <1>4. CASE missed # "none"
    BY <1>1, <1>4 DEF FollowInv
  <1>5. CASE missed = "none"
    <2>1. Mirrors(live, Running.calls, Now, profile.filter)
      BY <1>5 DEF FollowInv
    <2>2. PICK own \in [DOMAIN parked -> Tasks] : Owners(own)
      BY <1>5 DEF FollowInv
    <2>3. live.calls # << >> =>
             live.calls_s # << >> /\ StackResumesAt(Last(live.calls_s), s)
      <3> SUFFICES ASSUME live.calls # << >>
                   PROVE  live.calls_s # << >> /\ StackResumesAt(Last(live.calls_s), s)
        OBVIOUS
      <3>1. /\ Running.calls # << >> /\ live.calls_s # << >>
            /\ Last(live.calls_s) = Last(Running.calls).s
        BY <1>2, <2>1, TopOf
      <3> QED
        BY <1>3, <3>1
    <2>4. Matches(s) = {}
      <3> SUFFICES ASSUME NEW i \in Matches(s) PROVE FALSE
        OBVIOUS
      <3>1. own[i] = task.cur
        BY <1>2, <1>3, <2>2, MatchesOwn
      <3>2. i \in DOMAIN parked
        BY DEF Matches
      <3>3. own[i] \in Others
        BY <2>2, <3>2 DEF Owners
      <3> QED
        BY <3>1, <3>3 DEF Others
    <2>5. NoSwitch(s)
      BY <2>3, <2>4 DEF NoSwitch
    <2>6. /\ task' = [cur |-> task.cur,
                      on |-> [[task.on EXCEPT ![task.cur].s = s] EXCEPT ![task.cur].calls = Ran(@)]]
          /\ clock' = Advanced(clock) /\ live' = live /\ parked' = parked
      BY <1>1, <2>5 DEF SwitchShadowStack
    <2>7. /\ task'.cur = task.cur
          /\ \A t \in Tasks : t # task.cur => task'.on[t] = task.on[t]
      BY <1>2, <2>6
    <2>8. task'.on[task.cur].calls = Ran(Running.calls)
      <3> DEFINE en == [task.on EXCEPT ![task.cur].s = s]
      <3>1. en[task.cur] = [Running EXCEPT !.s = s] /\ DOMAIN en = Tasks
        BY <1>2
      <3>2. en[task.cur].calls = Running.calls
        BY <1>2, <3>1 DEF OnType
      <3>3. task'.on = [en EXCEPT ![task.cur].calls = Ran(@)]
        BY <2>6
      <3>4. DOMAIN en[task.cur] = {"s", "calls"}
        BY <1>2, <3>1 DEF OnType
      <3> HIDE DEF en
      <3>5. task'.on[task.cur] = [en[task.cur] EXCEPT !.calls = Ran(@)]
        BY <1>2, <3>1, <3>3
      <3>6. task'.on[task.cur].calls = Ran(en[task.cur].calls)
        BY <3>4, <3>5
      <3> QED
        BY <3>2, <3>6
    <2> QED
      BY <1>1, <2>6, <2>7, <2>8, StaysRunning
  <1> QED
    BY <1>4, <1>5

\* What is left of a sequence when one element is taken out.
LEMMA RemovesElement ==
    ASSUME NEW S, NEW seq \in Seq(S), NEW i \in 1 .. Len(seq)
    PROVE  \A j \in 1 .. Len(seq) - 1 :
              /\ j < i => RemoveAt(seq, i)[j] = seq[j]
              /\ j >= i => RemoveAt(seq, i)[j] = seq[j + 1]
  <1>0. Len(seq) \in Nat /\ \A j \in 1 .. Len(seq) : seq[j] \in S
    BY LenProperties, ElementOfSeq
  <1>1. i - 1 \in Int /\ i + 1 \in Int /\ Len(seq) \in Int /\ 1 \in Int
    BY <1>0
  <1>2. (\A j \in 1 .. i - 1 : seq[j] \in S) /\ (\A j \in i + 1 .. Len(seq) : seq[j] \in S)
    BY <1>0
  <1> DEFINE low == SubSeq(seq, 1, i - 1)
             high == SubSeq(seq, i + 1, Len(seq))
             rest == RemoveAt(seq, i)
  <1>3. /\ low \in Seq(S) /\ Len(low) = IF 1 <= i - 1 THEN (i - 1) - 1 + 1 ELSE 0
        /\ \A j \in 1 .. (i - 1) - 1 + 1 : low[j] = seq[1 + j - 1]
    BY <1>1, <1>2, SubSeqProperties
  <1>4. /\ high \in Seq(S)
        /\ Len(high) = IF i + 1 <= Len(seq) THEN Len(seq) - (i + 1) + 1 ELSE 0
        /\ \A j \in 1 .. Len(seq) - (i + 1) + 1 : high[j] = seq[(i + 1) + j - 1]
    BY <1>1, <1>2, SubSeqProperties
  <1>5. rest = low \o high
    BY DEF RemoveAt
  <1> HIDE DEF low, high, rest
  <1>6. \A j \in 1 .. Len(low) + Len(high) :
           rest[j] = IF j <= Len(low) THEN low[j] ELSE high[j - Len(low)]
    BY <1>3, <1>4, <1>5, ConcatProperties
  <1>7. Len(low) = i - 1
    <2>1. i = 1 => Len(low) = 0
      BY <1>3
    <2>2. i > 1 => Len(low) = (i - 1) - 1 + 1
      BY <1>0, <1>3
    <2> QED
      BY <1>0, <2>1, <2>2
  <1>8. Len(high) = Len(seq) - i
    <2>1. i = Len(seq) => Len(high) = 0
      BY <1>0, <1>4
    <2>2. i < Len(seq) => Len(high) = Len(seq) - (i + 1) + 1
      BY <1>0, <1>4
    <2> QED
      BY <1>0, <2>1, <2>2
  <1>9. ASSUME NEW j \in 1 .. Len(seq) - 1, j < i
        PROVE  rest[j] = seq[j]
    <2>1. j \in 1 .. Len(low) + Len(high) /\ j <= Len(low) /\ j \in 1 .. (i - 1) - 1 + 1
      BY <1>0, <1>7, <1>8, <1>9
    <2>2. rest[j] = low[j]
      BY <1>6, <2>1
    <2>3. low[j] = seq[1 + j - 1] /\ 1 + j - 1 = j
      BY <1>3, <2>1
    <2> QED
      BY <2>2, <2>3
  <1>10. ASSUME NEW j \in 1 .. Len(seq) - 1, j >= i
         PROVE  rest[j] = seq[j + 1]
    <2>1. /\ j \in 1 .. Len(low) + Len(high) /\ ~(j <= Len(low))
          /\ j - Len(low) \in 1 .. Len(seq) - (i + 1) + 1
          /\ (i + 1) + (j - Len(low)) - 1 = j + 1
      BY <1>0, <1>7, <1>8, <1>10
    <2>2. rest[j] = high[j - Len(low)]
      BY <1>6, <2>1
    <2>3. high[j - Len(low)] = seq[(i + 1) + (j - Len(low)) - 1]
      BY <1>4, <2>1
    <2> QED
      BY <2>1, <2>2, <2>3
  <1> QED
    BY <1>9, <1>10 DEF rest

\* The parked stacks beside the one that goes on at s.
Left(s) == IF Matches(s) = {} THEN DOMAIN parked ELSE DOMAIN parked \ {Best(s)}

\* A sequence has the parked stacks of a set, each once.
Lists(seq, p, set) ==
    /\ \A j, k \in 1 .. Len(seq) : p[j] = p[k] => j = k
    /\ {p[j] : j \in 1 .. Len(seq)} = set
    /\ \A j \in 1 .. Len(seq) : seq[j] = parked[p[j]]

\* Those are what remains.
LEMMA RemainMap ==
    ASSUME ParkedInv, NEW s
    PROVE  /\ Len(Remaining(s)) \in Nat /\ Remaining(s) \in Seq(Holdable(Stamp, profile.active))
           /\ \E p \in [1 .. Len(Remaining(s)) -> DOMAIN parked] : Lists(Remaining(s), p, Left(s))
  <1>0. /\ Len(parked) \in Nat /\ DOMAIN parked = 1 .. Len(parked)
        /\ parked \in Seq(Holdable(Stamp, profile.active))
    BY ParkedElements DEF ParkedInv
  <1>1. Remaining(s) \in Seq(Holdable(Stamp, profile.active)) /\ Len(Remaining(s)) \in Nat
    BY Remains, LenProperties
  <1>2. CASE Matches(s) = {}
    <2>1. Remaining(s) = parked /\ Left(s) = DOMAIN parked
      BY <1>2 DEF Remaining, Left
    <2> DEFINE p == [j \in 1 .. Len(parked) |-> j]
    <2>2. p \in [1 .. Len(parked) -> DOMAIN parked]
      BY <1>0
    <2>3. Lists(parked, p, DOMAIN parked)
      BY <1>0 DEF Lists
    <2> QED
      BY <1>1, <2>1, <2>2, <2>3
  <1>3. CASE Matches(s) # {}
    <2> DEFINE i == Best(s)
               n == Len(parked)
               p == [j \in 1 .. n - 1 |-> IF j < i THEN j ELSE j + 1]
    <2>1. i \in 1 .. n /\ Len(Remaining(s)) = n - 1
      BY <1>3, Remains
    <2>2. Remaining(s) = RemoveAt(parked, i) /\ Left(s) = DOMAIN parked \ {i}
      BY <1>3 DEF Remaining, Left
    <2>3. \A j \in 1 .. n - 1 : /\ j < i => Remaining(s)[j] = parked[j]
                                /\ j >= i => Remaining(s)[j] = parked[j + 1]
      BY <1>0, <2>1, <2>2, RemovesElement
    <2> HIDE DEF i, n
    <2>4. n \in Nat /\ DOMAIN parked = 1 .. n
      BY <1>0 DEF n
    <2>5. p \in [1 .. n - 1 -> 1 .. n]
      BY <2>1, <2>4
    <2>6. \A j, k \in 1 .. n - 1 : p[j] = p[k] => j = k
      BY <2>1, <2>4
    <2>7. {p[j] : j \in 1 .. n - 1} = (1 .. n) \ {i}
      <3>1. \A j \in 1 .. n - 1 : p[j] \in (1 .. n) \ {i}
        BY <2>1, <2>4
      <3>2. ASSUME NEW k \in (1 .. n) \ {i}
            PROVE  \E j \in 1 .. n - 1 : p[j] = k
        <4>1. CASE k < i
          <5>1. k \in 1 .. n - 1 /\ p[k] = k
            BY <2>1, <2>4, <4>1
          <5> QED
            BY <5>1
        <4>2. CASE k > i
          <5>1. k - 1 \in 1 .. n - 1 /\ p[k - 1] = k
            BY <2>1, <2>4, <4>2
          <5> QED
            BY <5>1
        <4> QED
          BY <2>1, <2>4, <4>1, <4>2
      <3> QED
        BY <3>1, <3>2
    <2>8. \A j \in 1 .. n - 1 : Remaining(s)[j] = parked[p[j]]
      BY <2>1, <2>3, <2>4
    <2> HIDE DEF p
    <2>9. Lists(Remaining(s), p, Left(s))
      BY <2>1, <2>2, <2>4, <2>6, <2>7, <2>8 DEF Lists
    <2> QED
      BY <1>1, <2>1, <2>4, <2>5, <2>9
  <1> QED
    BY <1>2, <1>3

\* The parked stacks that stay when the live one is parked.
Kept(s) ==
    IF live.calls # << >> /\ Len(Remaining(s)) >= ParkedCap
    THEN Tail(Remaining(s)) ELSE Remaining(s)

\* At most one of them goes, and it is its calls that are forgotten.
DropsOnly(s, gone) ==
    \/ gone = {} /\ Dropped(s) = {}
    \/ \E h \in Left(s) : gone = {h} /\ Dropped(s) = Range(parked[h].calls_s)

\* Which parked stacks stay.
LEMMA KeptMap ==
    ASSUME ParkedInv, NEW s
    PROVE  /\ Len(Kept(s)) \in Nat /\ Kept(s) \in Seq(Holdable(Stamp, profile.active))
           /\ \E gone \in SUBSET Left(s) : DropsOnly(s, gone) /\
                 \E p \in [1 .. Len(Kept(s)) -> DOMAIN parked] : Lists(Kept(s), p, Left(s) \ gone)
  <1> DEFINE rest == Remaining(s)
             H == Holdable(Stamp, profile.active)
             D == DOMAIN parked
             n == Len(rest)
  <1>1. n \in Nat /\ rest \in Seq(H)
    BY RemainMap
  <1>2. PICK p \in [1 .. n -> D] : Lists(rest, p, Left(s))
    BY RemainMap
  <1>3. CASE ~(live.calls # << >> /\ Len(Remaining(s)) >= ParkedCap)
    <2>1. Kept(s) = rest /\ DropsOnly(s, {}) /\ Left(s) \ {} = Left(s) /\ {} \in SUBSET Left(s)
      BY <1>3 DEF Kept, Dropped, DropsOnly
    <2> HIDE DEF rest, D
    <2> QED
      BY <1>1, <1>2, <2>1 DEF D
  <1>4. CASE live.calls # << >> /\ Len(Remaining(s)) >= ParkedCap
    <2>1. Kept(s) = Tail(rest) /\ Dropped(s) = Range(Head(rest).calls_s)
      BY <1>4 DEF Kept, Dropped
    <2>2. n >= ParkedCap /\ ParkedCap \in Nat /\ ParkedCap > 0
      BY <1>4, LimitsAssumption
    <2> HIDE DEF rest, H
    <2>3. rest # << >> /\ n > 0
      BY <1>1, <2>2, EmptySeq
    <2>4. /\ Tail(rest) \in Seq(H) /\ Len(Tail(rest)) = n - 1
          /\ \A j \in 1 .. n - 1 : Tail(rest)[j] = rest[j + 1]
      BY <1>1, <2>3, HeadTailProperties
    <2>5. Head(rest) = rest[1]
      BY <1>1, <2>3
    <2> HIDE DEF n
    <2> DEFINE h == p[1]
               q == [j \in 1 .. n - 1 |-> p[j + 1]]
    <2>6. /\ \A j, k \in 1 .. n : p[j] = p[k] => j = k
          /\ {p[j] : j \in 1 .. n} = Left(s)
          /\ \A j \in 1 .. n : rest[j] = parked[p[j]]
      BY <1>2 DEF Lists, n
    <2>7. 1 \in 1 .. n /\ \A j \in 1 .. n - 1 : j + 1 \in 1 .. n /\ j + 1 # 1
      BY <1>1, <2>3
    <2>8. h \in Left(s) /\ Dropped(s) = Range(parked[h].calls_s)
      BY <2>1, <2>5, <2>6, <2>7
    <2>9. {h} \in SUBSET Left(s) /\ DropsOnly(s, {h})
      BY <2>8 DEF DropsOnly
    <2>10. q \in [1 .. n - 1 -> D] /\ \A j \in 1 .. n - 1 : q[j] = p[j + 1]
      BY <1>2, <2>7
    <2> HIDE DEF q, h
    <2>11. \A j, k \in 1 .. n - 1 : q[j] = q[k] => j = k
      <3> TAKE j \in 1 .. n - 1, k \in 1 .. n - 1
      <3> HAVE q[j] = q[k]
      <3>1. p[j + 1] = p[k + 1] /\ j + 1 \in 1 .. n /\ k + 1 \in 1 .. n
        BY <2>7, <2>10
      <3>2. j + 1 = k + 1
        BY <2>6, <3>1
      <3> QED
        BY <1>1, <3>2
    <2>12. {q[j] : j \in 1 .. n - 1} = Left(s) \ {h}
      <3>1. ASSUME NEW j \in 1 .. n - 1
            PROVE  q[j] \in Left(s) \ {h}
        <4>1. q[j] = p[j + 1] /\ j + 1 \in 1 .. n /\ j + 1 # 1
          BY <2>7, <2>10
        <4>2. p[j + 1] # p[1]
          BY <2>6, <2>7, <4>1
        <4> QED
          BY <2>6, <4>1, <4>2 DEF h
      <3>2. ASSUME NEW i \in Left(s) \ {h}
            PROVE  \E j \in 1 .. n - 1 : q[j] = i
        <4>1. PICK k \in 1 .. n : p[k] = i
          BY <2>6
        <4>2. k # 1
          BY <4>1 DEF h
        <4>3. k - 1 \in 1 .. n - 1 /\ (k - 1) + 1 = k
          BY <1>1, <4>2
        <4>4. q[k - 1] = p[(k - 1) + 1]
          BY <2>10, <4>3
        <4> QED
          BY <4>1, <4>3, <4>4
      <3> QED
        BY <3>1, <3>2
    <2>13. \A j \in 1 .. n - 1 : Tail(rest)[j] = parked[q[j]]
      BY <2>4, <2>6, <2>7, <2>10
    <2>14. Lists(Kept(s), q, Left(s) \ {h})
      BY <2>1, <2>4, <2>11, <2>12, <2>13 DEF Lists
    <2>15. n - 1 \in Nat
      BY <1>1, <2>3 DEF n
    <2> QED
      BY <2>1, <2>4, <2>9, <2>10, <2>14, <2>15 DEF H
  <1> QED
    BY <1>3, <1>4

\* The task whose stack is dropped keeps no tracked call, the others lose none.
LEMMA DropTracks ==
    ASSUME IInv, ChainInv, NEW own \in [DOMAIN parked -> Tasks], Owners(own),
           NEW s, NEW gone, DropsOnly(s, gone), NEW t \in Tasks,
           NEW d, d = ForgetDropped(task.on, s)[t].calls
    PROVE  /\ d \in Seq(Calls) /\ SameTimes(d, task.on[t].calls)
           /\ (\E i \in gone : own[i] = t) => \A k \in 1 .. Len(d) : ~d[k].tracked
           /\ (\A i \in gone : own[i] # t) => SameTracks(d, task.on[t].calls)
  <1> DEFINE c == task.on[t].calls
  <1>1. /\ d \in Seq(Calls) /\ SameTimes(d, c)
        /\ \A k \in 1 .. Len(c) : d[k].tracked <=> c[k].tracked /\ c[k].s \notin Dropped(s)
    BY TaskTypes, ForgetFields DEF OnType
  <1>2. c \in Seq(Calls) /\ Len(d) = Len(c) /\ DOMAIN c = 1 .. Len(c) /\ Len(c) \in Nat
    BY <1>1, TaskTypes, CallElements DEF SameTimes, SameCalls
  <1>3. CASE gone = {} /\ Dropped(s) = {}
    <2>1. SameTracks(d, c)
      BY <1>1, <1>3 DEF SameTracks
    <2> QED
      BY <1>1, <1>3, <2>1
  <1>4. CASE \E h \in Left(s) : gone = {h} /\ Dropped(s) = Range(parked[h].calls_s)
    <2>1. PICK h \in Left(s) : gone = {h} /\ Dropped(s) = Range(parked[h].calls_s)
      BY <1>4
    <2>2. h \in DOMAIN parked
      BY DEF Left
    <2> DEFINE st == parked[h]
               u == own[h]
               e == task.on[u].calls
               q == st.calls_s
    <2>3. /\ u \in Tasks /\ e \in Seq(Calls) /\ Chained(task.on[u], u)
          /\ ShadowType(st) /\ Len(st.calls) \in Nat
          /\ Mirrors(st, e, st.at, profile.filter)
      BY <2>2, TaskTypes, ShadowTypes DEF ChainInv, Owners
    <2>4. /\ Len(q) = Len(st.calls) /\ q \in Seq(Nat) /\ DOMAIN q = 1 .. Len(q)
          /\ Len(e) \in Nat /\ Len(st.calls) <= Len(e)
      BY <2>3, LenProperties, CallElements DEF ShadowType, Mirrors
    <2>5. CASE t = u
      <3> SUFFICES ASSUME NEW k \in 1 .. Len(d) PROVE ~d[k].tracked
        BY <1>1, <2>1, <2>5
      <3>1. k \in 1 .. Len(c) /\ c = e
        BY <1>2, <2>5
      <3> SUFFICES ASSUME c[k].tracked PROVE c[k].s \in Dropped(s)
        BY <1>1, <3>1
      <3> DEFINE j == Len(e) - k
                 n == Len(q)
      <3>2. j \in Nat /\ j < Len(e) /\ Len(e) - j = k
        <4> DEFINE m == Len(e)
        <4>1. m \in Nat /\ k \in 1 .. m
          BY <1>2, <2>4, <3>1
        <4> HIDE DEF m
        <4>2. m - k \in Nat /\ m - k < m /\ m - (m - k) = k
          BY <4>1
        <4> QED
          BY <4>2 DEF m
      <3> HIDE DEF j, st, q, e, n, u
      <3>3. Inner(e, j).tracked
        BY <3>1, <3>2 DEF Inner
      <3>4. j < Len(st.calls) /\ Inner(q, j) = Inner(e, j).s
        BY <2>3, <3>2, <3>3 DEF Mirrors, q
      <3>5. n - j \in 1 .. n /\ n \in Nat
        BY <2>4, <3>2, <3>4 DEF n
      <3>6. n - j \in DOMAIN q /\ q[n - j] = c[k].s
        BY <2>4, <3>1, <3>2, <3>4, <3>5 DEF Inner, n
      <3>7. q[n - j] \in Range(q)
        BY <3>6 DEF Range
      <3> QED
        BY <2>1, <3>6, <3>7 DEF q, st
    <2>6. CASE t # u
      <3>1. ASSUME NEW k \in 1 .. Len(c)
            PROVE  c[k].s \notin Dropped(s)
        <4> SUFFICES ASSUME c[k].s \in Dropped(s) PROVE FALSE
          OBVIOUS
        <4>1. PICK i \in DOMAIN q : q[i] = c[k].s
          <5>1. c[k].s \in Range(q)
            BY <2>1
          <5> HIDE DEF q, c
          <5> QED
            BY <5>1 DEF Range
        <4> DEFINE j == Len(q) - i
        <4>2. j \in Nat /\ j < Len(q) /\ Len(q) - j = i /\ j < Len(e)
          <5> DEFINE m == Len(q)
                     l == Len(e)
          <5>1. m \in Nat /\ l \in Nat /\ i \in 1 .. m /\ m <= l
            BY <2>3, <2>4, <4>1
          <5> HIDE DEF m, l
          <5>2. m - i \in Nat /\ m - i < m /\ m - (m - i) = i /\ m - i < l
            BY <5>1
          <5> QED
            BY <5>2 DEF m, l
        <4>3. Inner(q, j) = Inner(e, j).s
          BY <2>3, <2>4, <4>2 DEF Mirrors
        <4>4. Len(e) - j \in DOMAIN e
          <5> HIDE DEF e, q, j
          <5> QED
            BY <2>3, <2>4, <4>2, CallElements
        <4>5. q[i] = e[Len(e) - j].s
          BY <4>2, <4>3 DEF Inner
        <4>6. e[Len(e) - j].s \in StackOf(u)
          BY <2>3, <4>4 DEF Chained
        <4>7. c[k].s \in StackOf(t)
          BY <1>2, <3>1 DEF ChainInv, Chained
        <4> QED
          BY <2>3, <2>6, <4>1, <4>5, <4>6, <4>7, Apart
      <3>2. SameTracks(d, c)
        BY <1>1, <3>1 DEF SameTracks
      <3> QED
        BY <1>1, <2>1, <2>6, <3>2
    <2> QED
      BY <2>5, <2>6
  <1> QED
    BY <1>3, <1>4 DEF DropsOnly

\* Which tasks were observed.
LEMMA ObservedMeans ==
    ASSUME IInv, NEW t \in Tasks
    PROVE  Observed(t) <=> \E i \in 1 .. Len(task.on[t].calls) : task.on[t].calls[i].tracked
  <1>1. DOMAIN task.on[t].calls = 1 .. Len(task.on[t].calls)
    BY TaskTypes, CallElements
  <1> QED
    BY <1>1 DEF Observed

\* A task whose calls a shadow stack mirrors is observed when that has frames.
LEMMA MirrorsObserved ==
    ASSUME NEW c \in Seq(Calls), NEW st, Len(st.calls) \in Nat,
           NEW t, NEW filter, Mirrors(st, c, t, filter)
    PROVE  (\E i \in 1 .. Len(c) : c[i].tracked) <=> Len(st.calls) # 0
  <1>1. Len(c) \in Nat /\ Len(st.calls) <= Len(c)
    BY CallElements DEF Mirrors
  <1>2. ASSUME NEW i \in 1 .. Len(c), c[i].tracked
        PROVE  Len(st.calls) # 0
    <2> DEFINE k == Len(c) - i
    <2>1. k \in Nat /\ k < Len(c) /\ Len(c) - k = i
      BY <1>1
    <2> HIDE DEF k
    <2>2. Inner(c, k).tracked
      BY <1>2, <2>1 DEF Inner
    <2>3. k < Len(st.calls)
      BY <2>1, <2>2 DEF Mirrors
    <2> QED
      BY <2>1, <2>3
  <1>3. ASSUME Len(st.calls) # 0
        PROVE  \E i \in 1 .. Len(c) : c[i].tracked
    <2>1. 0 < Len(c) /\ 0 < Len(st.calls) /\ 0 \in Nat /\ Len(c) - 0 \in 1 .. Len(c)
      BY <1>1, <1>3
    <2>2. Inner(c, 0).tracked
      BY <2>1 DEF Mirrors
    <2> QED
      BY <2>1, <2>2 DEF Inner
  <1> QED
    BY <1>2, <1>3

\* The stacks of the other tasks remain when a task goes on.
LEMMA LeftOwn ==
    ASSUME IInv, ChainInv, NEW own \in [DOMAIN parked -> Tasks], Owners(own), NEW u \in Tasks
    PROVE  /\ Left(task.on[u].s) = {i \in DOMAIN parked : own[i] # u}
           /\ Matches(task.on[u].s) # {} =>
                 Best(task.on[u].s) \in DOMAIN parked /\ own[Best(task.on[u].s)] = u
           /\ Matches(task.on[u].s) = {} => \A i \in DOMAIN parked : own[i] # u
  <1> DEFINE s == task.on[u].s
  <1>1. s \in StackOf(u)
    BY DEF ChainInv, Chained
  <1>2. /\ \A i \in Matches(s) : own[i] = u
        /\ \A i \in DOMAIN parked : own[i] = u => i \in Matches(s)
    BY <1>1, MatchesOwn
  <1>3. Matches(s) \subseteq DOMAIN parked
    BY DEF Matches
  <1>4. CASE Matches(s) = {}
    <2>1. Left(s) = DOMAIN parked
      BY <1>4 DEF Left
    <2> QED
      BY <1>2, <1>4, <2>1
  <1>5. CASE Matches(s) # {}
    <2>1. Best(s) \in Matches(s)
      BY <1>5, BestMatches DEF IInv
    <2>2. Left(s) = DOMAIN parked \ {Best(s)}
      BY <1>5 DEF Left
    <2> HIDE DEF s
    <2>3. own[Best(s)] = u /\ Best(s) \in DOMAIN parked
      BY <1>2, <1>3, <2>1
    <2>4. \A i \in DOMAIN parked : own[i] = u => i = Best(s)
      BY <2>3 DEF Owners
    <2> QED
      BY <1>5, <2>2, <2>3, <2>4 DEF s
  <1> QED
    BY <1>4, <1>5

\* Whoever was observed and does not run has a parked stack after a switch.
LEMMA SwitchOwners ==
    ASSUME IInv, ChainInv, NEW own \in [DOMAIN parked -> Tasks], Owners(own),
           Mirrors(live, Running.calls, Now, profile.filter),
           NEW u \in Tasks, u # task.cur, NEW s, s = task.on[u].s,
           task'.cur = u, \A t \in Tasks : t # u => task'.on[t] = ForgetDropped(task.on, s)[t],
           parked' = ParkedAfter(s), profile'.filter = profile.filter
    PROVE  \E o \in [DOMAIN parked' -> Tasks] : Owners(o)'
  <1> DEFINE K == Kept(s)
             n == Len(K)
             cur == task.cur
             D == DOMAIN parked
  <1>1. PICK gone \in SUBSET Left(s) : DropsOnly(s, gone) /\
           \E p \in [1 .. Len(Kept(s)) -> DOMAIN parked] : Lists(Kept(s), p, Left(s) \ gone)
    BY KeptMap DEF IInv
  <1>2. PICK p \in [1 .. n -> D] : Lists(K, p, Left(s) \ gone)
    BY <1>1
  <1>3. n \in Nat /\ K \in Seq(Holdable(Stamp, profile.active)) /\ DOMAIN K = 1 .. n
    BY KeptMap, LenProperties DEF IInv
  <1>4. Left(s) = {i \in D : own[i] # u}
    BY LeftOwn
  <1>5. /\ \A i \in D : own[i] \in Tasks /\ own[i] # cur /\ Observed(own[i])
        /\ \A t \in Tasks : t # cur /\ Observed(t) => \E i \in D : own[i] = t
        /\ \A i, j \in D : own[i] = own[j] => i = j
    <2>1. {own[i] : i \in D} = Others
      BY DEF Owners
    <2>2. \A i \in D : own[i] \in Others
      BY <2>1
    <2>3. \A t \in Others : \E i \in D : own[i] = t
      BY <2>1
    <2>4. \A i, j \in D : own[i] = own[j] => i = j
      BY DEF Owners
    <2> QED
      BY <2>2, <2>3, <2>4 DEF Others
  <1>6. /\ cur \in Tasks /\ Running = task.on[cur] /\ task.on[cur].calls \in Seq(Calls)
        /\ Len(live.calls) \in Nat /\ (Len(live.calls) # 0 <=> live.calls # << >>)
    BY TaskTypes, ShadowTypes, EmptySeq DEF ShadowType
  <1>7. Observed(cur) <=> live.calls # << >>
    <2> DEFINE c == task.on[cur].calls
               st == live
    <2>1. c \in Seq(Calls) /\ Len(st.calls) \in Nat /\ Mirrors(st, c, Now, profile.filter)
      BY <1>6
    <2>2. Observed(cur) <=> \E i \in 1 .. Len(c) : c[i].tracked
      BY <1>6, ObservedMeans
    <2> HIDE DEF c, st
    <2>3. (\E i \in 1 .. Len(c) : c[i].tracked) <=> Len(st.calls) # 0
      BY <2>1, MirrorsObserved
    <2> QED
      BY <1>6, <2>2, <2>3 DEF st
  <1>8. ASSUME NEW t \in Tasks, t # u
        PROVE  /\ task'.on[t].calls \in Seq(Calls)
               /\ SameTimes(task'.on[t].calls, task.on[t].calls)
               /\ (\E i \in gone : own[i] = t) =>
                     \A k \in 1 .. Len(task'.on[t].calls) : ~task'.on[t].calls[k].tracked
               /\ (\A i \in gone : own[i] # t) => SameTracks(task'.on[t].calls, task.on[t].calls)
    <2> DEFINE d == task'.on[t].calls
    <2>1. d = ForgetDropped(task.on, s)[t].calls
      BY <1>8
    <2> HIDE DEF d
    <2>2. /\ d \in Seq(Calls) /\ SameTimes(d, task.on[t].calls)
          /\ (\E i \in gone : own[i] = t) => \A k \in 1 .. Len(d) : ~d[k].tracked
          /\ (\A i \in gone : own[i] # t) => SameTracks(d, task.on[t].calls)
      BY <1>1, <1>8, <2>1, DropTracks
    <2> QED
      BY <2>2 DEF d
  <1>9. ASSUME NEW t \in Tasks, t # u
        PROVE  Observed(t)' <=> Observed(t) /\ \A i \in gone : own[i] # t
    <2> DEFINE c == task.on[t].calls
               d == task'.on[t].calls
    <2>1. /\ d \in Seq(Calls) /\ c \in Seq(Calls) /\ SameTimes(d, c)
          /\ (\E i \in gone : own[i] = t) => \A k \in 1 .. Len(d) : ~d[k].tracked
          /\ (\A i \in gone : own[i] # t) => SameTracks(d, c)
      BY <1>8, <1>9, TaskTypes
    <2>2. /\ Observed(t)' <=> \E i \in DOMAIN d : d[i].tracked
          /\ Observed(t) <=> \E i \in DOMAIN c : c[i].tracked
      BY DEF Observed
    <2> HIDE DEF c, d
    <2>3. CASE \E i \in gone : own[i] = t
      <3>1. DOMAIN d = 1 .. Len(d)
        BY <2>1, CallElements
      <3> QED
        BY <2>1, <2>2, <2>3, <3>1
    <2>4. CASE \A i \in gone : own[i] # t
      BY <2>1, <2>2, <2>4, SameObserved DEF SameTimes
    <2> QED
      BY <2>3, <2>4
  <1>10. parked' = IF live.calls = << >> THEN K ELSE Append(K, Parked)
    BY DEF ParkedAfter, Kept
  <1> DEFINE N == Len(parked')
  <1>11. /\ DOMAIN parked' = 1 .. N
         /\ N = IF live.calls = << >> THEN n ELSE n + 1
         /\ \A j \in 1 .. n : parked'[j] = K[j]
         /\ live.calls # << >> => parked'[n + 1] = Parked
    <2>1. CASE live.calls = << >>
      BY <1>3, <1>10, <2>1
    <2>2. CASE live.calls # << >>
      <3> HIDE DEF K
      <3> DEFINE S == Holdable(Stamp, profile.active) \cup {Parked}
      <3>1. Parked \in S /\ K \in Seq(S)
        BY <1>3, SeqMonotonic
      <3>2. parked' = Append(K, Parked)
        BY <1>10, <2>2
      <3> HIDE DEF S
      <3>3. /\ Append(K, Parked) \in Seq(S) /\ Len(Append(K, Parked)) = n + 1
            /\ \A j \in 1 .. n : Append(K, Parked)[j] = K[j]
            /\ Append(K, Parked)[n + 1] = Parked
        BY <3>1, AppendProperties
      <3>4. DOMAIN Append(K, Parked) = 1 .. Len(Append(K, Parked))
        BY <3>3, LenProperties
      <3> QED
        BY <2>2, <3>2, <3>3, <3>4
    <2> QED
      BY <2>1, <2>2
  <1>12. PICK o : o = [j \in 1 .. N |-> IF j <= n THEN own[p[j]] ELSE cur]
    OBVIOUS
  <1>13. /\ \A j, k \in 1 .. n : p[j] = p[k] => j = k
         /\ {p[j] : j \in 1 .. n} = Left(s) \ gone
         /\ \A j \in 1 .. n : K[j] = parked[p[j]] /\ p[j] \in D
    BY <1>2 DEF Lists
  <1> HIDE DEF N, n, D, K, cur
  <1>14. /\ \A j \in 1 .. N : \/ j \in 1 .. n /\ o[j] = own[p[j]]
                              \/ j = n + 1 /\ o[j] = cur /\ live.calls # << >>
         /\ \A j \in 1 .. n : j \in 1 .. N /\ o[j] = own[p[j]]
         /\ live.calls # << >> => n + 1 \in 1 .. N /\ o[n + 1] = cur
    <2>1. CASE live.calls = << >>
      <3>1. N = n
        BY <1>11, <2>1
      <3> QED
        BY <1>3, <1>12, <2>1, <3>1
    <2>2. CASE live.calls # << >>
      <3>1. N = n + 1
        BY <1>11, <2>2
      <3>2. \A j \in 1 .. n + 1 : o[j] = IF j <= n THEN own[p[j]] ELSE cur
        BY <1>12, <3>1
      <3>3. /\ 1 .. n + 1 = (1 .. n) \cup {n + 1} /\ ~(n + 1 <= n)
            /\ \A j \in 1 .. n : j <= n
        BY <1>3
      <3> QED
        BY <2>2, <3>1, <3>2, <3>3
    <2> QED
      BY <2>1, <2>2
  <1>15. \A j \in 1 .. n : /\ p[j] \in D /\ own[p[j]] \in Tasks /\ own[p[j]] # cur
                           /\ own[p[j]] # u /\ p[j] \notin gone
    BY <1>4, <1>5, <1>13
  <1>16. o \in [DOMAIN parked' -> Tasks]
    <2>1. \A j \in 1 .. N : o[j] \in Tasks
      BY <1>6, <1>14, <1>15 DEF cur
    <2> QED
      BY <1>11, <1>12, <2>1
  <1>17. \A j, k \in 1 .. N : o[j] = o[k] => j = k
    <2> SUFFICES ASSUME NEW j \in 1 .. N, NEW k \in 1 .. N, o[j] = o[k] PROVE j = k
      OBVIOUS
    <2>1. CASE j \in 1 .. n /\ k \in 1 .. n
      <3>1. own[p[j]] = own[p[k]] /\ p[j] \in D /\ p[k] \in D
        BY <1>14, <1>15, <2>1
      <3>2. p[j] = p[k]
        BY <1>5, <3>1 DEF D
      <3> QED
        BY <1>13, <2>1, <3>2
    <2>2. CASE ~(j \in 1 .. n /\ k \in 1 .. n)
      BY <1>14, <1>15, <2>2
    <2> QED
      BY <2>1, <2>2
  <1>18. {o[j] : j \in 1 .. N} = Others'
    <2>1. Others' = {t \in Tasks : t # u /\ Observed(t) /\ \A i \in gone : own[i] # t}
      BY <1>9 DEF Others
    <2>2. ASSUME NEW j \in 1 .. N
          PROVE  o[j] \in Others'
      <3>1. CASE j \in 1 .. n /\ o[j] = own[p[j]]
        <4>1. /\ own[p[j]] \in Tasks /\ own[p[j]] # u /\ Observed(own[p[j]]) /\ p[j] \in D
              /\ p[j] \notin gone
          BY <1>5, <1>15, <3>1 DEF D
        <4>2. \A i \in gone : own[i] # own[p[j]]
          BY <1>1, <1>4, <1>5, <4>1 DEF D
        <4> QED
          BY <2>1, <3>1, <4>1, <4>2
      <3>2. CASE o[j] = cur /\ live.calls # << >>
        <4>1. cur \in Tasks /\ cur # u /\ Observed(cur)
          BY <1>6, <1>7, <3>2 DEF cur
        <4>2. \A i \in gone : own[i] # cur
          BY <1>1, <1>4, <1>5 DEF D, cur
        <4> QED
          BY <2>1, <3>2, <4>1, <4>2
      <3> QED
        BY <1>14, <3>1, <3>2
    <2>3. ASSUME NEW t \in Others'
          PROVE  \E j \in 1 .. N : o[j] = t
      <3>1. t \in Tasks /\ t # u /\ Observed(t) /\ \A i \in gone : own[i] # t
        BY <2>1, <2>3
      <3>2. CASE t = cur
        <4>1. live.calls # << >>
          BY <1>7, <3>1, <3>2 DEF cur
        <4> QED
          BY <1>14, <3>2, <4>1
      <3>3. CASE t # cur
        <4>1. PICK i \in D : own[i] = t
          BY <1>5, <3>1, <3>3 DEF D, cur
        <4>2. i \in Left(s) \ gone
          BY <1>4, <3>1, <4>1 DEF D
        <4>3. PICK j \in 1 .. n : p[j] = i
          BY <1>13, <4>2
        <4> QED
          BY <1>14, <4>1, <4>3
      <3> QED
        BY <3>2, <3>3
    <2> QED
      BY <2>2, <2>3
  <1>19. ASSUME NEW j \in 1 .. N
         PROVE  Mirrors(parked'[j], task'.on[o[j]].calls, parked'[j].at, profile'.filter)
    <2>1. CASE j \in 1 .. n /\ o[j] = own[p[j]]
      <3> DEFINE st == parked[p[j]]
                 t == own[p[j]]
                 c == task.on[t].calls
                 d == task'.on[t].calls
      <3>1. p[j] \in DOMAIN parked /\ t \in Tasks /\ t # u /\ \A i \in gone : own[i] # t
        <4>1. p[j] \in D /\ p[j] \notin gone /\ t \in Tasks /\ t # u
          BY <1>15, <2>1
        <4>2. \A i \in gone : own[i] # own[p[j]]
          BY <1>1, <1>4, <1>5, <4>1 DEF D
        <4> QED
          BY <4>1, <4>2 DEF D
      <3>2. parked'[j] = st
        BY <1>11, <1>13, <2>1
      <3>3. /\ c \in Seq(Calls) /\ d \in Seq(Calls) /\ SameTimes(d, c) /\ SameTracks(d, c)
            /\ Len(st.calls) \in Nat /\ Mirrors(st, c, st.at, profile.filter)
        BY <1>8, <3>1, TaskTypes, ShadowTypes DEF Owners
      <3> HIDE DEF st, c, d, t
      <3>4. Mirrors(st, d, st.at, profile.filter)
        BY <3>3, MirrorsSame
      <3> QED
        BY <2>1, <3>2, <3>4 DEF d, t
    <2>2. CASE j = n + 1 /\ o[j] = cur /\ live.calls # << >>
      <3> DEFINE c == task.on[cur].calls
                 d == task'.on[cur].calls
      <3>1. parked'[j] = Parked
        BY <1>11, <2>2
      <3>2. cur \in Tasks /\ cur # u /\ \A i \in gone : own[i] # cur
        BY <1>1, <1>4, <1>5, <1>6 DEF D, cur
      <3>3. /\ c \in Seq(Calls) /\ d \in Seq(Calls) /\ SameTimes(d, c) /\ SameTracks(d, c)
            /\ Len(live.calls) \in Nat /\ Mirrors(live, c, Now, profile.filter)
        BY <1>6, <1>8, <3>2
      <3> HIDE DEF c, d
      <3>4. Mirrors(live, d, Now, profile.filter)
        BY <3>3, MirrorsSame
      <3>5. /\ Parked.calls = live.calls /\ Parked.calls_s = live.calls_s /\ Parked.prof = live.prof
            /\ Parked.at = Now
        BY DEF Parked
      <3>6. Mirrors(Parked, d, Now, profile.filter)
        BY <3>4, <3>5 DEF Mirrors
      <3> QED
        BY <2>2, <3>1, <3>5, <3>6 DEF d
    <2> QED
      BY <1>14, <2>1, <2>2
  <1>20. Owners(o)'
    <2>0. DOMAIN o = 1 .. N
      BY <1>11, <1>16
    <2>1. \A i, j \in DOMAIN o : o[i] = o[j] => i = j
      BY <1>17, <2>0
    <2>2. {o[i] : i \in DOMAIN o} = Others'
      BY <1>18, <2>0
    <2>3. \A i \in DOMAIN parked' :
             Mirrors(parked'[i], task'.on[o[i]].calls, parked'[i].at, profile'.filter)
      BY <1>11, <1>19
    <2> QED
      BY <2>1, <2>2, <2>3 DEF Owners
  <1> QED
    BY <1>16, <1>20

\* The task that goes on finds the stack of its own calls.
LEMMA SwitchLive ==
    ASSUME IInv, ChainInv, NEW own \in [DOMAIN parked -> Tasks], Owners(own),
           NEW u \in Tasks, u # task.cur, NEW s, s = task.on[u].s,
           NEW d, d = ForgetDropped(task.on, s)[u].calls,
           NEW en, en = LiveAfter(s)
    PROVE  Mirrors(en, Ran(d), Now + 1, profile.filter)
  <1> DEFINE c == task.on[u].calls
  <1>1. PICK gone \in SUBSET Left(s) : DropsOnly(s, gone)
    BY KeptMap DEF IInv
  <1>2. /\ Left(s) = {i \in DOMAIN parked : own[i] # u}
        /\ Matches(s) # {} => Best(s) \in DOMAIN parked /\ own[Best(s)] = u
        /\ Matches(s) = {} => \A i \in DOMAIN parked : own[i] # u
    BY LeftOwn
  <1>3. d \in Seq(Calls) /\ SameTimes(d, c) /\ SameTracks(d, c)
    <2>1. \A i \in gone : own[i] # u
      BY <1>1, <1>2
    <2> QED
      BY <1>1, <2>1, DropTracks
  <1>4. /\ c \in Seq(Calls) /\ Now \in Nat /\ Stamp \in Nat /\ Stamp <= Now /\ ParkedInv
    BY TaskTypes, ShadowTypes DEF IInv
  <1>5. en \in Stacks
    BY <1>4, Resumes
  <1>6. Len(en.calls) \in Nat /\ en.prof \in Seq(ProfFrames)
    BY <1>5, LenProperties DEF Stacks
  <1>7. en = [calls |-> Resumed(s).calls, calls_s |-> Resumed(s).calls_s, prof |-> Restart(Resumed(s))]
    BY DEF LiveAfter
  <1>8. Mirrors(en, d, Now, profile.filter)
    <2>1. CASE Matches(s) = {}
      <3>1. ~Observed(u)
        <4>1. u \notin {own[i] : i \in DOMAIN own}
          BY <1>2, <2>1
        <4>2. u \notin Others
          BY <4>1 DEF Owners
        <4> QED
          BY <4>2 DEF Others
      <3>2. \A i \in 1 .. Len(c) : ~c[i].tracked
        BY <3>1, ObservedMeans
      <3>3. \A i \in 1 .. Len(d) : ~d[i].tracked
        BY <1>3, <3>2 DEF SameTracks, SameTimes, SameCalls
      <3>4. Resumed(s).calls = << >>
        BY <2>1 DEF Resumed
      <3>5. en.calls = << >>
        BY <1>7, <3>4
      <3> QED
        BY <1>3, <3>3, <3>5, MirrorsNone
    <2>2. CASE Matches(s) # {}
      <3> DEFINE r == parked[Best(s)]
      <3>1. Best(s) \in DOMAIN parked /\ own[Best(s)] = u
        BY <1>2, <2>2
      <3>2. /\ r.at \in Nat /\ r.at <= Stamp /\ r.prof \in Seq(Pushed(r.at))
            /\ Mirrors(r, c, r.at, profile.filter)
        BY <3>1, ShadowTypes DEF Owners
      <3>3. Resumed(s) = r
        BY <2>2 DEF Resumed
      <3>4. en.calls = r.calls /\ en.calls_s = r.calls_s /\ en.prof = Restart(r)
        BY <1>7, <3>3
      <3>5. r.at <= Now
        BY <1>4, <3>2
      <3> HIDE DEF r, c
      <3>6. Mirrors(en, c, Now, profile.filter)
        BY <1>4, <3>2, <3>4, <3>5, MirrorsResume
      <3> QED
        BY <1>3, <1>4, <1>6, <3>6, MirrorsSame
    <2> QED
      BY <2>1, <2>2
  <1> QED
    BY <1>3, <1>4, <1>6, <1>8, MirrorsRan

\* A switch that is nobody's parks and resumes nothing.
LEMMA SwitchIdle ==
    ASSUME IInv, ChainInv, NEW own \in [DOMAIN parked -> Tasks], Owners(own),
           Mirrors(live, Running.calls, Now, profile.filter),
           NEW u \in Tasks, u # task.cur, NoSwitch(task.on[u].s),
           task'.cur = u, task'.on[u].calls = Ran(task.on[u].calls),
           \A t \in Tasks : t # u => task'.on[t] = task.on[t],
           live' = live, parked' = parked, profile'.filter = profile.filter
    PROVE  /\ Owners(own)'
           /\ Mirrors(live', task'.on[u].calls, Now', profile'.filter)
  <1> DEFINE s == task.on[u].s
             cur == task.cur
  <1>1. /\ cur \in Tasks /\ Running = task.on[cur] /\ Running \in OnType /\ ShadowType(live)
        /\ Chained(Running, cur) /\ s \in StackOf(u)
        /\ task.on[u].calls \in Seq(Calls) /\ Running.calls \in Seq(Calls)
        /\ Len(live.calls) \in Nat
    BY TaskTypes, ShadowTypes DEF ChainInv, Chained
  <1>2. live.calls = << >> /\ Matches(s) = {}
    <2> SUFFICES ASSUME live.calls_s # << >>, StackResumesAt(Last(live.calls_s), s) PROVE FALSE
      BY DEF NoSwitch
    <2>1. live.calls # << >>
      <3>1. Len(live.calls_s) = Len(live.calls) /\ live.calls_s \in Seq(Nat)
        BY <1>1 DEF ShadowType
      <3> QED
        BY <3>1, EmptySeq
    <2>2. Last(live.calls_s) \in StackOf(cur)
      BY <1>1, <2>1, TopOf
    <2> QED
      BY <1>1, <2>2, Apart
  <1>3. \A i \in DOMAIN parked : own[i] # u
    BY <1>2, LeftOwn
  <1>4. ~Observed(u)
    <2>1. u \notin {own[i] : i \in DOMAIN own}
      BY <1>3
    <2>2. u \notin Others
      BY <2>1 DEF Owners
    <2> QED
      BY <2>2 DEF Others
  <1>5. ~Observed(cur)
    <2>1. Len(live.calls) = 0
      BY <1>2, EmptySeq
    <2>2. Observed(cur) <=> \E i \in 1 .. Len(Running.calls) : Running.calls[i].tracked
      BY <1>1, ObservedMeans
    <2>3. (\E i \in 1 .. Len(Running.calls) : Running.calls[i].tracked) <=> Len(live.calls) # 0
      BY <1>1, MirrorsObserved
    <2> QED
      BY <2>1, <2>2, <2>3
  <1>6. Others' = Others
    <2>1. \A t \in Tasks : t # u => (Observed(t)' <=> Observed(t))
      BY DEF Observed
    <2> QED
      BY <1>4, <1>5, <2>1 DEF Others
  <1>7. \A i \in DOMAIN parked : own[i] \in Tasks /\ own[i] # u
    BY <1>3
  <1>8. Owners(own)'
    BY <1>6, <1>7 DEF Owners
  <1>9. Mirrors(live', task'.on[u].calls, Now', profile'.filter)
    <2> DEFINE c == task.on[u].calls
               d == task'.on[u].calls
               st == live'
    <2>1. c \in Seq(Calls) /\ d = Ran(c) /\ st.calls = << >>
      BY <1>1, <1>2
    <2>2. \A i \in 1 .. Len(c) : ~c[i].tracked
      BY <1>4, ObservedMeans
    <2> HIDE DEF c, d, st
    <2>3. d \in Seq(Calls) /\ Len(d) = Len(c) /\ SameTracks(d, c)
      BY <2>1, RanFields DEF SameCalls
    <2>4. \A i \in 1 .. Len(d) : ~d[i].tracked
      BY <2>2, <2>3 DEF SameTracks
    <2>5. Mirrors(st, d, Now', profile'.filter)
      BY <2>1, <2>3, <2>4, MirrorsNone
    <2> QED
      BY <2>5 DEF d, st
  <1> QED
    BY <1>8, <1>9

\* The hand-over to another task.
LEMMA FollowSwitch ==
    ASSUME IInv, ChainInv, HookDueInv, FollowInv, NEW u \in Tasks, Switch(u)
    PROVE  FollowInv'
  <1> DEFINE s == task.on[u].s
  <1>1. /\ u # task.cur /\ Spend /\ SwitchShadowStack(s, u, task.on)
        /\ missed' = (IF HookDue THEN missed ELSE "unarmed")
        /\ profile' = profile /\ truth' = truth
    BY DEF Switch
  <1> SUFFICES ASSUME missed' = "none"
               PROVE  /\ profile'.stats = truth'
                      /\ Mirrors(live', task'.on[task'.cur].calls, Now', profile'.filter)
                      /\ \E own \in [DOMAIN parked' -> Tasks] : Owners(own)'
    BY FollowNext
  <1>2. HookDue /\ missed = "none"
    BY <1>1
  <1>3. hook.armed
    BY <1>2 DEF HookDueInv
  <1>4. profile.stats = truth /\ Mirrors(live, Running.calls, Now, profile.filter)
    BY <1>2 DEF FollowInv
  <1>5. PICK own \in [DOMAIN parked -> Tasks] : Owners(own)
    BY <1>2 DEF FollowInv
  <1>6. task.on \in [Tasks -> OnType]
    BY TaskTypes
  <1>7. CASE NoSwitch(s)
    <2>1. /\ task' = [cur |-> u, on |-> [task.on EXCEPT ![u].calls = Ran(@)]]
          /\ live' = live /\ parked' = parked
      BY <1>1, <1>7 DEF SwitchShadowStack
    <2>2. /\ task'.cur = u /\ task'.on[u].calls = Ran(task.on[u].calls)
          /\ \A t \in Tasks : t # u => task'.on[t] = task.on[t]
      BY <1>6, <2>1, RunsFields
    <2>3. Owners(own)' /\ Mirrors(live', task'.on[u].calls, Now', profile'.filter)
      BY <1>1, <1>4, <1>5, <1>7, <2>1, <2>2, SwitchIdle
    <2> QED
      BY <1>1, <1>4, <1>5, <2>1, <2>2, <2>3
  <1>8. CASE ~NoSwitch(s)
    <2> DEFINE on == ForgetDropped(task.on, s)
    <2>1. /\ task' = [cur |-> u, on |-> [on EXCEPT ![u].calls = Ran(@)]]
          /\ live' = LiveAfter(s) /\ parked' = ParkedAfter(s)
          /\ clock' = Advanced(Sampled(clock))
      BY <1>1, <1>3, <1>8 DEF SwitchShadowStack
    <2>2. on \in [Tasks -> OnType]
      BY <1>6, Forgets
    <2>3. /\ task'.cur = u /\ task'.on[u].calls = Ran(on[u].calls)
          /\ \A t \in Tasks : t # u => task'.on[t] = on[t]
      <3> HIDE DEF on
      <3> QED
        BY <2>1, <2>2, RunsFields
    <2>4. Now' = Now + 1
      BY <1>1, <2>1, NowMoves
    <2>5. Mirrors(live', Ran(on[u].calls), Now + 1, profile.filter)
      <3> DEFINE d == on[u].calls
                 en == live'
                 v == s
      <3>1. d = ForgetDropped(task.on, v)[u].calls /\ en = LiveAfter(v) /\ v = task.on[u].s
        BY <2>1
      <3> HIDE DEF d, en, v
      <3>2. Mirrors(en, Ran(d), Now + 1, profile.filter)
        BY <1>1, <1>5, <3>1, SwitchLive
      <3> QED
        BY <3>2 DEF d, en
    <2>6. \E o \in [DOMAIN parked' -> Tasks] : Owners(o)'
      <3> DEFINE v == s
      <3>1. v = task.on[u].s /\ parked' = ParkedAfter(v) /\ task'.cur = u
            /\ (\A t \in Tasks : t # u => task'.on[t] = ForgetDropped(task.on, v)[t])
            /\ profile'.filter = profile.filter
        BY <1>1, <2>1, <2>3
      <3> HIDE DEF v, on
      <3> QED
        BY <1>1, <1>4, <1>5, <3>1, SwitchOwners
    <2> QED
      BY <1>1, <1>4, <2>3, <2>4, <2>5, <2>6
  <1> QED
    BY <1>7, <1>8

-----------------------------------------------------------------------------
(* The invariants *)

\* Every step keeps the shadow stacks with the tasks.
LEMMA FollowKeeps ==
    ASSUME IInv, ChainInv, HookDueInv, FollowInv, [Next]_vars
    PROVE  FollowInv'
  <1>0. /\ task \in TaskType /\ task.cur \in Tasks /\ task.on \in [Tasks -> OnType]
        /\ \A t \in Tasks : task.on[t].calls \in Seq(Calls)
        /\ profile \in ProfileType
    BY TaskTypes
  <1>1. CASE Tick
    <2>1. /\ Spend /\ clock' = Advanced(clock)
          /\ live' = live /\ parked' = parked /\ profile' = profile /\ truth' = truth
          /\ missed' = missed
          /\ task' = [task EXCEPT !.on[task.cur].calls = Ran(@)]
      BY <1>1 DEF Tick
    <2> DEFINE en == [task.on EXCEPT ![task.cur].calls = Ran(@)]
    <2>2. task'.on = en /\ task'.cur = task.cur
      BY <1>0, <2>1 DEF TaskType
    <2>3. en[task.cur].calls = Ran(task.on[task.cur].calls)
          /\ \A t \in Tasks : t # task.cur => en[t] = task.on[t]
      BY <1>0, RunsFields
    <2> HIDE DEF en
    <2> QED
      BY <2>1, <2>2, <2>3, StaysRunning DEF Running
  <1>2. CASE Frame
    BY <1>2, FollowIdle DEF Frame
  <1>3. ASSUME NEW f \in Targets, Call(f)
        PROVE  FollowInv'
    BY <1>3, FollowCall
  <1>4. CASE Return
    BY <1>4, FollowReturn
  <1>5. ASSUME NEW s, LocalFrame(s)
        PROVE  FollowInv'
    BY <1>5, FollowLocal
  <1>6. ASSUME NEW u \in Tasks, Switch(u)
        PROVE  FollowInv'
    BY <1>6, FollowSwitch
  <1>7. ASSUME NEW u \in Tasks, StepOverSwitch(u)
        PROVE  FollowInv'
    <2>1. missed' # "none"
      BY <1>7 DEF StepOverSwitch
    <2> QED
      BY <2>1, FollowNext
  <1>8. ASSUME ClearShadowStacks, profile' = profile,
               task' = [task EXCEPT !.on = AllUntracked]
        PROVE  FollowInv'
    <2>1. /\ task'.cur = task.cur
          /\ \A t \in Tasks : task'.on[t].calls = Untracked(task.on[t].calls)
      BY <1>0, <1>8, AllFields
    <2>2. ASSUME NEW t \in Tasks
          PROVE  /\ task'.on[t].calls \in Seq(Calls)
                 /\ \A i \in 1 .. Len(task'.on[t].calls) : ~task'.on[t].calls[i].tracked
      <3> DEFINE c == task.on[t].calls
                 d == task'.on[t].calls
      <3>1. c \in Seq(Calls) /\ d = Untracked(c)
        BY <1>0, <2>1
      <3> HIDE DEF c, d
      <3>2. d \in Seq(Calls) /\ Len(d) = Len(c) /\ \A i \in 1 .. Len(c) : ~d[i].tracked
        BY <3>1, ForgottenFields DEF SameTimes, SameCalls
      <3> QED
        BY <3>2 DEF d
    <2> QED
      BY <1>0, <1>8, <2>1, <2>2, FollowClears
  <1>9. CASE Reset
    <2>1. ClearShadowStacks /\ profile' = profile /\ task' = Booted
      BY <1>9 DEF Reset
    <2>2. /\ task'.cur = Boot /\ Boot \in Tasks
          /\ \A t \in Tasks : task'.on[t].calls = << >>
      BY <2>1, TasksAssumption DEF Booted
    <2>3. << >> \in Seq(Calls) /\ 1 .. Len(<< >>) = {}
      BY EmptySeq
    <2>4. \A t \in Tasks : /\ task'.on[t].calls \in Seq(Calls)
                           /\ \A i \in 1 .. Len(task'.on[t].calls) : ~task'.on[t].calls[i].tracked
      BY <2>2, <2>3
    <2> QED
      BY <2>1, <2>2, <2>4, FollowClears
  <1>10. ASSUME NEW filter, ProfileStart(filter)
         PROVE  FollowInv'
    <2>1. ClearProfileFrames /\ missed' = missed /\ profile'.stats = truth'
      BY <1>10 DEF ProfileStart
    <2> QED
      BY <2>1, FollowUntimes
  <1>11. CASE ProfileStop
    <2>1. /\ ClearProfileFrames /\ missed' = missed /\ truth' = truth
          /\ profile' = [profile EXCEPT !.active = FALSE]
      BY <1>11 DEF ProfileStop
    <2>2. profile'.stats = profile.stats
      BY <1>0, <2>1 DEF ProfileType
    <2> QED
      BY <2>1, <2>2, FollowUntimes
  <1>12. CASE ProfileReset
    <2>1. /\ ClearProfileFrames /\ missed' = missed /\ truth' = NoStats
          /\ profile' = [profile EXCEPT !.stats = NoStats]
      BY <1>12 DEF ProfileReset
    <2>2. profile'.stats = NoStats
      BY <1>0, <2>1 DEF ProfileType
    <2> QED
      BY <2>1, <2>2, FollowUntimes
  <1>13. CASE AddCallback \/ RemoveCallback
    BY <1>13, FollowIdle DEF AddCallback, RemoveCallback
  <1>14. CASE (\E opens \in BOOLEAN : TimelineStart(opens)) \/ TimelineStop
    BY <1>14, FollowIdle DEF TimelineStart, TimelineStop
  <1>15. CASE UNCHANGED vars
    BY <1>15, FollowIdle DEF vars
  <1>16. CASE CallstackClear \/ \E raw \in SavedClocks : LoadState(raw)
    BY <1>8, <1>16 DEF CallstackClear, LoadState
  <1> QED
    BY <1>1, <1>2, <1>3, <1>4, <1>5, <1>6, <1>7, <1>9, <1>10, <1>11, <1>12, <1>13, <1>14,
       <1>15, <1>16 DEF Next, Program, Host

\* How it begins.
LEMMA InitFollow ==
    ASSUME Init
    PROVE  ChainInv /\ HookDueInv /\ FollowInv
  <1>1. /\ task.cur = Boot /\ Boot \in Tasks
        /\ \A t \in Tasks : task.on[t].s = StackBase[t] /\ task.on[t].calls = << >>
    BY TasksAssumption DEF Init, Booted
  <1>2. Len(<< >>) = 0 /\ << >> \in Seq(Calls) /\ DOMAIN << >> = {} /\ 1 .. 0 = {} /\ 1 .. -1 = {}
    BY EmptySeq
  <1>3. ASSUME NEW t \in Tasks
        PROVE  Chained(task.on[t], t)
    <2>1. task.on[t].s = StackBase[t] /\ task.on[t].calls = << >>
      BY <1>1
    <2>2. StackBase[t] \in StackOf(t)
      BY OnStack DEF StackOf
    <2> QED
      BY <1>2, <2>1, <2>2 DEF Chained
  <1>4. HookDueInv
    BY DEF Init, HookDueInv, HookDue
  <1>5. profile.stats = truth /\ live.calls = << >> /\ parked = << >>
    BY DEF Init, NoStack
  <1>6. Mirrors(live, Running.calls, Now, profile.filter)
    <2> DEFINE c == Running.calls
               st == live
    <2>1. c \in Seq(Calls) /\ (\A i \in 1 .. Len(c) : ~c[i].tracked) /\ st.calls = << >>
      BY <1>1, <1>2, <1>5 DEF Running
    <2> HIDE DEF c, st
    <2>2. Mirrors(st, c, Now, profile.filter)
      BY <2>1, MirrorsNone
    <2> QED
      BY <2>2 DEF c, st
  <1>7. DOMAIN parked = {}
    BY <1>2, <1>5
  <1>8. Others = {}
    <2>1. \A t \in Tasks : task.on[t].calls = << >>
      BY <1>1
    <2>2. \A t \in Tasks : ~Observed(t)
      BY <1>2, <2>1 DEF Observed
    <2> QED
      BY <2>2 DEF Others
  <1>9. PICK own \in [{} -> Tasks] : TRUE
    <2>1. [i \in {} |-> Boot] \in [{} -> Tasks]
      OBVIOUS
    <2> QED
      BY <2>1
  <1>10. Owners(own)
    BY <1>7, <1>8, <1>9 DEF Owners
  <1>11. \E o \in [DOMAIN parked -> Tasks] : Owners(o)
    BY <1>7, <1>9, <1>10
  <1> QED
    BY <1>3, <1>4, <1>5, <1>6, <1>11 DEF ChainInv, FollowInv

\* The strengthening is an invariant of the specification.
THEOREM Followed == Spec => [](IInv /\ ChainInv /\ HookDueInv /\ FollowInv)
  <1>1. Init => ChainInv /\ HookDueInv /\ FollowInv
    BY InitFollow
  <1>2. IInv /\ ChainInv /\ HookDueInv /\ FollowInv /\ [Next]_vars
        => ChainInv' /\ HookDueInv' /\ FollowInv'
    BY ChainKeeps, HookDueKeeps, FollowKeeps
  <1> QED
    BY <1>1, <1>2, Invariant, PTL DEF Spec

\* The statistics of the profile are the cycles each call really ran.
THEOREM OwnTime == Spec => []ProfileIsOwnTime
  <1>1. FollowInv => ProfileIsOwnTime
    BY DEF FollowInv, ProfileIsOwnTime
  <1> QED
    BY <1>1, Followed, PTL

\* A stack that mirrors a chain shows it.
LEMMA MirrorsShows ==
    ASSUME NEW c \in Seq(Calls), NEW st, st.calls \in Seq(Targets),
           NEW t, NEW filter, Mirrors(st, c, t, filter)
    PROVE  Shows(st.calls, c)
  <1> DEFINE q == st.calls
             m == Len(c)
             n == Len(q)
  <1>1. /\ m \in Nat /\ n \in Nat /\ n <= m /\ DOMAIN c = 1 .. m /\ DOMAIN q = 1 .. n
    BY CallElements, LenProperties DEF Mirrors
  <1> HIDE DEF q, m, n
  <1>2. ASSUME NEW i \in 1 .. m
        PROVE  c[i].tracked <=> i > m - n
    <2>1. m - i \in Nat /\ m - i < m /\ m - (m - i) = i
      BY <1>1
    <2>2. Inner(c, m - i).tracked <=> m - i < n
      BY <2>1 DEF Mirrors, m, n, q
    <2>3. Inner(c, m - i) = c[i]
      BY <2>1 DEF Inner, m
    <2> QED
      BY <1>1, <2>2, <2>3
  <1>3. ASSUME NEW i \in 1 .. n
        PROVE  q[i] = c[m - n + i].target
    <2>1. n - i \in Nat /\ n - i < n /\ n - (n - i) = i /\ m - (n - i) = m - n + i
      BY <1>1
    <2>2. Inner(q, n - i) = Inner(c, n - i).target
      BY <2>1 DEF Mirrors, n, q
    <2>3. Inner(q, n - i) = q[i] /\ Inner(c, n - i) = c[m - n + i]
      BY <2>1 DEF Inner, m, n
    <2> QED
      BY <2>2, <2>3
  <1> QED
    BY <1>1, <1>2, <1>3 DEF Shows, m, n, q

\* As long as the hook saw every switch, the live stack is the call chain of the
\* running task, and each other observed task has one parked stack, its own.
THEOREM StackFollows == Spec => []StackFollowsTask
  <1>1. ASSUME IInv, FollowInv
        PROVE  StackFollowsTask
    <2> SUFFICES ASSUME missed = "none"
                 PROVE  FollowsTask
      BY DEF StackFollowsTask
    <2>1. Mirrors(live, Running.calls, Now, profile.filter)
      BY <1>1 DEF FollowInv
    <2>2. PICK own \in [DOMAIN parked -> Tasks] : Owners(own)
      BY <1>1 DEF FollowInv
    <2>3. Shows(live.calls, Running.calls)
      <3>1. Running.calls \in Seq(Calls) /\ live.calls \in Seq(Targets)
        BY <1>1, TaskTypes, ShadowTypes DEF ShadowType
      <3> QED
        BY <2>1, <3>1, MirrorsShows
    <2>4. ASSUME NEW t \in Others
          PROVE  \E i \in DOMAIN parked : Shows(parked[i].calls, task.on[t].calls)
      <3>1. PICK i \in DOMAIN parked : own[i] = t
        BY <2>2 DEF Owners
      <3>2. Mirrors(parked[i], task.on[t].calls, parked[i].at, profile.filter)
        BY <2>2, <3>1 DEF Owners
      <3>3. task.on[t].calls \in Seq(Calls) /\ parked[i].calls \in Seq(Targets)
        BY <1>1, TaskTypes, ShadowTypes DEF ShadowType, Others
      <3>4. Shows(parked[i].calls, task.on[t].calls)
        <4> DEFINE st == parked[i]
                   c == task.on[t].calls
        <4>1. c \in Seq(Calls) /\ st.calls \in Seq(Targets) /\ Mirrors(st, c, st.at, profile.filter)
          BY <3>2, <3>3
        <4> HIDE DEF st, c
        <4>2. Shows(st.calls, c)
          BY <4>1, MirrorsShows
        <4> QED
          BY <4>2 DEF st, c
      <3> QED
        BY <3>4
    <2>5. Len(parked) = Cardinality(Others)
      <3>1. Len(parked) \in Nat /\ DOMAIN parked = 1 .. Len(parked)
        BY <1>1, ParkedElements DEF IInv
      <3> DEFINE n == Len(parked)
      <3>2. own \in [1 .. n -> Others]
        BY <2>2, <3>1 DEF Owners
      <3>3. own \in Bijection(1 .. n, Others)
        <4>1. \A i, j \in 1 .. n : own[i] = own[j] => i = j
          BY <2>2, <3>1 DEF Owners
        <4>2. \A t \in Others : \E i \in 1 .. n : own[i] = t
          BY <2>2, <3>1 DEF Owners
        <4> QED
          BY <3>2, <4>1, <4>2 DEF Bijection, Injection, Surjection, IsInjective
      <3>4. ExistsBijection(1 .. n, Others)
        BY <3>3 DEF ExistsBijection
      <3> QED
        BY <3>1, <3>4, FS_CountingElements
    <2> QED
      BY <2>3, <2>4, <2>5 DEF FollowsTask
  <1> QED
    BY <1>1, Followed, PTL
=============================================================================
