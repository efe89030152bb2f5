-------------------------- MODULE ShadowStackProofs --------------------------
(***************************************************************************)
(* Proofs about ShadowStack: for all tasks, functions, stacks and limits,  *)
(* every stamp of the profiler lies in the past of the widened clock, so   *)
(* that no duration is negative, and profiler frames and timeline slices   *)
(* stay those of the innermost shadow frames.                              *)
(***************************************************************************)
EXTENDS ShadowStack, SequenceTheorems, WellFoundedInduction, TLAPS

-----------------------------------------------------------------------------
(* The inductive invariant *)

\* The cycle of the last sample: no stamp lies after it.
Stamp == clock.base + clock.last

Pushed(t) == {fr \in ProfFrames : fr.push <= t}

TargetsOf(prof) == [i \in DOMAIN prof |-> prof[i].target]

Stacks == [calls : Seq(Targets), calls_s : Seq(Nat), prof : Seq(ProfFrames)]
ParkedStacks == [calls : Seq(Targets), calls_s : Seq(Nat), prof : Seq(ProfFrames), at : Nat]

\* A shadow stack as it may be at time t, with a profile window open or not.
Sound(st, t, on) ==
    /\ Len(st.calls) <= CallstackCap
    /\ Len(st.calls_s) = Len(st.calls)
    /\ st.prof \in Seq(Pushed(t))
    /\ on \/ st.prof = << >>
    /\ Agree(TargetsOf(st.prof), st.calls)

\* The parked stacks there may be at time t: their clocks stood still when
\* they were parked.
Holdable(t, on) ==
    {r \in ParkedStacks : r.calls # << >> /\ r.at <= t /\ Sound(r, r.at, on)}

TaskInv == task \in [cur : Tasks, on : [Tasks -> [s : Nat, calls : Seq(Calls)]]]

ClockInv == clock \in [raw : 0 .. Wrap - 1, last : 0 .. Wrap - 1, base : Nat]

StatsInv ==
    /\ profile \in [active : BOOLEAN, filter : SUBSET Targets, stats : [Targets -> Stats]]
    /\ truth \in [Targets -> Stats]

TraceInv ==
    /\ trace \in [active : BOOLEAN, depth : Nat, slices : Seq(Targets)]
    /\ Len(trace.slices) = trace.depth
    /\ trace.active \/ trace.depth = 0
    /\ Agree(trace.slices, live.calls)

LiveInv == live \in Stacks /\ Sound(live, Stamp, profile.active)

ParkedInv == parked \in Seq(Holdable(Stamp, profile.active)) /\ Len(parked) <= ParkedCap

RestInv ==
    /\ elapsed \in 0 .. CycleBound
    /\ asked \in 0 .. HostBound
    /\ hook \in [armed : BOOLEAN, callbacks : BOOLEAN]
    /\ missed \in {"none", "step", "unarmed"}

IInv ==
    /\ TaskInv /\ ClockInv /\ StatsInv /\ TraceInv
    /\ LiveInv /\ ParkedInv /\ RestInv

-----------------------------------------------------------------------------
(* Sequences *)

\* A return drops the last element.
LEMMA FrontLast ==
    ASSUME NEW S, NEW seq \in Seq(S), seq # << >>
    PROVE  /\ Front(seq) \in Seq(S)
           /\ Len(Front(seq)) = Len(seq) - 1
           /\ \A i \in 1 .. Len(seq) - 1 : Front(seq)[i] = seq[i]
           /\ Last(seq) \in S
           /\ Last(seq) = seq[Len(seq)]
           /\ Len(seq) \in Nat \ {0}
  <1>1. Len(seq) \in Nat \ {0} /\ \A i \in 1 .. Len(seq) : seq[i] \in S
    BY EmptySeq, ElementOfSeq
  <1>2. \A i \in 1 .. Len(seq) - 1 : seq[i] \in S
    BY <1>1
  <1>3. Len(seq) - 1 \in Int /\ 1 \in Int
    BY <1>1
  <1>4. /\ SubSeq(seq, 1, Len(seq) - 1) \in Seq(S)
        /\ Len(SubSeq(seq, 1, Len(seq) - 1)) =
              IF 1 <= Len(seq) - 1 THEN (Len(seq) - 1) - 1 + 1 ELSE 0
        /\ \A i \in 1 .. (Len(seq) - 1) - 1 + 1 :
              SubSeq(seq, 1, Len(seq) - 1)[i] = seq[1 + i - 1]
    BY <1>2, <1>3, SubSeqProperties
  <1> DEFINE f == Front(seq)
  <1>5. /\ f \in Seq(S)
        /\ Len(f) = IF 1 <= Len(seq) - 1 THEN (Len(seq) - 1) - 1 + 1 ELSE 0
        /\ \A i \in 1 .. (Len(seq) - 1) - 1 + 1 : f[i] = seq[1 + i - 1]
    BY <1>4 DEF Front
  <1> HIDE DEF f
  <1>6. \A i \in 1 .. Len(seq) - 1 : f[i] = seq[i]
    <2> TAKE i \in 1 .. Len(seq) - 1
    <2>1. i \in 1 .. (Len(seq) - 1) - 1 + 1 /\ 1 + i - 1 = i
      BY <1>1
    <2> QED
      BY <2>1, <1>5
  <1>7. Len(f) = Len(seq) - 1
    <2> DEFINE n == Len(seq)
    <2>1. n \in Nat \ {0}
      BY <1>1
    <2>2. Len(f) = IF 1 <= n - 1 THEN (n - 1) - 1 + 1 ELSE 0
      BY <1>5
    <2> HIDE DEF n
    <2>3. Len(f) = n - 1
      BY <2>1, <2>2
    <2> QED
      BY <2>3 DEF n
  <1>8. Last(seq) \in S /\ Last(seq) = seq[Len(seq)]
    BY <1>1 DEF Last
  <1> QED
    BY <1>1, <1>5, <1>6, <1>7, <1>8 DEF f

\* push_back behind a pop_front at the cap: the new element is the last one,
\* the others stand where they stood as seen from there.
LEMMA PushesCapped ==
    ASSUME NEW S, NEW seq \in Seq(S), NEW x \in S, Len(seq) <= CallstackCap
    PROVE  /\ PushCapped(seq, x) \in Seq(S)
           /\ PushCapped(seq, x) # << >>
           /\ Len(PushCapped(seq, x)) = IF Len(seq) = CallstackCap THEN Len(seq) ELSE Len(seq) + 1
           /\ Len(PushCapped(seq, x)) <= CallstackCap
           /\ PushCapped(seq, x)[Len(PushCapped(seq, x))] = x
           /\ \A k \in 1 .. Len(PushCapped(seq, x)) - 1 :
                 PushCapped(seq, x)[Len(PushCapped(seq, x)) - k] = seq[Len(seq) - (k - 1)]
  <1>0. CallstackCap \in Nat /\ CallstackCap > 0 /\ Len(seq) \in Nat
    BY LimitsAssumption, LenProperties
  <1>1. CASE Len(seq) < CallstackCap
    <2>1. PushCapped(seq, x) = Append(seq, x)
      BY <1>0, <1>1 DEF PushCapped
    <2> QED
      BY <1>0, <1>1, <2>1, AppendProperties
  <1>2. CASE Len(seq) = CallstackCap
    <2>1. PushCapped(seq, x) = Append(Tail(seq), x)
      BY <1>0, <1>2 DEF PushCapped
    <2>2. seq # << >>
      BY <1>0, <1>2, EmptySeq
    <2>3. /\ Tail(seq) \in Seq(S)
          /\ Len(Tail(seq)) = Len(seq) - 1
          /\ \A i \in 1 .. Len(Tail(seq)) : Tail(seq)[i] = seq[i + 1]
      BY <2>2, HeadTailProperties
    <2> DEFINE t == Tail(seq)
    <2>4. /\ Append(t, x) \in Seq(S)
          /\ Append(t, x) # << >>
          /\ Len(Append(t, x)) = Len(t) + 1
          /\ \A i \in 1 .. Len(t) : Append(t, x)[i] = t[i]
          /\ Append(t, x)[Len(t) + 1] = x
      BY <2>3, AppendProperties
    <2>5. \A k \in 1 .. Len(t) : Append(t, x)[Len(t) + 1 - k] = seq[Len(seq) - (k - 1)]
      <3> TAKE k \in 1 .. Len(t)
      <3>1. Len(t) + 1 - k \in 1 .. Len(t) /\ (Len(t) + 1 - k) + 1 = Len(seq) - (k - 1)
        BY <1>0, <2>3
      <3> QED
        BY <3>1, <2>3, <2>4
    <2> QED
      BY <1>0, <1>2, <2>1, <2>3, <2>4, <2>5
  <1> QED
    BY <1>0, <1>1, <1>2

\* Taking an element out of a sequence.
LEMMA RemovesAt ==
    ASSUME NEW S, NEW seq \in Seq(S), NEW i \in 1 .. Len(seq)
    PROVE  RemoveAt(seq, i) \in Seq(S) /\ Len(RemoveAt(seq, i)) = Len(seq) - 1
  <1>0. Len(seq) \in Nat /\ \A j \in 1 .. Len(seq) : seq[j] \in S
    BY LenProperties, ElementOfSeq
  <1>1. i - 1 \in Int /\ i + 1 \in Int /\ Len(seq) \in Int /\ 1 \in Int
    BY <1>0
  <1>2. (\A j \in 1 .. i - 1 : seq[j] \in S) /\ (\A j \in i + 1 .. Len(seq) : seq[j] \in S)
    BY <1>0
  <1> DEFINE low == SubSeq(seq, 1, i - 1)
             high == SubSeq(seq, i + 1, Len(seq))
             rest == RemoveAt(seq, i)
  <1>3. low \in Seq(S) /\ Len(low) = IF 1 <= i - 1 THEN (i - 1) - 1 + 1 ELSE 0
    BY <1>1, <1>2, SubSeqProperties
  <1>4. /\ high \in Seq(S)
        /\ Len(high) = IF i + 1 <= Len(seq) THEN Len(seq) - (i + 1) + 1 ELSE 0
    BY <1>1, <1>2, SubSeqProperties
  <1>5. rest = low \o high
    BY DEF RemoveAt
  <1> HIDE DEF low, high, rest
  <1>6. rest \in Seq(S) /\ Len(rest) = Len(low) + Len(high)
    BY <1>3, <1>4, <1>5, ConcatProperties
  <1>7. Len(low) = i - 1
    <2>1. i = 1 => Len(low) = 0
      BY <1>3
    <2>2. i > 1 => Len(low) = (i - 1) - 1 + 1
      BY <1>0, <1>3
    <2> QED
      BY <1>0, <2>1, <2>2
  <1>8. Len(high) = Len(seq) - i
    <2>1. i = Len(seq) => Len(high) = 0
      BY <1>0, <1>4
    <2>2. i < Len(seq) => Len(high) = Len(seq) - (i + 1) + 1
      BY <1>0, <1>4
    <2> QED
      BY <1>0, <2>1, <2>2
  <1>9. Len(rest) = Len(seq) - 1
    BY <1>0, <1>6, <1>7, <1>8
  <1> QED
    BY <1>6, <1>9 DEF rest

\* Two sequences agree when they are the same as far back as both go.
LEMMA AgreeMeans ==
    ASSUME NEW S, NEW p \in Seq(S), NEW c \in Seq(S)
    PROVE  Agree(p, c) <=> \A k \in Nat : k < Len(p) /\ k < Len(c)
                                            => p[Len(p) - k] = c[Len(c) - k]
  <1> DEFINE n == Least(Len(p), Len(c))
             P == Innermost(p, n)
             C == Innermost(c, n)
  <1>0. /\ Len(p) \in Nat /\ \A j \in 1 .. Len(p) : p[j] \in S
        /\ Len(c) \in Nat /\ \A j \in 1 .. Len(c) : c[j] \in S
    BY LenProperties, ElementOfSeq
  <1>1. n \in Nat /\ n <= Len(p) /\ n <= Len(c) /\ (n = Len(p) \/ n = Len(c))
    BY <1>0 DEF Least
  <1> HIDE DEF n
  <1>2. P \in Seq(S) /\ Len(P) = n /\ \A i \in 1 .. n : P[i] = p[Len(p) - n + i]
    <2>1. Len(p) - n + 1 \in Int /\ Len(p) \in Int
      BY <1>0, <1>1
    <2>2. \A i \in Len(p) - n + 1 .. Len(p) : p[i] \in S
      BY <1>0, <1>1
    <2>3. /\ P \in Seq(S)
          /\ Len(P) = IF Len(p) - n + 1 <= Len(p) THEN Len(p) - (Len(p) - n + 1) + 1 ELSE 0
          /\ \A i \in 1 .. Len(p) - (Len(p) - n + 1) + 1 : P[i] = p[(Len(p) - n + 1) + i - 1]
      BY <2>1, <2>2, SubSeqProperties DEF Innermost
    <2>4. Len(P) = n
      BY <2>3, <1>0, <1>1
    <2>5. \A i \in 1 .. n : P[i] = p[Len(p) - n + i]
      <3> TAKE i \in 1 .. n
      <3>1. i \in 1 .. Len(p) - (Len(p) - n + 1) + 1 /\ (Len(p) - n + 1) + i - 1 = Len(p) - n + i
        BY <1>0, <1>1
      <3> QED
        BY <3>1, <2>3
    <2> QED
      BY <2>3, <2>4, <2>5
  <1>3. C \in Seq(S) /\ Len(C) = n /\ \A i \in 1 .. n : C[i] = c[Len(c) - n + i]
    <2>1. Len(c) - n + 1 \in Int /\ Len(c) \in Int
      BY <1>0, <1>1
    <2>2. \A i \in Len(c) - n + 1 .. Len(c) : c[i] \in S
      BY <1>0, <1>1
    <2>3. /\ C \in Seq(S)
          /\ Len(C) = IF Len(c) - n + 1 <= Len(c) THEN Len(c) - (Len(c) - n + 1) + 1 ELSE 0
          /\ \A i \in 1 .. Len(c) - (Len(c) - n + 1) + 1 : C[i] = c[(Len(c) - n + 1) + i - 1]
      BY <2>1, <2>2, SubSeqProperties DEF Innermost
    <2>4. Len(C) = n
      BY <2>3, <1>0, <1>1
    <2>5. \A i \in 1 .. n : C[i] = c[Len(c) - n + i]
      <3> TAKE i \in 1 .. n
      <3>1. i \in 1 .. Len(c) - (Len(c) - n + 1) + 1 /\ (Len(c) - n + 1) + i - 1 = Len(c) - n + i
        BY <1>0, <1>1
      <3> QED
        BY <3>1, <2>3
    <2> QED
      BY <2>3, <2>4, <2>5
  <1>4. Agree(p, c) <=> P = C
    BY DEF Agree, n
  <1>5. P = C <=> \A i \in 1 .. n : P[i] = C[i]
    BY <1>2, <1>3, SeqEqual
  <1> HIDE DEF P, C
  <1>6. ASSUME \A i \in 1 .. n : P[i] = C[i], NEW k \in Nat, k < Len(p), k < Len(c)
        PROVE  p[Len(p) - k] = c[Len(c) - k]
    <2>1. n - k \in 1 .. n /\ Len(p) - n + (n - k) = Len(p) - k /\ Len(c) - n + (n - k) = Len(c) - k
      BY <1>0, <1>1, <1>6
    <2> QED
      BY <2>1, <1>2, <1>3, <1>6
  <1>7. ASSUME \A k \in Nat : k < Len(p) /\ k < Len(c) => p[Len(p) - k] = c[Len(c) - k],
               NEW i \in 1 .. n
        PROVE  P[i] = C[i]
    <2>1. n - i \in Nat /\ n - i < Len(p) /\ n - i < Len(c)
          /\ Len(p) - n + i = Len(p) - (n - i) /\ Len(c) - n + i = Len(c) - (n - i)
      BY <1>0, <1>1
    <2> QED
      BY <2>1, <1>2, <1>3, <1>7
  <1> QED
    BY <1>4, <1>5, <1>6, <1>7

\* Nothing to compare.
LEMMA AgreeEmpty ==
    ASSUME NEW S, NEW p \in Seq(S)
    PROVE  Agree(<< >>, p) /\ Agree(p, << >>)
  <1> DEFINE e == << >>
  <1>1. e \in Seq(S) /\ Len(e) = 0
    BY EmptySeq
  <1> HIDE DEF e
  <1>2. \A k \in Nat : ~(k < Len(e))
    BY <1>1
  <1>3. Agree(e, p) /\ Agree(p, e)
    BY <1>1, <1>2, AgreeMeans
  <1> QED
    BY <1>3 DEF e

\* Two stacks that agree still do when the same element is pushed on both.
LEMMA AgreePush ==
    ASSUME NEW S, NEW p \in Seq(S), NEW c \in Seq(S), NEW x \in S,
           Len(c) <= CallstackCap, Agree(p, c)
    PROVE  Agree(Append(p, x), PushCapped(c, x))
  <1> DEFINE P == Append(p, x)
             C == PushCapped(c, x)
  <1>0. Len(p) \in Nat /\ Len(c) \in Nat
    BY LenProperties
  <1>1. /\ P \in Seq(S) /\ Len(P) = Len(p) + 1
        /\ \A i \in 1 .. Len(p) : P[i] = p[i]
        /\ P[Len(p) + 1] = x
    BY AppendProperties
  <1>6. /\ C \in Seq(S)
        /\ Len(C) = IF Len(c) = CallstackCap THEN Len(c) ELSE Len(c) + 1
        /\ C[Len(C)] = x
        /\ \A k \in 1 .. Len(C) - 1 : C[Len(C) - k] = c[Len(c) - (k - 1)]
    BY PushesCapped
  <1> HIDE DEF C
  <1>7. Len(C) <= Len(c) + 1 /\ Len(C) \in Nat
    <2> DEFINE n == Len(C)
    <2>1. n = IF Len(c) = CallstackCap THEN Len(c) ELSE Len(c) + 1
      BY <1>6
    <2> HIDE DEF n
    <2>2. n <= Len(c) + 1 /\ n \in Nat
      BY <1>0, <2>1
    <2> QED
      BY <2>2 DEF n
  <1>2. /\ C \in Seq(S) /\ Len(C) <= Len(c) + 1 /\ Len(C) \in Nat
        /\ C[Len(C)] = x
        /\ \A k \in 1 .. Len(C) - 1 : C[Len(C) - k] = c[Len(c) - (k - 1)]
    BY <1>6, <1>7, Zenon
  <1>3. \A k \in Nat : k < Len(p) /\ k < Len(c) => p[Len(p) - k] = c[Len(c) - k]
    BY AgreeMeans
  <1> HIDE DEF P, C
  <1>4. ASSUME NEW k \in Nat, k < Len(P), k < Len(C)
        PROVE  P[Len(P) - k] = C[Len(C) - k]
    <2>1. CASE k = 0
      <3>1. Len(P) - k = Len(p) + 1 /\ Len(C) - k = Len(C)
        BY <1>0, <1>1, <1>2, <2>1
      <3> QED
        BY <3>1, <1>1, <1>2
    <2>2. CASE k # 0
      <3>1. /\ k \in 1 .. Len(C) - 1 /\ k - 1 \in Nat /\ k - 1 < Len(p) /\ k - 1 < Len(c)
            /\ Len(P) - k = Len(p) - (k - 1) /\ Len(p) - (k - 1) \in 1 .. Len(p)
        BY <1>0, <1>1, <1>2, <1>4, <2>2
      <3> QED
        BY <3>1, <1>1, <1>2, <1>3
    <2> QED
      BY <2>1, <2>2
  <1>5. Agree(P, C)
    BY <1>1, <1>2, <1>4, AgreeMeans
  <1> QED
    BY <1>5 DEF P, C

\* Two stacks that agree still do when both are popped.
LEMMA AgreePop ==
    ASSUME NEW S, NEW p \in Seq(S), NEW c \in Seq(S), p # << >>, c # << >>, Agree(p, c)
    PROVE  Agree(Front(p), Front(c))
  <1> DEFINE P == Front(p)
             C == Front(c)
  <1>1. /\ P \in Seq(S) /\ Len(P) = Len(p) - 1 /\ Len(p) \in Nat \ {0}
        /\ \A i \in 1 .. Len(p) - 1 : P[i] = p[i]
    BY FrontLast
  <1>2. /\ C \in Seq(S) /\ Len(C) = Len(c) - 1 /\ Len(c) \in Nat \ {0}
        /\ \A i \in 1 .. Len(c) - 1 : C[i] = c[i]
    BY FrontLast
  <1>3. \A k \in Nat : k < Len(p) /\ k < Len(c) => p[Len(p) - k] = c[Len(c) - k]
    BY AgreeMeans
  <1> HIDE DEF P, C
  <1>4. ASSUME NEW k \in Nat, k < Len(P), k < Len(C)
        PROVE  P[Len(P) - k] = C[Len(C) - k]
    <2>1. /\ k + 1 \in Nat /\ k + 1 < Len(p) /\ k + 1 < Len(c)
          /\ Len(P) - k = Len(p) - (k + 1) /\ Len(p) - (k + 1) \in 1 .. Len(p) - 1
          /\ Len(C) - k = Len(c) - (k + 1) /\ Len(c) - (k + 1) \in 1 .. Len(c) - 1
      BY <1>1, <1>2, <1>4
    <2> QED
      BY <2>1, <1>1, <1>2, <1>3
  <1>5. Agree(P, C)
    BY <1>1, <1>2, <1>4, AgreeMeans
  <1> QED
    BY <1>5 DEF P, C

-----------------------------------------------------------------------------
(* The emulated program *)

OnType == [s : Nat, calls : Seq(Calls)]
TaskType == [cur : Tasks, on : [Tasks -> OnType]]

\* A change to each call in progress leaves a sequence of calls.
LEMMA MapsCalls ==
    ASSUME NEW c \in Seq(Calls), NEW g, g = [i \in DOMAIN c |-> g[i]],
           \A i \in 1 .. Len(c) : c[i] \in Calls => g[i] \in Calls
    PROVE  g \in Seq(Calls)
  <1>1. Len(c) \in Nat /\ DOMAIN c = 1 .. Len(c) /\ \A i \in 1 .. Len(c) : c[i] \in Calls
    BY LenProperties, ElementOfSeq
  <1>2. g \in [1 .. Len(c) -> Calls]
    BY <1>1
  <1> QED
    BY <1>1, <1>2, SeqDef

\* What is recorded of a call may change.
LEMMA CallFields ==
    ASSUME NEW x \in Calls
    PROVE  /\ \A m, n \in Nat : [x EXCEPT !.incl = m, !.own = n] \in Calls
           /\ \A v \in BOOLEAN : [x EXCEPT !.tracked = v] \in Calls
           /\ \A v \in BOOLEAN : [x EXCEPT !.timed = v] \in Calls
  <1>1. \A m, n \in Nat : [x EXCEPT !.incl = m, !.own = n] \in Calls
    BY DEF Calls
  <1>2. \A v \in BOOLEAN : [x EXCEPT !.tracked = v] \in Calls
    BY DEF Calls
  <1>3. \A v \in BOOLEAN : [x EXCEPT !.timed = v] \in Calls
    BY DEF Calls
  <1> QED
    BY <1>1, <1>2, <1>3

\* A cycle for the calls of a running task, and what the library forgets.
LEMMA ChangesCalls ==
    ASSUME NEW c \in Seq(Calls)
    PROVE  Ran(c) \in Seq(Calls) /\ Untracked(c) \in Seq(Calls) /\ Untimed(c) \in Seq(Calls)
  <1>1. ASSUME NEW x \in Calls, NEW last \in BOOLEAN
        PROVE  /\ [x EXCEPT !.incl = IF x.timed THEN @ + 1 ELSE @,
                            !.own = IF x.timed /\ last THEN @ + 1 ELSE @] \in Calls
               /\ [x EXCEPT !.tracked = FALSE] \in Calls
               /\ [x EXCEPT !.timed = FALSE] \in Calls
    <2>1. x.incl \in Nat /\ x.own \in Nat
      BY DEF Calls
    <2>2. /\ (IF x.timed THEN x.incl + 1 ELSE x.incl) \in Nat
          /\ (IF x.timed /\ last THEN x.own + 1 ELSE x.own) \in Nat
      BY <2>1
    <2>3. [x EXCEPT !.incl = IF x.timed THEN @ + 1 ELSE @,
                    !.own = IF x.timed /\ last THEN @ + 1 ELSE @] \in Calls
      BY <2>2, CallFields DEF Calls
    <2>4. [x EXCEPT !.tracked = FALSE] \in Calls
      BY CallFields DEF Calls
    <2>5. [x EXCEPT !.timed = FALSE] \in Calls
      BY CallFields DEF Calls
    <2> QED
      BY <2>3, <2>4, <2>5
  <1>2. Ran(c) \in Seq(Calls)
    <2> DEFINE g == Ran(c)
    <2>1. g = [i \in DOMAIN c |-> g[i]]
      BY DEF Ran
    <2>2. \A i \in 1 .. Len(c) : c[i] \in Calls => g[i] \in Calls
      <3> SUFFICES ASSUME NEW i \in 1 .. Len(c), c[i] \in Calls PROVE g[i] \in Calls
        OBVIOUS
      <3>1. (i = Len(c)) \in BOOLEAN /\ i \in DOMAIN c
        BY LenProperties
      <3>2. g[i] = [c[i] EXCEPT !.incl = IF c[i].timed THEN @ + 1 ELSE @,
                                !.own = IF c[i].timed /\ i = Len(c) THEN @ + 1 ELSE @]
        BY <3>1 DEF Ran
      <3> QED
        BY <1>1, <3>1, <3>2
    <2> HIDE DEF g
    <2>3. g \in Seq(Calls)
      BY <2>1, <2>2, MapsCalls
    <2> QED
      BY <2>3 DEF g
  <1>3. Untracked(c) \in Seq(Calls)
    <2> DEFINE g == Untracked(c)
    <2>1. g = [i \in DOMAIN c |-> g[i]]
      BY DEF Untracked
    <2>2. \A i \in 1 .. Len(c) : c[i] \in Calls => g[i] \in Calls
      BY <1>1, LenProperties DEF Untracked
    <2> HIDE DEF g
    <2>3. g \in Seq(Calls)
      BY <2>1, <2>2, MapsCalls
    <2> QED
      BY <2>3 DEF g
  <1>4. Untimed(c) \in Seq(Calls)
    <2> DEFINE g == Untimed(c)
    <2>1. g = [i \in DOMAIN c |-> g[i]]
      BY DEF Untimed
    <2>2. \A i \in 1 .. Len(c) : c[i] \in Calls => g[i] \in Calls
      BY <1>1, LenProperties DEF Untimed
    <2> HIDE DEF g
    <2>3. g \in Seq(Calls)
      BY <2>1, <2>2, MapsCalls
    <2> QED
      BY <2>3 DEF g
  <1> QED
    BY <1>2, <1>3, <1>4

\* A record that says where a task is.
LEMMA OnRecord ==
    ASSUME NEW r \in OnType, NEW c \in Seq(Calls)
    PROVE  [r EXCEPT !.calls = c] \in OnType
  BY DEF OnType

\* Forgetting the calls of every task.
LEMMA ForgetsAll ==
    ASSUME task \in TaskType
    PROVE  /\ [task EXCEPT !.on = AllUntracked] \in TaskType
           /\ [task EXCEPT !.on = AllUntimed] \in TaskType
  <1>1. ASSUME NEW t \in Tasks
        PROVE  /\ [task.on[t] EXCEPT !.calls = Untracked(@)] \in OnType
               /\ [task.on[t] EXCEPT !.calls = Untimed(@)] \in OnType
    <2>1. task.on[t] \in OnType /\ task.on[t].calls \in Seq(Calls)
      BY DEF TaskType, OnType
    <2>2. Untracked(task.on[t].calls) \in Seq(Calls) /\ Untimed(task.on[t].calls) \in Seq(Calls)
      BY <2>1, ChangesCalls
    <2> QED
      BY <2>1, <2>2, OnRecord
  <1>2. AllUntracked \in [Tasks -> OnType] /\ AllUntimed \in [Tasks -> OnType]
    BY <1>1 DEF AllUntracked, AllUntimed
  <1> QED
    BY <1>2 DEF TaskType

\* The running task goes on for a cycle.
LEMMA RunsOn ==
    ASSUME NEW on \in [Tasks -> OnType], NEW cur \in Tasks
    PROVE  [cur |-> cur, on |-> [on EXCEPT ![cur].calls = Ran(@)]] \in TaskType
  <1>1. on[cur] \in OnType /\ on[cur].calls \in Seq(Calls)
    BY DEF OnType
  <1>2. Ran(on[cur].calls) \in Seq(Calls)
    BY <1>1, ChangesCalls
  <1>3. [on[cur] EXCEPT !.calls = Ran(@)] \in OnType
    BY <1>1, <1>2, OnRecord
  <1> QED
    BY <1>3 DEF TaskType

\* The calls of a stack that is dropped.
LEMMA Forgets ==
    ASSUME NEW on \in [Tasks -> OnType], NEW s
    PROVE  ForgetDropped(on, s) \in [Tasks -> OnType]
  <1>1. ASSUME NEW t \in Tasks
        PROVE  ForgetDropped(on, s)[t] \in OnType
    <2> DEFINE c == on[t].calls
               g == [i \in DOMAIN c |->
                       [c[i] EXCEPT !.tracked = @ /\ c[i].s \notin Dropped(s)]]
    <2>1. on[t] \in OnType /\ c \in Seq(Calls)
      BY <1>1 DEF OnType
    <2>2. ForgetDropped(on, s)[t] = [on[t] EXCEPT !.calls = g]
      BY <1>1 DEF ForgetDropped
    <2>3. \A x \in Calls : [x EXCEPT !.tracked = @ /\ x.s \notin Dropped(s)] \in Calls
      BY CallFields DEF Calls
    <2>4. \A i \in 1 .. Len(c) : c[i] \in Calls => g[i] \in Calls
      BY <2>1, <2>3, LenProperties
    <2>5. g = [i \in DOMAIN c |-> g[i]]
      OBVIOUS
    <2> HIDE DEF c, g
    <2>6. g \in Seq(Calls)
      BY <2>1, <2>4, <2>5, MapsCalls
    <2> QED
      BY <2>1, <2>2, <2>6, OnRecord
  <1> QED
    BY <1>1 DEF ForgetDropped

\* The task goes on as a task, whatever the step.
LEMMA TaskKeeps ==
    ASSUME IInv, [Next]_vars
    PROVE  TaskInv'
  <1> USE DEF TaskInv
  <1>0. task \in TaskType /\ task.cur \in Tasks /\ task.on \in [Tasks -> OnType]
    BY DEF IInv, TaskType, OnType
  <1>00. SUFFICES task' \in TaskType
    BY DEF TaskType, OnType
  <1>k. Running \in OnType /\ Running.s \in Nat /\ Running.calls \in Seq(Calls)
    BY <1>0 DEF Running, OnType
  <1>r. [task EXCEPT !.on = AllUntracked] \in TaskType /\ [task EXCEPT !.on = AllUntimed] \in TaskType
    BY <1>0, ForgetsAll
  <1>b. Booted \in TaskType
    <2>1. << >> \in Seq(Calls)
      BY EmptySeq
    <2>2. \A t \in Tasks : [s |-> StackBase[t], calls |-> << >>] \in OnType
      BY <2>1, StacksAssumption DEF OnType
    <2> QED
      BY <2>2, TasksAssumption DEF Booted, TaskType
  <1>1. CASE Tick
    <2>1. Ran(Running.calls) \in Seq(Calls)
      BY <1>k, ChangesCalls
    <2>2. task' = [task EXCEPT !.on[task.cur].calls = Ran(@)]
      BY <1>1 DEF Tick
    <2>3. task' = [cur |-> task.cur, on |-> [task.on EXCEPT ![task.cur].calls = Ran(@)]]
      BY <2>2, <1>0 DEF TaskType
    <2> QED
      BY <2>3, <1>0, RunsOn
  <1>2. CASE Frame
    BY <1>0, <1>2 DEF Frame
  <1>3. ASSUME NEW f \in Targets, Call(f)
        PROVE  task' \in TaskType
    <2> DEFINE s == Running.s - 1
               before == [i \in DOMAIN Running.calls |->
                     [Running.calls[i] EXCEPT !.tracked = @ /\ ~Overflows(i)]]
    <2>1. /\ s >= StackBase[task.cur] - StackDepth
          /\ task' = [task EXCEPT !.on[task.cur] =
                        [s |-> s, calls |-> Ran(Append(before, Made(f, s)))]]
      BY <1>3 DEF Call
    <2>2. s \in Nat
      <3>1. StackBase[task.cur] \in Nat /\ StackBase[task.cur] >= StackDepth /\ StackDepth \in Nat
        BY <1>0, StacksAssumption, LimitsAssumption
      <3> QED
        BY <3>1, <2>1, <1>k
    <2>3. before \in Seq(Calls)
      <3>1. \A x \in Calls : \A v \in BOOLEAN : [x EXCEPT !.tracked = @ /\ v] \in Calls
        BY CallFields DEF Calls
      <3>2. \A i \in 1 .. Len(Running.calls) : Running.calls[i] \in Calls => before[i] \in Calls
        <4> SUFFICES ASSUME NEW i \in 1 .. Len(Running.calls), Running.calls[i] \in Calls
                     PROVE  before[i] \in Calls
          OBVIOUS
        <4>1. before[i] = [Running.calls[i] EXCEPT !.tracked = @ /\ ~Overflows(i)]
          BY <1>k, LenProperties
        <4>2. (~Overflows(i)) \in BOOLEAN
          OBVIOUS
        <4> QED
          BY <3>1, <4>1, <4>2
      <3>3. before = [i \in DOMAIN Running.calls |-> before[i]]
        OBVIOUS
      <3> HIDE DEF before
      <3> QED
        BY <1>k, <3>2, <3>3, MapsCalls
    <2>4. Made(f, s) \in Calls
      BY <2>2, <1>3 DEF Made, Calls, IInv, StatsInv
    <2> HIDE DEF before, s
    <2>5. Append(before, Made(f, s)) \in Seq(Calls)
      BY <2>3, <2>4, AppendProperties
    <2>6. Ran(Append(before, Made(f, s))) \in Seq(Calls)
      BY <2>5, ChangesCalls
    <2>7. [s |-> s, calls |-> Ran(Append(before, Made(f, s)))] \in OnType
      BY <2>2, <2>6 DEF OnType
    <2> QED
      BY <2>1, <2>7, <1>0 DEF TaskType
  <1>4. CASE Return
    <2>1. /\ Running.calls # << >>
          /\ task' = [task EXCEPT !.on[task.cur] =
                        [s |-> Last(Running.calls).s + 1, calls |-> Ran(Front(Running.calls))]]
      BY <1>4 DEF Return
    <2>2. Front(Running.calls) \in Seq(Calls) /\ Last(Running.calls) \in Calls
      BY <1>k, <2>1, FrontLast
    <2>5. Last(Running.calls).s \in Nat
      BY <2>2 DEF Calls
    <2>6. Ran(Front(Running.calls)) \in Seq(Calls)
      BY <2>2, ChangesCalls
    <2>3. Ran(Front(Running.calls)) \in Seq(Calls) /\ Last(Running.calls).s + 1 \in Nat
      BY <2>5, <2>6
    <2>4. [s |-> Last(Running.calls).s + 1, calls |-> Ran(Front(Running.calls))] \in OnType
      BY <2>3 DEF OnType
    <2> QED
      BY <2>1, <2>4, <1>0 DEF TaskType
  <1>5. ASSUME NEW s, NEW cur \in Tasks, NEW on \in [Tasks -> OnType], SwitchShadowStack(s, cur, on)
        PROVE  task' \in TaskType
    <2>1. \/ task' = [cur |-> cur, on |-> [on EXCEPT ![cur].calls = Ran(@)]]
          \/ task' = [cur |-> cur, on |-> [ForgetDropped(on, s) EXCEPT ![cur].calls = Ran(@)]]
      BY <1>5 DEF SwitchShadowStack
    <2> QED
      BY <2>1, <1>5, RunsOn, Forgets
  <1>6. ASSUME NEW s \in Spaces, LocalFrame(s)
        PROVE  task' \in TaskType
    <2>1. /\ s \in Reach(Running, StackBase[task.cur])
          /\ SwitchShadowStack(s, task.cur, [task.on EXCEPT ![task.cur].s = s])
      BY <1>6 DEF LocalFrame
    <2>2. s \in Nat
      <3>1. StackBase[task.cur] \in Nat /\ StackBase[task.cur] >= StackDepth /\ StackDepth \in Nat
        BY <1>0, StacksAssumption, LimitsAssumption
      <3>2. s \in (StackBase[task.cur] - StackDepth) .. StackBase[task.cur]
        BY <2>1 DEF Reach
      <3> QED
        BY <3>1, <3>2
    <2>3. [task.on EXCEPT ![task.cur].s = s] \in [Tasks -> OnType]
      BY <1>0, <2>2 DEF OnType
    <2> QED
      BY <1>0, <1>5, <2>1, <2>3
  <1>7. ASSUME NEW u \in Tasks, Switch(u)
        PROVE  task' \in TaskType
    BY <1>0, <1>5, <1>7 DEF Switch
  <1>8. ASSUME NEW u \in Tasks, StepOverSwitch(u)
        PROVE  task' \in TaskType
    BY <1>0, <1>8, RunsOn DEF StepOverSwitch
  <1>9. CASE CallstackClear
    BY <1>9, <1>r DEF CallstackClear
  <1>10. ASSUME NEW raw, LoadState(raw)
         PROVE  task' \in TaskType
    BY <1>10, <1>r DEF LoadState
  <1>11. CASE Reset
    BY <1>11, <1>b DEF Reset
  <1>12. ASSUME NEW filter, ProfileStart(filter)
         PROVE  task' \in TaskType
    BY <1>12, <1>r DEF ProfileStart, ClearProfileFrames
  <1>13. CASE ProfileStop
    BY <1>13, <1>r DEF ProfileStop, ClearProfileFrames
  <1>14. CASE ProfileReset
    BY <1>14, <1>r DEF ProfileReset, ClearProfileFrames
  <1>15. CASE AddCallback \/ RemoveCallback
    BY <1>0, <1>15 DEF AddCallback, RemoveCallback
  <1>16. ASSUME NEW opens, TimelineStart(opens)
         PROVE  task' \in TaskType
    BY <1>0, <1>16 DEF TimelineStart
  <1>17. CASE TimelineStop
    BY <1>0, <1>17 DEF TimelineStop
  <1>18. CASE UNCHANGED vars
    BY <1>0, <1>18 DEF vars
  <1> QED
    BY <1>1, <1>2, <1>3, <1>4, <1>6, <1>7, <1>8, <1>9, <1>10, <1>11, <1>12, <1>13, <1>14,
       <1>15, <1>16, <1>17, <1>18 DEF Next, Program, Host

-----------------------------------------------------------------------------
(* The widened clock *)

ClockType == [raw : 0 .. Wrap - 1, last : 0 .. Wrap - 1, base : Nat]

\* The clock reads no less than at its last sample.
LEMMA NowIsLater ==
    ASSUME clock \in ClockType
    PROVE  /\ Now \in Nat /\ Stamp \in Nat /\ Stamp <= Now
           /\ Widened(clock) \in Nat /\ Now = Widened(clock) + clock.raw
  <1>1. Wrap \in Nat /\ clock.raw \in 0 .. Wrap - 1 /\ clock.last \in 0 .. Wrap - 1 /\ clock.base \in Nat
    BY LimitsAssumption DEF ClockType
  <1> QED
    BY <1>1 DEF Now, Stamp, Widened

\* A handler that stamps leaves a clock that was just sampled, the others leave
\* it alone; the cycle that follows does not sample.
LEMMA ClockMoves ==
    ASSUME clock \in ClockType
    PROVE  /\ Sampled(clock) \in ClockType
           /\ Sampled(clock).base + Sampled(clock).last = Now
           /\ \A on : /\ SampledIf(on) \in ClockType
                      /\ on => SampledIf(on) = Sampled(clock)
                      /\ ~on => SampledIf(on) = clock
           /\ \A c \in ClockType : /\ Advanced(c) \in ClockType
                                   /\ Advanced(c).base = c.base
                                   /\ Advanced(c).last = c.last
  <1>1. Wrap \in Nat \ {0} /\ clock.raw \in 0 .. Wrap - 1
    BY LimitsAssumption DEF ClockType
  <1>2. Sampled(clock) \in ClockType /\ Sampled(clock).base = Widened(clock)
        /\ Sampled(clock).last = clock.raw
    BY NowIsLater DEF Sampled, ClockType
  <1>3. Sampled(clock).base + Sampled(clock).last = Now
    BY <1>2 DEF Now
  <1>4. ASSUME NEW on
        PROVE  /\ SampledIf(on) \in ClockType
               /\ on => SampledIf(on) = Sampled(clock)
               /\ ~on => SampledIf(on) = clock
    BY <1>2 DEF SampledIf
  <1>5. ASSUME NEW c \in ClockType
        PROVE  /\ Advanced(c) \in ClockType
               /\ Advanced(c).base = c.base
               /\ Advanced(c).last = c.last
    <2>1. c.raw \in 0 .. Wrap - 1
      BY DEF ClockType
    <2>2. (c.raw + 1) % Wrap \in 0 .. Wrap - 1
      BY <1>1, <2>1
    <2> QED
      BY <2>2 DEF Advanced, ClockType
  <1> QED
    BY <1>2, <1>3, <1>4, <1>5

\* A clock, and a stamp no earlier than before.
Later(c) == c \in ClockType /\ c.base + c.last \in {Stamp, Now}

\* The clocks a step may leave.
LEMMA LaterClocks ==
    ASSUME clock \in ClockType
    PROVE  /\ Later(clock) /\ Later(Sampled(clock))
           /\ \A on : Later(SampledIf(on))
           /\ \A c : Later(c) => Later(Advanced(c))
           /\ \A c : Later(c) => \A raw \in 0 .. Wrap - 1 : Later([c EXCEPT !.raw = raw])
  <1>1. Later(clock) /\ Later(Sampled(clock))
    BY ClockMoves DEF Later, Stamp
  <1>2. ASSUME NEW on
        PROVE  Later(SampledIf(on))
    BY <1>1, ClockMoves
  <1>3. ASSUME NEW c, Later(c)
        PROVE  Later(Advanced(c))
    BY <1>3, ClockMoves DEF Later
  <1>4. ASSUME NEW c, Later(c), NEW raw \in 0 .. Wrap - 1
        PROVE  Later([c EXCEPT !.raw = raw])
    BY <1>4 DEF Later, ClockType
  <1> QED
    BY <1>1, <1>2, <1>3, <1>4

\* The clock goes on as a clock, and no sample lies before an earlier one.
LEMMA ClockKeeps ==
    ASSUME IInv, [Next]_vars
    PROVE  ClockInv' /\ Stamp \in Nat /\ Now \in Nat /\ Stamp' \in {Stamp, Now} /\ Stamp <= Stamp'
  <1>0. clock \in ClockType
    BY DEF IInv, ClockInv, ClockType
  <1>00. SUFFICES Later(clock')
    BY <1>0, NowIsLater DEF Later, ClockInv, ClockType, Stamp
  <1>z. \A raw \in SavedClocks \cup {0} : raw \in 0 .. Wrap - 1
    BY LimitsAssumption
  <1> USE <1>0, LaterClocks
  <1>1. CASE Tick
    BY <1>1 DEF Tick
  <1>2. CASE Frame
    BY <1>2 DEF Frame
  <1>3. ASSUME NEW f, Call(f)
        PROVE  Later(clock')
    BY <1>3 DEF Call
  <1>4. CASE Return
    BY <1>4 DEF Return, ReturnNowhere
  <1>5. ASSUME NEW s, NEW cur, NEW on, SwitchShadowStack(s, cur, on)
        PROVE  Later(clock')
    BY <1>5 DEF SwitchShadowStack
  <1>6. ASSUME NEW s, LocalFrame(s)
        PROVE  Later(clock')
    BY <1>5, <1>6 DEF LocalFrame
  <1>7. ASSUME NEW u, Switch(u)
        PROVE  Later(clock')
    BY <1>5, <1>7 DEF Switch
  <1>8. ASSUME NEW u, StepOverSwitch(u)
        PROVE  Later(clock')
    BY <1>8 DEF StepOverSwitch
  <1>9. CASE CallstackClear
    BY <1>9 DEF CallstackClear
  <1>10. ASSUME NEW raw \in SavedClocks, LoadState(raw)
         PROVE  Later(clock')
    BY <1>10, <1>z DEF LoadState
  <1>11. CASE Reset
    BY <1>11, <1>z DEF Reset
  <1>12. ASSUME NEW filter, ProfileStart(filter)
         PROVE  Later(clock')
    BY <1>12 DEF ProfileStart
  <1>13. CASE ProfileStop
    BY <1>13 DEF ProfileStop
  <1>14. CASE ProfileReset
    BY <1>14 DEF ProfileReset
  <1>15. CASE AddCallback \/ RemoveCallback
    BY <1>15 DEF AddCallback, RemoveCallback
  <1>16. ASSUME NEW opens, TimelineStart(opens)
         PROVE  Later(clock')
    BY <1>16 DEF TimelineStart
  <1>17. CASE TimelineStop
    BY <1>17 DEF TimelineStop
  <1>18. CASE UNCHANGED vars
    BY <1>18 DEF vars
  <1> QED
    BY <1>1, <1>2, <1>3, <1>4, <1>6, <1>7, <1>8, <1>9, <1>10, <1>11, <1>12, <1>13, <1>14,
       <1>15, <1>16, <1>17, <1>18 DEF Next, Program, Host

-----------------------------------------------------------------------------
(* Profiler frames *)

\* Frames pushed by some time were pushed by any later one.
LEMMA PushedLater ==
    ASSUME NEW t \in Nat, NEW u \in Nat, t <= u
    PROVE  Pushed(t) \subseteq Pushed(u) /\ Seq(Pushed(t)) \subseteq Seq(Pushed(u))
  <1>1. Pushed(t) \subseteq Pushed(u)
    <2>1. \A fr \in Pushed(t) : fr.push \in Nat /\ fr \in ProfFrames /\ fr.push <= t
      BY DEF Pushed, ProfFrames
    <2>2. \A fr \in Pushed(t) : fr.push <= u
      BY <2>1
    <2> QED
      BY <2>1, <2>2 DEF Pushed
  <1> QED
    BY <1>1, SeqMonotonic

\* An interval tells its length.
LEMMA SameInterval ==
    ASSUME NEW m \in Nat, NEW n \in Nat, 1 .. m = 1 .. n
    PROVE  m = n
  <1>1. \A k \in Nat : k \in 1 .. m <=> k \in 1 .. n
    OBVIOUS
  <1>2. m \in 1 .. m => m <= n
    BY <1>1
  <1>3. n \in 1 .. n => n <= m
    BY <1>1
  <1> QED
    BY <1>2, <1>3

\* The functions of the frames.
LEMMA Targeted ==
    ASSUME NEW prof \in Seq(ProfFrames)
    PROVE  /\ TargetsOf(prof) \in Seq(Targets)
           /\ Len(TargetsOf(prof)) = Len(prof)
           /\ \A i \in 1 .. Len(prof) : TargetsOf(prof)[i] = prof[i].target
  <1>1. /\ Len(prof) \in Nat /\ DOMAIN prof = 1 .. Len(prof)
        /\ \A i \in 1 .. Len(prof) : prof[i] \in ProfFrames
    BY LenProperties, ElementOfSeq
  <1>2. TargetsOf(prof) = [i \in 1 .. Len(prof) |-> prof[i].target]
    BY <1>1 DEF TargetsOf
  <1>3. \A i \in 1 .. Len(prof) : prof[i].target \in Targets
    BY <1>1 DEF ProfFrames
  <1>4. TargetsOf(prof) \in [1 .. Len(prof) -> Targets]
    BY <1>2, <1>3
  <1>5. TargetsOf(prof) \in Seq(Targets)
    BY <1>1, <1>4, SeqDef
  <1>6. DOMAIN TargetsOf(prof) = 1 .. Len(TargetsOf(prof)) /\ Len(TargetsOf(prof)) \in Nat
    BY <1>5, LenProperties
  <1>7. DOMAIN TargetsOf(prof) = 1 .. Len(prof)
    BY <1>4
  <1>8. Len(TargetsOf(prof)) = Len(prof)
    BY <1>1, <1>6, <1>7, SameInterval
  <1> QED
    BY <1>2, <1>5, <1>8

\* Two sequences of frames of the same functions.
LEMMA SameTargets ==
    ASSUME NEW p \in Seq(ProfFrames), NEW q \in Seq(ProfFrames), Len(p) = Len(q),
           \A i \in 1 .. Len(p) : p[i].target = q[i].target
    PROVE  TargetsOf(p) = TargetsOf(q)
  <1>1. /\ TargetsOf(p) \in Seq(Targets) /\ Len(TargetsOf(p)) = Len(p)
        /\ \A i \in 1 .. Len(p) : TargetsOf(p)[i] = p[i].target
    BY Targeted
  <1>2. /\ TargetsOf(q) \in Seq(Targets) /\ Len(TargetsOf(q)) = Len(q)
        /\ \A i \in 1 .. Len(q) : TargetsOf(q)[i] = q[i].target
    BY Targeted
  <1> QED
    BY <1>1, <1>2, SeqEqual

\* Pushing a frame, or not, pushes its function, or not.
LEMMA TargetsPushed ==
    ASSUME NEW prof \in Seq(ProfFrames), NEW fr \in ProfFrames
    PROVE  TargetsOf(Append(prof, fr)) = Append(TargetsOf(prof), fr.target)
  <1> DEFINE p == Append(prof, fr)
             q == Append(TargetsOf(prof), fr.target)
  <1>1. /\ p \in Seq(ProfFrames) /\ Len(p) = Len(prof) + 1
        /\ \A i \in 1 .. Len(prof) : p[i] = prof[i]
        /\ p[Len(prof) + 1] = fr
    BY AppendProperties
  <1>2. /\ TargetsOf(prof) \in Seq(Targets) /\ Len(TargetsOf(prof)) = Len(prof)
        /\ \A i \in 1 .. Len(prof) : TargetsOf(prof)[i] = prof[i].target
    BY Targeted
  <1>3. fr.target \in Targets /\ Len(prof) \in Nat
    BY LenProperties DEF ProfFrames
  <1>4. /\ q \in Seq(Targets) /\ Len(q) = Len(prof) + 1
        /\ \A i \in 1 .. Len(prof) : q[i] = prof[i].target
        /\ q[Len(prof) + 1] = fr.target
    BY <1>2, <1>3, AppendProperties
  <1> HIDE DEF p, q
  <1>5. /\ TargetsOf(p) \in Seq(Targets) /\ Len(TargetsOf(p)) = Len(p)
        /\ \A i \in 1 .. Len(p) : TargetsOf(p)[i] = p[i].target
    BY <1>1, Targeted
  <1>6. \A i \in 1 .. Len(prof) + 1 : TargetsOf(p)[i] = q[i]
    BY <1>1, <1>3, <1>4, <1>5
  <1>7. TargetsOf(p) = q
    BY <1>1, <1>4, <1>5, <1>6, SeqEqual
  <1> QED
    BY <1>7 DEF p, q

\* Popping a frame pops its function.
LEMMA TargetsPopped ==
    ASSUME NEW prof \in Seq(ProfFrames), prof # << >>
    PROVE  TargetsOf(Front(prof)) = Front(TargetsOf(prof)) /\ TargetsOf(prof) # << >>
  <1> DEFINE p == Front(prof)
             t == TargetsOf(prof)
             q == Front(t)
  <1>1. /\ p \in Seq(ProfFrames) /\ Len(p) = Len(prof) - 1 /\ Len(prof) \in Nat \ {0}
        /\ \A i \in 1 .. Len(prof) - 1 : p[i] = prof[i]
    BY FrontLast
  <1>2. /\ t \in Seq(Targets) /\ Len(t) = Len(prof)
        /\ \A i \in 1 .. Len(prof) : t[i] = prof[i].target
    BY Targeted
  <1> HIDE DEF p, t
  <1>3. t # << >>
    BY <1>1, <1>2, EmptySeq
  <1>4. /\ q \in Seq(Targets) /\ Len(q) = Len(t) - 1
        /\ \A i \in 1 .. Len(t) - 1 : q[i] = t[i]
    BY <1>2, <1>3, FrontLast
  <1> HIDE DEF q
  <1>5. /\ TargetsOf(p) \in Seq(Targets) /\ Len(TargetsOf(p)) = Len(p)
        /\ \A i \in 1 .. Len(p) : TargetsOf(p)[i] = p[i].target
    BY <1>1, Targeted
  <1>6. \A i \in 1 .. Len(prof) - 1 : TargetsOf(p)[i] = q[i]
    <2> TAKE i \in 1 .. Len(prof) - 1
    <2>1. i \in 1 .. Len(prof) /\ i \in 1 .. Len(p) /\ i \in 1 .. Len(t) - 1
      BY <1>1, <1>2
    <2> QED
      BY <2>1, <1>1, <1>2, <1>4, <1>5
  <1>7. TargetsOf(p) = q
    BY <1>1, <1>2, <1>4, <1>5, <1>6, SeqEqual
  <1> QED
    BY <1>3, <1>7 DEF p, t, q

\* What the callee took is charged to the caller, which stays the same call.
LEMMA Charged ==
    ASSUME NEW t \in Nat, NEW prof \in Seq(Pushed(t)), NEW n \in Nat
    PROVE  /\ ChargeChild(prof, n) \in Seq(Pushed(t))
           /\ Len(ChargeChild(prof, n)) = Len(prof)
           /\ TargetsOf(ChargeChild(prof, n)) = TargetsOf(prof)
  <1>1. CASE prof = << >>
    BY <1>1 DEF ChargeChild
  <1>2. CASE prof # << >>
    <2> DEFINE l == Len(prof)
               q == [prof EXCEPT ![l].child = @ + n]
               e == [prof[l] EXCEPT !.child = @ + n]
    <2>1. ChargeChild(prof, n) = q
      BY <1>2 DEF ChargeChild
    <2>2. l \in 1 .. Len(prof) /\ DOMAIN prof = 1 .. Len(prof) /\ prof[l] \in Pushed(t)
      BY <1>2, EmptySeq, LenProperties, ElementOfSeq
    <2>3. prof[l] \in ProfFrames /\ prof[l].child \in Nat /\ prof[l].push <= t
      BY <2>2 DEF Pushed, ProfFrames
    <2>4. e \in ProfFrames /\ e.push = prof[l].push /\ e.target = prof[l].target
      BY <2>3 DEF ProfFrames
    <2>5. e \in Pushed(t)
      BY <2>3, <2>4 DEF Pushed
    <2>6. q = [prof EXCEPT ![l] = e]
      OBVIOUS
    <2> HIDE DEF e, q, l
    <2>7. /\ q \in Seq(Pushed(t)) /\ Len(q) = Len(prof)
          /\ \A j \in 1 .. Len(prof) : q[j] = IF j = l THEN e ELSE prof[j]
      BY <2>2, <2>5, <2>6, ExceptSeq
    <2>8. \A j \in 1 .. Len(q) : q[j].target = prof[j].target
      BY <2>2, <2>4, <2>7
    <2>9. Pushed(t) \subseteq ProfFrames
      BY DEF Pushed
    <2>10. q \in Seq(ProfFrames) /\ prof \in Seq(ProfFrames)
      BY <2>7, <2>9, SeqMonotonic
    <2>11. TargetsOf(q) = TargetsOf(prof)
      BY <2>7, <2>8, <2>10, SameTargets
    <2> QED
      BY <2>1, <2>7, <2>11
  <1> QED
    BY <1>1, <1>2

\* The clocks of resumed frames go on where they stood: none lies in the future.
LEMMA Restarted ==
    ASSUME Now \in Nat, NEW r, r.at \in Nat, r.at <= Now, r.prof \in Seq(Pushed(r.at))
    PROVE  /\ Restart(r) \in Seq(Pushed(Now))
           /\ Len(Restart(r)) = Len(r.prof)
           /\ \A i \in 1 .. Len(r.prof) :
                 Restart(r)[i] = [r.prof[i] EXCEPT !.push = @ + (Now - r.at)]
           /\ TargetsOf(Restart(r)) = TargetsOf(r.prof)
  <1> DEFINE p == r.prof
             q == Restart(r)
  <1>1. /\ Len(p) \in Nat /\ DOMAIN p = 1 .. Len(p)
        /\ \A i \in 1 .. Len(p) : p[i] \in Pushed(r.at)
    BY LenProperties, ElementOfSeq
  <1>2. q = [i \in 1 .. Len(p) |-> [p[i] EXCEPT !.push = @ + (Now - r.at)]]
    BY <1>1 DEF Restart
  <1>3. ASSUME NEW fr \in Pushed(r.at)
        PROVE  /\ [fr EXCEPT !.push = @ + (Now - r.at)] \in Pushed(Now)
               /\ [fr EXCEPT !.push = @ + (Now - r.at)].target = fr.target
    <2>1. fr \in ProfFrames /\ fr.push \in Nat /\ fr.push <= r.at
      BY DEF Pushed, ProfFrames
    <2>2. fr.push + (Now - r.at) \in Nat /\ fr.push + (Now - r.at) <= Now
      BY <2>1
    <2>3. \A m \in Nat : /\ [fr EXCEPT !.push = m] \in ProfFrames
                         /\ [fr EXCEPT !.push = m].push = m
                         /\ [fr EXCEPT !.push = m].target = fr.target
      BY <2>1 DEF ProfFrames
    <2> QED
      BY <2>2, <2>3 DEF Pushed
  <1>4. \A i \in 1 .. Len(p) : q[i] \in Pushed(Now) /\ q[i].target = p[i].target
    BY <1>1, <1>2, <1>3
  <1>5. q \in [1 .. Len(p) -> Pushed(Now)]
    BY <1>2, <1>4
  <1>6. q \in Seq(Pushed(Now))
    BY <1>1, <1>5, SeqDef
  <1>7. DOMAIN q = 1 .. Len(q) /\ Len(q) \in Nat /\ DOMAIN q = 1 .. Len(p)
    BY <1>5, <1>6, LenProperties
  <1>8. Len(q) = Len(p)
    BY <1>1, <1>7, SameInterval
  <1>9. \A u : Pushed(u) \subseteq ProfFrames
    BY DEF Pushed
  <1>10. q \in Seq(ProfFrames) /\ p \in Seq(ProfFrames)
    BY <1>6, <1>9, SeqMonotonic
  <1> HIDE DEF p, q
  <1>11. TargetsOf(q) = TargetsOf(p)
    BY <1>4, <1>8, <1>10, SameTargets
  <1> QED
    BY <1>2, <1>6, <1>8, <1>11 DEF p, q

\* No frame is older than time itself: what a call took is a duration.
LEMMA Durations ==
    ASSUME Now \in Nat, NEW t \in Nat, t <= Now, NEW fr \in Pushed(t)
    PROVE  Inclusive(fr) \in Nat /\ Exclusive(fr) \in Nat /\ fr.target \in Targets
  <1>1. fr.push \in Nat /\ fr.push <= t /\ fr.child \in Nat /\ fr.target \in Targets
    BY DEF Pushed, ProfFrames
  <1>2. Now - fr.push \in Nat
    BY <1>1
  <1> QED
    BY <1>1, <1>2 DEF Inclusive, Exclusive

-----------------------------------------------------------------------------
(* Parked stacks *)

Precedes == {pair \in Nat \X Nat : pair[1] < pair[2]}

\* The order of the natural numbers is well founded.
LEMMA PrecedesWellFounded == IsWellFoundedOn(Precedes, Nat)
  <1>1. OpToRel(<, Nat) = Precedes
    BY Zenon DEF OpToRel, Precedes
  <1>2. IsWellFoundedOn(OpToRel(<, Nat), Nat)
    BY NatLessThanWellFounded, Zenon
  <1> QED
    BY <1>1, <1>2, Zenon

\* A set of numbers has a smallest one.
LEMMA Smallest ==
    ASSUME NEW T \in SUBSET Nat, T # {}
    PROVE  \E x \in T : \A y \in T : x <= y
  <1>1. PICK x \in T : \A y \in T : <<y, x>> \notin Precedes
    BY PrecedesWellFounded, WFMin
  <1>2. ASSUME NEW y \in T
        PROVE  x <= y
    <2>1. <<y, x>> \notin Precedes /\ <<y, x>> \in Nat \X Nat
      BY <1>1, <1>2
    <2>2. <<y, x>>[1] = y /\ <<y, x>>[2] = x
      OBVIOUS
    <2>3. ~(y < x)
      BY <2>1, <2>2, Zenon DEF Precedes
    <2> QED
      BY <1>2, <2>3
  <1> QED
    BY <1>2

\* A stack that is parked, with its innermost S.
LEMMA Held ==
    ASSUME NEW t, NEW on, NEW r \in Holdable(t, on)
    PROVE  /\ r.calls \in Seq(Targets) /\ r.calls # << >> /\ Len(r.calls) <= CallstackCap
           /\ r.calls_s \in Seq(Nat) /\ r.calls_s # << >> /\ Len(r.calls_s) = Len(r.calls)
           /\ Last(r.calls_s) \in Nat
           /\ r.at \in Nat /\ r.at <= t
           /\ r.prof \in Seq(ProfFrames) /\ r.prof \in Seq(Pushed(r.at))
           /\ on \/ r.prof = << >>
           /\ Agree(TargetsOf(r.prof), r.calls)
  <1>1. /\ r.calls \in Seq(Targets) /\ r.calls # << >> /\ Len(r.calls) <= CallstackCap
        /\ r.calls_s \in Seq(Nat) /\ Len(r.calls_s) = Len(r.calls)
        /\ r.at \in Nat /\ r.at <= t
        /\ r.prof \in Seq(ProfFrames) /\ r.prof \in Seq(Pushed(r.at))
        /\ on \/ r.prof = << >>
        /\ Agree(TargetsOf(r.prof), r.calls)
    BY DEF Holdable, Sound, ParkedStacks
  <1>2. Len(r.calls) \in Nat \ {0}
    BY <1>1, EmptySeq
  <1>3. r.calls_s # << >>
    BY <1>1, <1>2, EmptySeq
  <1> QED
    BY <1>1, <1>3, FrontLast

\* Parked stacks may stay parked.
LEMMA HoldableLater ==
    ASSUME NEW t \in Nat, NEW u \in Nat, t <= u, NEW on
    PROVE  Holdable(t, on) \subseteq Holdable(u, on) /\ Seq(Holdable(t, on)) \subseteq Seq(Holdable(u, on))
  <1>1. Holdable(t, on) \subseteq Holdable(u, on)
    <2>1. \A r \in Holdable(t, on) : r \in ParkedStacks /\ r.at \in Nat /\ r.at <= t
      BY DEF Holdable, ParkedStacks
    <2>2. \A r \in Holdable(t, on) : r.at <= u
      BY <2>1
    <2> QED
      BY <2>2 DEF Holdable
  <1> QED
    BY <1>1, SeqMonotonic

\* The elements of the list of parked stacks.
LEMMA ParkedElements ==
    ASSUME ParkedInv
    PROVE  /\ Len(parked) \in Nat /\ DOMAIN parked = 1 .. Len(parked)
           /\ \A i \in DOMAIN parked : parked[i] \in Holdable(Stamp, profile.active)
  BY LenProperties, ElementOfSeq DEF ParkedInv

\* If any parked stack can go on at s, the best of them is chosen.
LEMMA BestMatches ==
    ASSUME ParkedInv, NEW s, Matches(s) # {}
    PROVE  Best(s) \in Matches(s)
  <1> DEFINE Top(i) == Last(parked[i].calls_s)
             M == Matches(s)
             tops == {Top(i) : i \in M}
  <1>1. \A i \in M : i \in DOMAIN parked /\ i \in Nat /\ Top(i) \in Nat
    BY ParkedElements, Held DEF Matches
  <1>2. tops \in SUBSET Nat /\ tops # {}
    BY <1>1
  <1>3. PICK m \in tops : \A y \in tops : m <= y
    BY <1>2, Smallest
  <1> DEFINE nearest == {i \in M : Top(i) = m}
  <1>4. nearest \in SUBSET Nat /\ nearest # {}
    BY <1>1, <1>3
  <1>5. PICK b \in nearest : \A y \in nearest : b <= y
    BY <1>4, Smallest
  <1>6. b \in M /\ Top(b) = m /\ m \in Nat
    BY <1>1, <1>3, <1>5
  <1>7. \A j \in M : Top(b) < Top(j) \/ (Top(b) = Top(j) /\ b <= j)
    <2> SUFFICES ASSUME NEW j \in M, ~(Top(b) < Top(j))
                 PROVE  Top(b) = Top(j) /\ b <= j
      OBVIOUS
    <2>1. m <= Top(j) /\ Top(j) \in Nat
      BY <1>1, <1>3
    <2>2. Top(j) = m
      BY <1>6, <2>1
    <2> QED
      BY <1>5, <1>6, <2>2
  <1> DEFINE P(i) == \A j \in M : Top(i) < Top(j) \/ (Top(i) = Top(j) /\ i <= j)
  <1>8. Best(s) = CHOOSE i \in M : P(i)
    BY DEF Best
  <1>9. \E i \in M : P(i)
    BY <1>6, <1>7
  <1> HIDE DEF P, M
  <1>10. Best(s) \in M
    BY <1>8, <1>9
  <1> QED
    BY <1>10 DEF M

-----------------------------------------------------------------------------
(* Shadow stacks *)

\* The frames of the shadow stack in the next state.
LEMMA LiveNext ==
    ASSUME live' \in Stacks, Sound(live', Stamp', profile'.active)
    PROVE  LiveInv'
  BY DEF LiveInv

\* The parked stacks in the next state.
LEMMA ParkedNext ==
    ASSUME parked' \in Seq(Holdable(Stamp', profile'.active)), Len(parked') <= ParkedCap
    PROVE  ParkedInv'
  BY DEF ParkedInv

\* The slices in the next state.
LEMMA TraceNext ==
    ASSUME trace' \in [active : BOOLEAN, depth : Nat, slices : Seq(Targets)],
           Len(trace'.slices) = trace'.depth, trace'.active \/ trace'.depth = 0,
           Agree(trace'.slices, live'.calls)
    PROVE  TraceInv'
  BY DEF TraceInv

\* What is known of the shadow stack.
LEMMA LiveFacts ==
    ASSUME LiveInv
    PROVE  /\ live \in Stacks
           /\ live = [calls |-> live.calls, calls_s |-> live.calls_s, prof |-> live.prof]
           /\ live.calls \in Seq(Targets) /\ Len(live.calls) <= CallstackCap
           /\ live.calls_s \in Seq(Nat) /\ Len(live.calls_s) = Len(live.calls)
           /\ live.prof \in Seq(ProfFrames) /\ live.prof \in Seq(Pushed(Stamp))
           /\ profile.active \/ live.prof = << >>
           /\ Agree(TargetsOf(live.prof), live.calls)
  BY DEF LiveInv, Sound, Stacks

\* A stack that is sound stays so while time passes.
LEMMA SoundLater ==
    ASSUME NEW st, NEW t \in Nat, NEW u \in Nat, t <= u, NEW on, Sound(st, t, on)
    PROVE  Sound(st, u, on)
  BY PushedLater DEF Sound

\* A stack without frames, profiled or not.
LEMMA EmptySound ==
    ASSUME NEW t, NEW on
    PROVE  /\ NoStack \in Stacks /\ Sound(NoStack, t, on)
           /\ \A prof \in Seq(Pushed(t)) :
                 on \/ prof = << >> =>
                   /\ [NoStack EXCEPT !.prof = prof] \in Stacks
                   /\ Sound([NoStack EXCEPT !.prof = prof], t, on)
  <1>1. /\ << >> \in Seq(Targets) /\ << >> \in Seq(Nat) /\ << >> \in Seq(Pushed(t))
        /\ << >> \in Seq(ProfFrames) /\ Len(<< >>) = 0
    BY EmptySeq
  <1>2. CallstackCap \in Nat
    BY LimitsAssumption
  <1>3. ASSUME NEW prof \in Seq(Pushed(t)), on \/ prof = << >>
        PROVE  LET st == [calls |-> << >>, calls_s |-> << >>, prof |-> prof]
               IN st \in Stacks /\ Sound(st, t, on)
    <2>1. prof \in Seq(ProfFrames)
      BY SeqMonotonic DEF Pushed
    <2>2. Agree(TargetsOf(prof), << >>)
      BY <2>1, Targeted, AgreeEmpty
    <2> QED
      BY <1>1, <1>2, <1>3, <2>1, <2>2 DEF Sound, Stacks
  <1>4. \A prof : [NoStack EXCEPT !.prof = prof] = [calls |-> << >>, calls_s |-> << >>, prof |-> prof]
    BY DEF NoStack
  <1>5. NoStack \in Stacks /\ Sound(NoStack, t, on)
    BY <1>1, <1>3 DEF NoStack
  <1> QED
    BY <1>3, <1>4, <1>5

\* A stack whose profiler frames are dropped.
LEMMA DropsFrames ==
    ASSUME NEW t, NEW on
    PROVE  /\ \A st \in Stacks : Sound(st, t, on) =>
                 \A u, v : /\ [st EXCEPT !.prof = << >>] \in Stacks
                           /\ Sound([st EXCEPT !.prof = << >>], u, v)
           /\ \A st \in Holdable(t, on) : \A v : [st EXCEPT !.prof = << >>] \in Holdable(t, v)
  <1>1. /\ << >> \in Seq(ProfFrames) /\ \A u : << >> \in Seq(Pushed(u))
        /\ TargetsOf(<< >>) = << >>
    <2>1. << >> \in Seq(ProfFrames) /\ \A u : << >> \in Seq(Pushed(u))
      BY EmptySeq
    <2>2. TargetsOf(<< >>) \in Seq(Targets) /\ Len(TargetsOf(<< >>)) = 0
      BY <2>1, Targeted, EmptySeq
    <2> QED
      BY <2>1, <2>2, EmptySeq
  <1>2. ASSUME NEW calls \in Seq(Targets)
        PROVE  Agree(TargetsOf(<< >>), calls)
    BY <1>1, AgreeEmpty
  <1>3. ASSUME NEW st \in Stacks, Sound(st, t, on), NEW u, NEW v
        PROVE  /\ [st EXCEPT !.prof = << >>] \in Stacks
               /\ Sound([st EXCEPT !.prof = << >>], u, v)
    <2> DEFINE r == [st EXCEPT !.prof = << >>]
    <2>1. r \in Stacks /\ r.calls = st.calls /\ r.calls_s = st.calls_s /\ r.prof = << >>
      BY <1>1 DEF Stacks
    <2>2. st.calls \in Seq(Targets) /\ Len(st.calls) <= CallstackCap /\ Len(st.calls_s) = Len(st.calls)
      BY <1>3 DEF Stacks, Sound
    <2> HIDE DEF r
    <2>3. Sound(r, u, v)
      BY <1>1, <1>2, <2>1, <2>2 DEF Sound
    <2> QED
      BY <2>1, <2>3 DEF r
  <1>4. ASSUME NEW st \in Holdable(t, on), NEW v
        PROVE  [st EXCEPT !.prof = << >>] \in Holdable(t, v)
    <2> DEFINE r == [st EXCEPT !.prof = << >>]
    <2>1. st \in ParkedStacks /\ st.calls # << >> /\ st.at <= t /\ Sound(st, st.at, on)
      BY DEF Holdable
    <2>2. /\ r \in ParkedStacks /\ r.calls = st.calls /\ r.calls_s = st.calls_s
          /\ r.prof = << >> /\ r.at = st.at
      BY <1>1, <2>1 DEF ParkedStacks
    <2>3. st.calls \in Seq(Targets) /\ Len(st.calls) <= CallstackCap /\ Len(st.calls_s) = Len(st.calls)
      BY <2>1 DEF ParkedStacks, Sound
    <2> HIDE DEF r
    <2>4. Sound(r, r.at, v)
      BY <1>1, <1>2, <2>2, <2>3 DEF Sound
    <2>5. r \in Holdable(t, v)
      BY <2>1, <2>2, <2>4 DEF Holdable
    <2> QED
      BY <2>5 DEF r
  <1> QED
    BY <1>3, <1>4

\* Slices are opened and closed.
LEMMA TraceFields ==
    ASSUME NEW tr \in [active : BOOLEAN, depth : Nat, slices : Seq(Targets)],
           NEW n \in Nat, NEW sl \in Seq(Targets)
    PROVE  /\ [tr EXCEPT !.depth = n, !.slices = sl]
                 \in [active : BOOLEAN, depth : Nat, slices : Seq(Targets)]
           /\ [tr EXCEPT !.depth = n, !.slices = sl].depth = n
           /\ [tr EXCEPT !.depth = n, !.slices = sl].slices = sl
           /\ [tr EXCEPT !.depth = n, !.slices = sl].active <=> tr.active
  OBVIOUS

\* A call pushes a frame on everything that is open.
LEMMA CallStacks ==
    ASSUME IInv, [Next]_vars, NEW f \in Targets, Call(f)
    PROVE  LiveInv' /\ ParkedInv' /\ TraceInv'
  <1> DEFINE s == Running.s - 1
             calls == PushCapped(live.calls, f)
             calls_s == PushCapped(live.calls_s, s)
             prof == ProfileOnCall(f)
  <1>0. /\ TaskInv /\ LiveInv /\ ParkedInv /\ TraceInv /\ StatsInv /\ clock \in ClockType
        /\ TaskInv' /\ Stamp \in Nat /\ Now \in Nat /\ Stamp <= Now
    BY TaskKeeps, NowIsLater DEF IInv, ClockInv, ClockType
  <1>1. /\ s >= StackBase[task.cur] - StackDepth
        /\ live' = [calls |-> calls, calls_s |-> calls_s, prof |-> prof]
        /\ trace' = TraceCall(f)
        /\ clock' = Advanced(SampledIf(profile.active \/ trace.active))
        /\ parked' = parked /\ profile' = profile
    BY DEF Call
  <1>2. s \in Nat
    <2>1. /\ StackBase[task.cur] \in Nat /\ StackBase[task.cur] >= StackDepth /\ StackDepth \in Nat
          /\ Running.s \in Nat
      BY <1>0, StacksAssumption, LimitsAssumption DEF TaskInv, Running
    <2> QED
      BY <2>1, <1>1
  <1>3. /\ Stamp' \in Nat /\ Stamp <= Stamp'
        /\ profile.active => Stamp' = Now
    <2>1. /\ Stamp' = SampledIf(profile.active \/ trace.active).base
                      + SampledIf(profile.active \/ trace.active).last
          /\ Stamp = clock.base + clock.last
      BY <1>0, <1>1, ClockMoves DEF Stamp
    <2>2. CASE profile.active \/ trace.active
      BY <1>0, <2>1, <2>2, ClockMoves
    <2>3. CASE ~(profile.active \/ trace.active)
      BY <1>0, <2>1, <2>3, ClockMoves
    <2> QED
      BY <2>2, <2>3
  <1> HIDE DEF s
  <1>4. /\ calls \in Seq(Targets) /\ Len(calls) <= CallstackCap
        /\ Len(calls) = IF Len(live.calls) = CallstackCap THEN Len(live.calls) ELSE Len(live.calls) + 1
    BY <1>0, LiveFacts, PushesCapped
  <1>5. /\ calls_s \in Seq(Nat)
        /\ Len(calls_s) = IF Len(live.calls_s) = CallstackCap THEN Len(live.calls_s) ELSE Len(live.calls_s) + 1
    <2>1. live.calls_s \in Seq(Nat) /\ Len(live.calls_s) <= CallstackCap
      BY <1>0, LiveFacts
    <2> QED
      BY <2>1, <1>2, PushesCapped
  <1>6. Len(calls_s) = Len(calls)
    BY <1>0, <1>4, <1>5, LiveFacts
  <1>7. /\ prof \in Seq(Pushed(Stamp')) /\ prof \in Seq(ProfFrames)
        /\ profile.active \/ prof = << >>
        /\ Agree(TargetsOf(prof), calls)
    <2>1. CASE profile.active
      <3>1. prof = Append(live.prof, ProfFrame(f))
        BY <2>1 DEF ProfileOnCall
      <3>2. (f \in profile.filter) \in BOOLEAN
        OBVIOUS
      <3>3. ProfFrame(f) \in ProfFrames /\ ProfFrame(f).target = f /\ ProfFrame(f).push = Now
        BY <1>0, <3>2 DEF ProfFrame, ProfFrames
      <3>4. ProfFrame(f) \in Pushed(Stamp')
        BY <1>0, <1>3, <2>1, <3>3 DEF Pushed
      <3>5. live.prof \in Seq(Pushed(Stamp')) /\ live.prof \in Seq(ProfFrames)
        BY <1>0, <1>3, LiveFacts, PushedLater
      <3>6. prof \in Seq(Pushed(Stamp')) /\ prof \in Seq(ProfFrames)
        BY <3>1, <3>3, <3>4, <3>5, AppendProperties
      <3>7. TargetsOf(prof) = Append(TargetsOf(live.prof), f)
        BY <3>1, <3>3, <3>5, TargetsPushed
      <3>8. Agree(TargetsOf(prof), calls)
        BY <1>0, <3>5, <3>7, LiveFacts, Targeted, AgreePush
      <3> QED
        BY <2>1, <3>6, <3>8
    <2>2. CASE ~profile.active
      <3>1. prof = << >>
        BY <1>0, <2>2, LiveFacts DEF ProfileOnCall
      <3>2. prof \in Seq(Pushed(Stamp')) /\ prof \in Seq(ProfFrames)
        BY <3>1, EmptySeq
      <3>3. TargetsOf(prof) \in Seq(Targets) /\ Len(TargetsOf(prof)) = 0
        BY <3>1, <3>2, Targeted, EmptySeq
      <3>4. TargetsOf(prof) = << >>
        BY <3>3, EmptySeq
      <3>5. Agree(TargetsOf(prof), calls)
        BY <1>4, <3>4, AgreeEmpty
      <3> QED
        BY <3>1, <3>2, <3>5
    <2> QED
      BY <2>1, <2>2
  <1> HIDE DEF calls_s, prof
  <1>8. LiveInv'
    <2> HIDE DEF calls
    <2>1. live' \in Stacks
      BY <1>1, <1>4, <1>5, <1>7 DEF Stacks
    <2>2. Sound(live', Stamp', profile'.active)
      BY <1>1, <1>4, <1>6, <1>7 DEF Sound
    <2> QED
      BY <2>1, <2>2, LiveNext
  <1>9. ParkedInv'
    <2>1. parked \in Seq(Holdable(Stamp, profile.active)) /\ Len(parked) <= ParkedCap
      BY <1>0 DEF ParkedInv
    <2>2. parked \in Seq(Holdable(Stamp', profile.active))
      BY <2>1, <1>0, <1>3, HoldableLater
    <2> QED
      BY <2>1, <2>2, <1>1, ParkedNext
  <1>10. TraceInv'
    <2>0. /\ trace \in [active : BOOLEAN, depth : Nat, slices : Seq(Targets)]
          /\ Len(trace.slices) = trace.depth
          /\ trace.active \/ trace.depth = 0
          /\ Agree(trace.slices, live.calls)
      BY <1>0 DEF TraceInv
    <2>1. CASE trace.active
      <3> DEFINE sl == Append(trace.slices, f)
      <3>1. /\ sl \in Seq(Targets) /\ Len(sl) = Len(trace.slices) + 1
        BY <2>0, AppendProperties
      <3>2. Agree(sl, calls)
        BY <1>0, <2>0, LiveFacts, AgreePush
      <3>3. trace' = [trace EXCEPT !.depth = @ + 1, !.slices = sl]
        BY <1>1, <2>1 DEF TraceCall
      <3>5. trace.depth + 1 \in Nat
        BY <2>0
      <3> HIDE DEF sl, calls
      <3>4. /\ trace' \in [active : BOOLEAN, depth : Nat, slices : Seq(Targets)]
            /\ trace'.slices = sl /\ trace'.depth = trace.depth + 1
            /\ trace'.active <=> trace.active
        BY <2>0, <3>1, <3>3, <3>5, TraceFields
      <3> QED
        BY <1>1, <2>0, <2>1, <3>1, <3>2, <3>4, TraceNext
    <2>2. CASE ~trace.active
      <3>1. trace' = trace /\ trace.slices = << >>
        BY <1>1, <2>0, <2>2, EmptySeq DEF TraceCall
      <3>2. Agree(trace.slices, calls)
        BY <1>4, <3>1, AgreeEmpty
      <3> HIDE DEF calls
      <3> QED
        BY <1>1, <2>0, <3>1, <3>2, TraceNext
    <2> QED
      BY <2>1, <2>2
  <1> QED
    BY <1>8, <1>9, <1>10

\* A return pops the profiler's frame and charges its caller.
LEMMA ReturnPops ==
    ASSUME LiveInv, Stamp \in Nat, Now \in Nat, Stamp <= Now
    PROVE  /\ ProfileOnReturn \in Seq(Pushed(Stamp))
           /\ profile.active \/ ProfileOnReturn = << >>
           /\ live.calls # << >> => Agree(TargetsOf(ProfileOnReturn), Front(live.calls))
  <1>1. CASE Pops
    <2>1. profile.active /\ live.prof # << >>
      BY <1>1 DEF Pops
    <2>2. live.prof \in Seq(Pushed(Stamp)) /\ live.prof \in Seq(ProfFrames)
      BY LiveFacts
    <2>3. Front(live.prof) \in Seq(Pushed(Stamp)) /\ Last(live.prof) \in Pushed(Stamp)
      BY <2>1, <2>2, FrontLast
    <2>4. Inclusive(Last(live.prof)) \in Nat
      BY <2>3, Durations
    <2>5. /\ ProfileOnReturn \in Seq(Pushed(Stamp))
          /\ TargetsOf(ProfileOnReturn) = TargetsOf(Front(live.prof))
      BY <1>1, <2>3, <2>4, Charged DEF ProfileOnReturn
    <2>6. /\ TargetsOf(Front(live.prof)) = Front(TargetsOf(live.prof))
          /\ TargetsOf(live.prof) # << >> /\ TargetsOf(live.prof) \in Seq(Targets)
      BY <2>1, <2>2, TargetsPopped, Targeted
    <2>7. live.calls # << >> => Agree(Front(TargetsOf(live.prof)), Front(live.calls))
      BY <2>6, LiveFacts, AgreePop
    <2> QED
      BY <2>1, <2>5, <2>6, <2>7
  <1>2. CASE ~Pops
    <2>1. ProfileOnReturn = live.prof /\ live.prof = << >>
      BY <1>2, LiveFacts DEF ProfileOnReturn, Pops
    <2>2. live.prof \in Seq(Pushed(Stamp)) /\ live.prof \in Seq(ProfFrames) /\ Len(live.prof) = 0
      BY <2>1, LiveFacts, EmptySeq
    <2>3. TargetsOf(live.prof) = << >>
      BY <2>2, Targeted, EmptySeq
    <2>4. live.calls # << >> => Agree(<< >>, Front(live.calls))
      BY LiveFacts, FrontLast, AgreeEmpty
    <2> QED
      BY <2>1, <2>2, <2>3, <2>4
  <1> QED
    BY <1>1, <1>2

\* A return pops one frame of everything.
LEMMA ReturnStacks ==
    ASSUME IInv, [Next]_vars, Return
    PROVE  LiveInv' /\ ParkedInv' /\ TraceInv'
  <1>0. /\ LiveInv /\ ParkedInv /\ TraceInv /\ StatsInv
        /\ Stamp \in Nat /\ Now \in Nat /\ Stamp <= Now /\ Stamp' \in Nat /\ Stamp <= Stamp'
    BY ClockKeeps, NowIsLater DEF IInv, ClockInv, ClockType
  <1>t. /\ trace \in [active : BOOLEAN, depth : Nat, slices : Seq(Targets)]
        /\ Len(trace.slices) = trace.depth
        /\ trace.active \/ trace.depth = 0
        /\ Agree(trace.slices, live.calls)
    BY <1>0 DEF TraceInv
  <1>p. ASSUME profile'.active = profile.active, parked' = parked
        PROVE  ParkedInv'
    <2>1. parked \in Seq(Holdable(Stamp', profile.active)) /\ Len(parked) <= ParkedCap
      BY <1>0, HoldableLater DEF ParkedInv
    <2> QED
      BY <1>p, <2>1, ParkedNext
  <1>1. CASE live.calls = << >>
    <2>1. live' = live /\ profile' = profile /\ trace' = trace /\ parked' = parked
      BY <1>1 DEF Return, ReturnNowhere
    <2>2. LiveInv'
      BY <2>1, <1>0, SoundLater, LiveNext DEF LiveInv
    <2>3. TraceInv'
      BY <2>1, <1>t, TraceNext
    <2> QED
      BY <2>1, <2>2, <2>3, <1>p
  <1>2. CASE live.calls # << >>
    <2> DEFINE calls == Front(live.calls)
               calls_s == Front(live.calls_s)
               prof == ProfileOnReturn
    <2>1. /\ live' = [calls |-> calls, calls_s |-> calls_s, prof |-> prof]
          /\ profile' = [profile EXCEPT !.stats = StatsOnReturn]
          /\ trace' = TraceReturn /\ parked' = parked
      BY <1>2 DEF Return
    <2>2. profile'.active = profile.active
      BY <2>1, <1>0 DEF StatsInv
    <2>3. /\ calls \in Seq(Targets) /\ Len(calls) = Len(live.calls) - 1
          /\ Len(live.calls) \in Nat \ {0} /\ Len(live.calls) <= CallstackCap
      BY <1>0, <1>2, LiveFacts, FrontLast
    <2>4. live.calls_s \in Seq(Nat) /\ Len(live.calls_s) = Len(live.calls)
      BY <1>0, LiveFacts
    <2>5. live.calls_s # << >>
      BY <2>3, <2>4, EmptySeq
    <2>6. calls_s \in Seq(Nat) /\ Len(calls_s) = Len(live.calls_s) - 1
      BY <2>4, <2>5, FrontLast
    <2>7. Len(calls) <= CallstackCap /\ Len(calls_s) = Len(calls)
      BY <2>3, <2>4, <2>6, LimitsAssumption
    <2>8. /\ prof \in Seq(Pushed(Stamp)) /\ (profile.active \/ prof = << >>)
          /\ Agree(TargetsOf(prof), calls)
      BY <1>0, <1>2, ReturnPops
    <2> HIDE DEF calls_s, prof
    <2>9. prof \in Seq(ProfFrames) /\ prof \in Seq(Pushed(Stamp'))
      <3>1. Pushed(Stamp) \subseteq ProfFrames
        BY DEF Pushed
      <3>2. prof \in Seq(ProfFrames)
        BY <2>8, <3>1, SeqMonotonic
      <3>3. Pushed(Stamp) \subseteq Pushed(Stamp')
        BY <1>0, PushedLater
      <3>4. prof \in Seq(Pushed(Stamp'))
        BY <2>8, <3>3, SeqMonotonic
      <3> QED
        BY <3>2, <3>4
    <2>10. LiveInv'
      <3> HIDE DEF calls
      <3>1. live' \in Stacks
        BY <2>1, <2>3, <2>6, <2>9 DEF Stacks
      <3>2. Sound(live', Stamp', profile'.active)
        BY <2>1, <2>2, <2>7, <2>8, <2>9 DEF Sound
      <3> QED
        BY <3>1, <3>2, LiveNext
    <2>11. TraceInv'
      <3>1. CASE trace.active /\ trace.depth > 0
        <4> DEFINE sl == Front(trace.slices)
        <4>1. trace.slices # << >>
          BY <1>t, <3>1, EmptySeq
        <4>2. sl \in Seq(Targets) /\ Len(sl) = Len(trace.slices) - 1 /\ trace.depth - 1 \in Nat
          BY <1>t, <3>1, <4>1, FrontLast
        <4>3. Agree(sl, calls)
          BY <1>0, <1>2, <1>t, <4>1, LiveFacts, AgreePop
        <4>4. trace' = [trace EXCEPT !.depth = @ - 1, !.slices = sl]
          BY <2>1, <3>1 DEF TraceReturn
        <4> HIDE DEF sl, calls
        <4>5. /\ trace' \in [active : BOOLEAN, depth : Nat, slices : Seq(Targets)]
              /\ trace'.slices = sl /\ trace'.depth = trace.depth - 1
              /\ trace'.active <=> trace.active
          BY <1>t, <4>2, <4>4, TraceFields
        <4> QED
          BY <1>t, <2>1, <3>1, <4>2, <4>3, <4>5, TraceNext
      <3>2. CASE ~(trace.active /\ trace.depth > 0)
        <4>1. trace' = trace /\ trace.slices = << >>
          BY <2>1, <1>t, <3>2, EmptySeq DEF TraceReturn
        <4>2. Agree(trace.slices, calls)
          BY <2>3, <4>1, AgreeEmpty
        <4> HIDE DEF calls
        <4> QED
          BY <2>1, <1>t, <4>1, <4>2, TraceNext
      <3> QED
        BY <3>1, <3>2
    <2> QED
      BY <2>1, <2>2, <2>10, <2>11, <1>p
  <1> QED
    BY <1>1, <1>2

\* What is parked next to the stack that goes on.
LEMMA Remains ==
    ASSUME ParkedInv, NEW s
    PROVE  /\ Remaining(s) \in Seq(Holdable(Stamp, profile.active))
           /\ Len(Remaining(s)) <= ParkedCap
           /\ Matches(s) # {} => Best(s) \in 1 .. Len(parked) /\ Len(Remaining(s)) = Len(parked) - 1
  <1>0. /\ parked \in Seq(Holdable(Stamp, profile.active)) /\ Len(parked) <= ParkedCap
        /\ Len(parked) \in Nat /\ DOMAIN parked = 1 .. Len(parked) /\ ParkedCap \in Nat
    BY ParkedElements, LimitsAssumption DEF ParkedInv
  <1>1. CASE Matches(s) = {}
    BY <1>0, <1>1 DEF Remaining
  <1>2. CASE Matches(s) # {}
    <2>1. Best(s) \in 1 .. Len(parked)
      BY <1>0, <1>2, BestMatches DEF Matches
    <2>2. Remaining(s) = RemoveAt(parked, Best(s))
      BY <1>2 DEF Remaining
    <2>3. /\ RemoveAt(parked, Best(s)) \in Seq(Holdable(Stamp, profile.active))
          /\ Len(RemoveAt(parked, Best(s))) = Len(parked) - 1
      BY <1>0, <2>1, RemovesAt
    <2> QED
      BY <1>0, <2>1, <2>2, <2>3
  <1> QED
    BY <1>1, <1>2

\* The live frames are parked, and the oldest parked ones dropped at the cap.
LEMMA Parks ==
    ASSUME LiveInv, ParkedInv, Stamp \in Nat, Now \in Nat, Stamp <= Now, NEW s
    PROVE  /\ ParkedAfter(s) \in Seq(Holdable(Now, profile.active))
           /\ Len(ParkedAfter(s)) <= ParkedCap
  <1> DEFINE rest == Remaining(s)
             H == Holdable(Now, profile.active)
             kept == IF Len(rest) >= ParkedCap THEN Tail(rest) ELSE rest
  <1>0. rest \in Seq(H) /\ Len(rest) <= ParkedCap /\ Len(rest) \in Nat /\ ParkedCap \in Nat \ {0}
    BY Remains, HoldableLater, LimitsAssumption, LenProperties
  <1>1. CASE live.calls = << >>
    BY <1>0, <1>1 DEF ParkedAfter
  <1>2. CASE live.calls # << >>
    <2>1. ParkedAfter(s) = Append(kept, Parked)
      BY <1>2 DEF ParkedAfter
    <2> HIDE DEF rest
    <2>2. kept \in Seq(H) /\ Len(kept) < ParkedCap /\ Len(kept) \in Nat
      <3>1. CASE Len(rest) >= ParkedCap
        <4>1. rest # << >>
          BY <1>0, <3>1, EmptySeq
        <4>2. Tail(rest) \in Seq(H) /\ Len(Tail(rest)) = Len(rest) - 1
          BY <1>0, <4>1, HeadTailProperties
        <4> QED
          BY <1>0, <3>1, <4>2
      <3>2. CASE ~(Len(rest) >= ParkedCap)
        BY <1>0, <3>2
      <3> QED
        BY <3>1, <3>2
    <2>3. Parked \in H
      <3>1. Parked \in ParkedStacks
        BY LiveFacts DEF Parked, ParkedStacks
      <3>2. Sound(live, Now, profile.active)
        BY SoundLater DEF LiveInv
      <3>3. Sound(Parked, Now, profile.active)
        BY <3>2 DEF Sound, Parked
      <3>4. Parked.calls = live.calls /\ Parked.at = Now /\ Now <= Now
        BY DEF Parked
      <3> QED
        BY <1>2, <3>1, <3>3, <3>4 DEF Holdable
    <2> HIDE DEF kept, H
    <2>4. Append(kept, Parked) \in Seq(H) /\ Len(Append(kept, Parked)) = Len(kept) + 1
      BY <2>2, <2>3, AppendProperties
    <2>5. Len(Append(kept, Parked)) <= ParkedCap
      BY <1>0, <2>2, <2>4
    <2> QED
      BY <2>1, <2>4, <2>5 DEF H
  <1> QED
    BY <1>1, <1>2

\* The stack that goes on is sound, its clocks restarted.
LEMMA Resumes ==
    ASSUME ParkedInv, Stamp \in Nat, Now \in Nat, Stamp <= Now, NEW s
    PROVE  LiveAfter(s) \in Stacks /\ Sound(LiveAfter(s), Now, profile.active)
  <1>1. CASE Matches(s) = {}
    <2>1. Resumed(s) = [calls |-> << >>, calls_s |-> << >>, prof |-> << >>, at |-> 0]
      BY <1>1 DEF Resumed
    <2>2. Resumed(s).prof = << >> /\ Resumed(s).calls = << >> /\ Resumed(s).calls_s = << >> /\ Resumed(s).at = 0
      BY <2>1
    <2>3. Resumed(s).prof \in Seq(Pushed(Resumed(s).at)) /\ Resumed(s).at \in Nat /\ Resumed(s).at <= Now
      BY <2>2, EmptySeq
    <2>4. Restart(Resumed(s)) \in Seq(Pushed(Now)) /\ Len(Restart(Resumed(s))) = 0
      BY <2>2, <2>3, Restarted, EmptySeq
    <2>5. Restart(Resumed(s)) = << >>
      BY <2>4, EmptySeq
    <2>6. LiveAfter(s) = NoStack
      BY <2>2, <2>5 DEF LiveAfter, NoStack
    <2> QED
      BY <2>6, EmptySound
  <1>2. CASE Matches(s) # {}
    <2> DEFINE r == parked[Best(s)]
    <2>1. Resumed(s) = r /\ r \in Holdable(Stamp, profile.active)
      BY <1>2, BestMatches, ParkedElements DEF Resumed, Matches
    <2>2. LiveAfter(s) = [calls |-> r.calls, calls_s |-> r.calls_s, prof |-> Restart(r)]
      BY <2>1 DEF LiveAfter
    <2> HIDE DEF r
    <2>3. /\ r.calls \in Seq(Targets) /\ Len(r.calls) <= CallstackCap
          /\ r.calls_s \in Seq(Nat) /\ Len(r.calls_s) = Len(r.calls)
          /\ r.at \in Nat /\ r.at <= Stamp
          /\ r.prof \in Seq(Pushed(r.at))
          /\ profile.active \/ r.prof = << >>
          /\ Agree(TargetsOf(r.prof), r.calls)
      BY <2>1, Held
    <2>4. r.at <= Now
      BY <2>3
    <2>5. /\ Restart(r) \in Seq(Pushed(Now)) /\ Len(Restart(r)) = Len(r.prof)
          /\ TargetsOf(Restart(r)) = TargetsOf(r.prof)
      BY <2>3, <2>4, Restarted
    <2>6. Restart(r) \in Seq(ProfFrames)
      BY <2>5, SeqMonotonic DEF Pushed
    <2>7. profile.active \/ Restart(r) = << >>
      BY <2>3, <2>5, EmptySeq
    <2>8. LiveAfter(s) \in Stacks
      BY <2>2, <2>3, <2>6 DEF Stacks
    <2>9. Sound(LiveAfter(s), Now, profile.active)
      BY <2>2, <2>3, <2>5, <2>7 DEF Sound
    <2> QED
      BY <2>8, <2>9
  <1> QED
    BY <1>1, <1>2

\* Slices are closed.
LEMMA Closes ==
    ASSUME TraceInv
    PROVE  /\ CloseSlices \in [active : BOOLEAN, depth : Nat, slices : Seq(Targets)]
           /\ CloseSlices.slices = << >> /\ CloseSlices.depth = 0
           /\ [CloseSlices EXCEPT !.active = FALSE]
                 \in [active : BOOLEAN, depth : Nat, slices : Seq(Targets)]
           /\ [CloseSlices EXCEPT !.active = FALSE].slices = << >>
           /\ [CloseSlices EXCEPT !.active = FALSE].depth = 0
           /\ Len(<< >>) = 0 /\ << >> \in Seq(Targets)
  <1>0. /\ trace \in [active : BOOLEAN, depth : Nat, slices : Seq(Targets)]
        /\ Len(trace.slices) = trace.depth
        /\ trace.active \/ trace.depth = 0
        /\ Len(<< >>) = 0 /\ << >> \in Seq(Targets)
    BY EmptySeq DEF TraceInv
  <1>1. /\ CloseSlices \in [active : BOOLEAN, depth : Nat, slices : Seq(Targets)]
        /\ CloseSlices.slices = << >> /\ CloseSlices.depth = 0
    <2>1. CASE trace.active
      BY <1>0, <2>1 DEF CloseSlices
    <2>2. CASE ~trace.active
      BY <1>0, <2>2, EmptySeq DEF CloseSlices
    <2> QED
      BY <2>1, <2>2
  <1>2. \A tr \in [active : BOOLEAN, depth : Nat, slices : Seq(Targets)] :
            /\ [tr EXCEPT !.active = FALSE] \in [active : BOOLEAN, depth : Nat, slices : Seq(Targets)]
            /\ [tr EXCEPT !.active = FALSE].slices = tr.slices
            /\ [tr EXCEPT !.active = FALSE].depth = tr.depth
    OBVIOUS
  <1> QED
    BY <1>0, <1>1, <1>2

\* No slice is open: slices agree with any frames.
LEMMA TraceClosed ==
    ASSUME trace' \in [active : BOOLEAN, depth : Nat, slices : Seq(Targets)],
           trace'.slices = << >>, trace'.depth = 0, live' \in Stacks
    PROVE  TraceInv'
  <1>1. live'.calls \in Seq(Targets)
    BY DEF Stacks
  <1>2. Agree(trace'.slices, live'.calls) /\ Len(trace'.slices) = 0
    BY <1>1, AgreeEmpty, EmptySeq
  <1> QED
    BY <1>2, TraceNext

\* A switch of stacks parks, resumes and closes what is open.
LEMMA SwitchStacks ==
    ASSUME IInv, [Next]_vars, NEW s, NEW cur, NEW on,
           SwitchShadowStack(s, cur, on), profile' = profile
    PROVE  LiveInv' /\ ParkedInv' /\ TraceInv'
  <1>0. /\ LiveInv /\ ParkedInv /\ TraceInv /\ StatsInv /\ clock \in ClockType
        /\ Stamp \in Nat /\ Now \in Nat /\ Stamp <= Now /\ Stamp' \in Nat /\ Stamp <= Stamp'
    BY ClockKeeps, NowIsLater DEF IInv, ClockInv, ClockType
  <1>1. CASE ~hook.armed \/ NoSwitch(s)
    <2>1. live' = live /\ parked' = parked /\ trace' = trace
      BY <1>1 DEF SwitchShadowStack
    <2>2. LiveInv'
      BY <2>1, <1>0, SoundLater, LiveNext DEF LiveInv
    <2>3. ParkedInv'
      <3>1. parked \in Seq(Holdable(Stamp', profile.active)) /\ Len(parked) <= ParkedCap
        BY <1>0, HoldableLater DEF ParkedInv
      <3> QED
        BY <2>1, <3>1, ParkedNext
    <2>4. TraceInv'
      BY <2>1, <1>0, TraceNext DEF TraceInv
    <2> QED
      BY <2>2, <2>3, <2>4
  <1>2. CASE ~(~hook.armed \/ NoSwitch(s))
    <2>1. /\ live' = LiveAfter(s) /\ parked' = ParkedAfter(s)
          /\ trace' = CloseSlices /\ clock' = Advanced(Sampled(clock))
      BY <1>2 DEF SwitchShadowStack
    <2>2. Stamp' = Now
      BY <2>1, <1>0, ClockMoves DEF Stamp
    <2>3. LiveInv'
      BY <2>1, <2>2, <1>0, Resumes, LiveNext
    <2>4. ParkedInv'
      BY <2>1, <2>2, <1>0, Parks, ParkedNext
    <2>5. TraceInv'
      BY <2>1, <1>0, Resumes, Closes, TraceClosed
    <2> QED
      BY <2>3, <2>4, <2>5
  <1> QED
    BY <1>1, <1>2

\* Clearing the shadow stacks leaves the profiler's live frames.
LEMMA ClearStacks ==
    ASSUME IInv, [Next]_vars, ClearShadowStacks, profile' = profile
    PROVE  LiveInv' /\ ParkedInv' /\ TraceInv'
  <1>0. /\ LiveInv /\ TraceInv
        /\ Stamp \in Nat /\ Stamp' \in Nat /\ Stamp <= Stamp'
    BY ClockKeeps, NowIsLater DEF IInv, ClockInv, ClockType
  <1>1. /\ live' = [NoStack EXCEPT !.prof = live.prof] /\ parked' = << >> /\ trace' = CloseSlices
    BY DEF ClearShadowStacks
  <1>2. live' \in Stacks /\ Sound(live', Stamp', profile'.active)
    <2>1. live.prof \in Seq(Pushed(Stamp')) /\ (profile.active \/ live.prof = << >>)
      BY <1>0, LiveFacts, PushedLater
    <2> QED
      BY <2>1, <1>1, EmptySound
  <1>3. ParkedInv'
    <2>1. Len(<< >>) <= ParkedCap /\ << >> \in Seq(Holdable(Stamp', profile'.active))
      BY EmptySeq, LimitsAssumption
    <2> QED
      BY <2>1, <1>1, ParkedNext
  <1>4. TraceInv'
    BY <1>0, <1>1, <1>2, Closes, TraceClosed
  <1> QED
    BY <1>2, <1>3, <1>4, LiveNext

\* The profiler's frames are dropped, whether its window opens or closes.
LEMMA DropStacks ==
    ASSUME IInv, [Next]_vars, ClearProfileFrames, trace' = trace
    PROVE  LiveInv' /\ ParkedInv' /\ TraceInv'
  <1>0. /\ LiveInv /\ ParkedInv /\ TraceInv
        /\ Stamp \in Nat /\ Stamp' \in Nat /\ Stamp <= Stamp'
    BY ClockKeeps, NowIsLater DEF IInv, ClockInv, ClockType
  <1>1. /\ live' = [live EXCEPT !.prof = << >>]
        /\ parked' = [i \in DOMAIN parked |-> [parked[i] EXCEPT !.prof = << >>]]
    BY DEF ClearProfileFrames
  <1>2. LiveInv'
    <2>1. live \in Stacks /\ Sound(live, Stamp, profile.active)
      BY <1>0 DEF LiveInv
    <2>2. live' \in Stacks /\ Sound(live', Stamp', profile'.active)
      BY <1>1, <2>1, DropsFrames
    <2> QED
      BY <2>2, LiveNext
  <1>3. ParkedInv'
    <2>1. /\ Len(parked) \in Nat /\ DOMAIN parked = 1 .. Len(parked) /\ Len(parked) <= ParkedCap
          /\ \A i \in DOMAIN parked : parked[i] \in Holdable(Stamp, profile.active)
      BY <1>0, ParkedElements DEF ParkedInv
    <2>2. \A i \in DOMAIN parked :
             [parked[i] EXCEPT !.prof = << >>] \in Holdable(Stamp, profile'.active)
      BY <2>1, DropsFrames
    <2>3. \A i \in DOMAIN parked :
             [parked[i] EXCEPT !.prof = << >>] \in Holdable(Stamp', profile'.active)
      BY <1>0, <2>2, HoldableLater
    <2>4. parked' \in [1 .. Len(parked) -> Holdable(Stamp', profile'.active)]
      BY <1>1, <2>1, <2>3
    <2>5. parked' \in Seq(Holdable(Stamp', profile'.active))
      BY <2>1, <2>4, SeqDef
    <2>6. DOMAIN parked' = 1 .. Len(parked') /\ Len(parked') \in Nat
      BY <2>5, LenProperties
    <2>7. DOMAIN parked' = 1 .. Len(parked)
      BY <2>4
    <2>8. Len(parked') = Len(parked)
      BY <2>1, <2>6, <2>7, SameInterval
    <2> QED
      BY <2>1, <2>5, <2>8, ParkedNext
  <1>4. TraceInv'
    <2>1. live'.calls = live.calls
      BY <1>0, <1>1 DEF LiveInv, Stacks
    <2> QED
      BY <2>1, <1>0, TraceNext DEF TraceInv
  <1> QED
    BY <1>2, <1>3, <1>4

\* Steps that leave the shadow stacks alone.
LEMMA LeavesStacks ==
    ASSUME IInv, [Next]_vars, live' = live, parked' = parked, profile' = profile
    PROVE  /\ LiveInv' /\ ParkedInv'
           /\ trace' = trace => TraceInv'
  <1>0. /\ LiveInv /\ ParkedInv /\ TraceInv
        /\ Stamp \in Nat /\ Stamp' \in Nat /\ Stamp <= Stamp'
    BY ClockKeeps, NowIsLater DEF IInv, ClockInv, ClockType
  <1>1. LiveInv'
    BY <1>0, SoundLater, LiveNext DEF LiveInv
  <1>2. ParkedInv'
    <2>1. parked \in Seq(Holdable(Stamp', profile.active)) /\ Len(parked) <= ParkedCap
      BY <1>0, HoldableLater DEF ParkedInv
    <2> QED
      BY <2>1, ParkedNext
  <1>3. trace' = trace => TraceInv'
    BY <1>0, TraceNext DEF TraceInv
  <1> QED
    BY <1>1, <1>2, <1>3

\* Shadow stacks, profiler frames and slices stay as they should be.
LEMMA StacksKeep ==
    ASSUME IInv, [Next]_vars
    PROVE  LiveInv' /\ ParkedInv' /\ TraceInv'
  <1>0. LiveInv /\ TraceInv
    BY DEF IInv
  <1>1. CASE Tick \/ Frame \/ AddCallback \/ RemoveCallback \/ UNCHANGED vars
    BY <1>1, LeavesStacks DEF Tick, Frame, AddCallback, RemoveCallback, vars
  <1>2. ASSUME NEW u, StepOverSwitch(u)
        PROVE  LiveInv' /\ ParkedInv' /\ TraceInv'
    BY <1>2, LeavesStacks DEF StepOverSwitch
  <1>3. ASSUME NEW f \in Targets, Call(f)
        PROVE  LiveInv' /\ ParkedInv' /\ TraceInv'
    BY <1>3, CallStacks
  <1>4. CASE Return
    BY <1>4, ReturnStacks
  <1>5. ASSUME NEW s, LocalFrame(s)
        PROVE  LiveInv' /\ ParkedInv' /\ TraceInv'
    BY <1>5, SwitchStacks DEF LocalFrame
  <1>6. ASSUME NEW u, Switch(u)
        PROVE  LiveInv' /\ ParkedInv' /\ TraceInv'
    BY <1>6, SwitchStacks DEF Switch
  <1>7. CASE CallstackClear
    BY <1>7, ClearStacks DEF CallstackClear
  <1>8. ASSUME NEW raw, LoadState(raw)
        PROVE  LiveInv' /\ ParkedInv' /\ TraceInv'
    BY <1>8, ClearStacks DEF LoadState
  <1>9. CASE Reset
    BY <1>9, ClearStacks DEF Reset
  <1>10. ASSUME NEW filter, ProfileStart(filter)
         PROVE  LiveInv' /\ ParkedInv' /\ TraceInv'
    BY <1>10, DropStacks DEF ProfileStart
  <1>11. CASE ProfileStop
    BY <1>11, DropStacks DEF ProfileStop
  <1>12. CASE ProfileReset
    BY <1>12, DropStacks DEF ProfileReset
  <1>13. ASSUME NEW opens, TimelineStart(opens)
         PROVE  LiveInv' /\ ParkedInv' /\ TraceInv'
    <2>1. /\ live' = live /\ parked' = parked /\ profile' = profile
          /\ trace' = IF opens THEN [active |-> TRUE, depth |-> 0, slices |-> << >>]
                      ELSE [CloseSlices EXCEPT !.active = FALSE]
      BY <1>13 DEF TimelineStart
    <2>2. live' \in Stacks
      BY <1>0, <2>1, LiveFacts
    <2>3. CASE opens
      BY <1>0, <2>1, <2>2, <2>3, LeavesStacks, Closes, TraceClosed
    <2>4. CASE ~opens
      BY <1>0, <2>1, <2>2, <2>4, LeavesStacks, Closes, TraceClosed
    <2> QED
      BY <2>3, <2>4
  <1>14. CASE TimelineStop
    <2>1. /\ live' = live /\ parked' = parked /\ profile' = profile
          /\ trace' = [CloseSlices EXCEPT !.active = FALSE]
      BY <1>14 DEF TimelineStop
    <2>2. live' \in Stacks
      BY <1>0, <2>1, LiveFacts
    <2> QED
      BY <1>0, <2>1, <2>2, LeavesStacks, Closes, TraceClosed
  <1> QED
    BY <1>1, <1>2, <1>3, <1>4, <1>5, <1>6, <1>7, <1>8, <1>9, <1>10, <1>11, <1>12, <1>13, <1>14
       DEF Next, Program, Host

-----------------------------------------------------------------------------
(* Statistics *)

\* A call more is counted.
LEMMA CountedStat ==
    ASSUME NEW stat \in Stats, NEW m \in Nat, NEW n \in Nat
    PROVE  Counted(stat, m, n) \in Stats
  <1>1. stat.calls \in Nat /\ stat.incl \in Nat /\ stat.excl \in Nat /\ stat.max \in Nat /\ stat.min \in Nat
    BY DEF Stats
  <1>2. /\ stat.calls + 1 \in Nat /\ stat.incl + m \in Nat /\ stat.excl + n \in Nat
        /\ (IF m > stat.max THEN m ELSE stat.max) \in Nat
        /\ (IF m < stat.min THEN m ELSE stat.min) \in Nat
    BY <1>1
  <1> QED
    BY <1>2 DEF Counted, Stats

\* Nothing was counted yet.
LEMMA NoStatsType == NoStats \in [Targets -> Stats]
  <1>1. NoStat \in Stats
    BY LimitsAssumption DEF NoStat, Stats
  <1> QED
    BY <1>1 DEF NoStats

\* Counting in the statistics of all functions.
LEMMA CountedStats ==
    ASSUME NEW stats \in [Targets -> Stats], NEW f \in Targets, NEW m \in Nat, NEW n \in Nat
    PROVE  [stats EXCEPT ![f] = Counted(@, m, n)] \in [Targets -> Stats]
  <1>1. Counted(stats[f], m, n) \in Stats
    BY CountedStat
  <1> QED
    BY <1>1

ProfileType == [active : BOOLEAN, filter : SUBSET Targets, stats : [Targets -> Stats]]

\* A return leaves statistics.
LEMMA ReturnStats ==
    ASSUME IInv, Running.calls # << >>
    PROVE  StatsOnReturn \in [Targets -> Stats] /\ TruthOnReturn \in [Targets -> Stats]
  <1>0. /\ profile.stats \in [Targets -> Stats] /\ truth \in [Targets -> Stats]
        /\ LiveInv /\ Stamp \in Nat /\ Now \in Nat /\ Stamp <= Now
    BY NowIsLater DEF IInv, StatsInv, ClockInv, ClockType
  <1>1. StatsOnReturn \in [Targets -> Stats]
    <2>1. CASE Pops /\ Last(live.prof).aggregated
      <3> DEFINE fr == Last(live.prof)
      <3>1. live.prof # << >> /\ live.prof \in Seq(Pushed(Stamp))
        BY <1>0, <2>1, LiveFacts DEF Pops
      <3>2. fr \in Pushed(Stamp)
        BY <3>1, FrontLast
      <3>3. StatsOnReturn = [profile.stats EXCEPT ![fr.target] = Counted(@, Inclusive(fr), Exclusive(fr))]
        BY <2>1 DEF StatsOnReturn
      <3> HIDE DEF fr
      <3>4. fr.target \in Targets /\ Inclusive(fr) \in Nat /\ Exclusive(fr) \in Nat
        BY <1>0, <3>2, Durations
      <3> QED
        BY <1>0, <3>3, <3>4, CountedStats
    <2>2. CASE ~(Pops /\ Last(live.prof).aggregated)
      BY <1>0, <2>2 DEF StatsOnReturn
    <2> QED
      BY <2>1, <2>2
  <1>2. TruthOnReturn \in [Targets -> Stats]
    <2> DEFINE c == Last(Running.calls)
    <2>1. Running.calls \in Seq(Calls)
      BY DEF IInv, TaskInv, Running
    <2>2. c \in Calls
      BY <2>1, FrontLast
    <2>3. c.target \in Targets /\ c.incl \in Nat /\ c.own \in Nat
      BY <2>2 DEF Calls
    <2>4. TruthOnReturn \in {truth, [truth EXCEPT ![c.target] = Counted(@, c.incl, c.own)]}
      BY DEF TruthOnReturn
    <2> HIDE DEF c
    <2> QED
      BY <1>0, <2>3, <2>4, CountedStats
  <1> QED
    BY <1>1, <1>2

\* The profile and the true statistics keep their types.
LEMMA StatsKeep ==
    ASSUME IInv, [Next]_vars
    PROVE  StatsInv'
  <1>0. profile \in ProfileType /\ profile.stats \in [Targets -> Stats] /\ truth \in [Targets -> Stats]
    BY DEF IInv, StatsInv, ProfileType
  <1>00. SUFFICES profile' \in ProfileType /\ truth' \in [Targets -> Stats]
    BY DEF StatsInv, ProfileType
  <1>01. /\ \A st \in [Targets -> Stats] : [profile EXCEPT !.stats = st] \in ProfileType
         /\ \A v \in BOOLEAN : [profile EXCEPT !.active = v] \in ProfileType
    BY <1>0 DEF ProfileType
  <1>1. CASE Tick \/ Frame \/ AddCallback \/ RemoveCallback \/ TimelineStop \/ UNCHANGED vars
    BY <1>0, <1>1 DEF Tick, Frame, AddCallback, RemoveCallback, TimelineStop, vars
  <1>2. ASSUME NEW x, StepOverSwitch(x) \/ Call(x) \/ LocalFrame(x) \/ Switch(x) \/ TimelineStart(x)
        PROVE  profile' \in ProfileType /\ truth' \in [Targets -> Stats]
    BY <1>0, <1>2 DEF StepOverSwitch, Call, LocalFrame, Switch, TimelineStart
  <1>3. CASE Return
    <2>1. Running.calls # << >> /\ truth' = TruthOnReturn
          /\ profile' \in {profile, [profile EXCEPT !.stats = StatsOnReturn]}
      BY <1>3 DEF Return, ReturnNowhere
    <2> QED
      BY <1>0, <1>01, <2>1, ReturnStats
  <1>4. ASSUME ClearShadowStacks, profile' = profile
        PROVE  profile' \in ProfileType /\ truth' \in [Targets -> Stats]
    BY <1>0, <1>4 DEF ClearShadowStacks
  <1>5. CASE CallstackClear \/ Reset
    BY <1>4, <1>5 DEF CallstackClear, Reset
  <1>6. ASSUME NEW raw, LoadState(raw)
        PROVE  profile' \in ProfileType /\ truth' \in [Targets -> Stats]
    BY <1>4, <1>6 DEF LoadState
  <1>7. ASSUME NEW filter \in Filters, ProfileStart(filter)
        PROVE  profile' \in ProfileType /\ truth' \in [Targets -> Stats]
    <2>1. filter \in SUBSET Targets
      BY TasksAssumption
    <2> QED
      BY <1>7, <2>1, NoStatsType DEF ProfileStart, ProfileType
  <1>8. CASE ProfileStop
    BY <1>0, <1>01, <1>8 DEF ProfileStop
  <1>9. CASE ProfileReset
    BY <1>01, <1>9, NoStatsType DEF ProfileReset
  <1> QED
    BY <1>1, <1>2, <1>3, <1>5, <1>6, <1>7, <1>8, <1>9 DEF Next, Program, Host

\* The bounds, the hook and what was missed.
LEMMA RestKeeps ==
    ASSUME IInv, [Next]_vars
    PROVE  RestInv'
  <1>0. /\ elapsed \in 0 .. CycleBound /\ asked \in 0 .. HostBound
        /\ CycleBound \in Nat /\ HostBound \in Nat
        /\ hook \in [armed : BOOLEAN, callbacks : BOOLEAN]
        /\ missed \in {"none", "step", "unarmed"} /\ profile.active \in BOOLEAN
    BY LimitsAssumption DEF IInv, RestInv, StatsInv
  <1>1. elapsed' \in 0 .. CycleBound
    <2>1. elapsed' = elapsed \/ Spend
      BY DEF Next, Program, Host, Tick, Frame, Call, Return, LocalFrame, Switch, StepOverSwitch,
             CallstackClear, LoadState, Reset, ProfileStart, ProfileStop, ProfileReset,
             AddCallback, RemoveCallback, TimelineStart, TimelineStop, vars
    <2> QED
      BY <1>0, <2>1 DEF Spend
  <1>2. asked' \in 0 .. HostBound
    BY <1>0 DEF Next, vars
  <1>3. hook' \in [armed : BOOLEAN, callbacks : BOOLEAN]
    <2>1. \/ hook' = hook
          \/ hook' = [hook EXCEPT !.armed = TRUE]
          \/ hook' = [hook EXCEPT !.armed = hook.callbacks]
          \/ hook' = [armed |-> TRUE, callbacks |-> TRUE]
          \/ hook' = Disarmed
      BY DEF Next, Program, Host, Tick, Frame, Call, Return, LocalFrame, Switch, StepOverSwitch,
             CallstackClear, LoadState, Reset, ProfileStart, ProfileStop, ProfileReset,
             AddCallback, RemoveCallback, TimelineStart, TimelineStop, vars
    <2>2. \A h \in [armed : BOOLEAN, callbacks : BOOLEAN] : \A v \in BOOLEAN :
             [h EXCEPT !.armed = v] \in [armed : BOOLEAN, callbacks : BOOLEAN]
      OBVIOUS
    <2>3. hook.callbacks \in BOOLEAN
      BY <1>0
    <2>4. Disarmed \in [armed : BOOLEAN, callbacks : BOOLEAN]
      BY <1>0 DEF Disarmed
    <2>5. /\ [hook EXCEPT !.armed = TRUE] \in [armed : BOOLEAN, callbacks : BOOLEAN]
          /\ [hook EXCEPT !.armed = hook.callbacks] \in [armed : BOOLEAN, callbacks : BOOLEAN]
      BY <1>0, <2>2, <2>3
    <2>6. [armed |-> TRUE, callbacks |-> TRUE] \in [armed : BOOLEAN, callbacks : BOOLEAN]
      OBVIOUS
    <2> QED
      BY <1>0, <2>1, <2>4, <2>5, <2>6, Zenon
  <1>4. missed' \in {"none", "step", "unarmed"}
    <2>1. missed' = missed \/ missed' \in {"none", "step", "unarmed"}
      BY <1>0 DEF Next, Program, Host, Tick, Frame, Call, Return, LocalFrame, Switch, StepOverSwitch,
             CallstackClear, LoadState, Reset, ProfileStart, ProfileStop, ProfileReset,
             AddCallback, RemoveCallback, TimelineStart, TimelineStop, vars, ClearShadowStacks
    <2> QED
      BY <1>0, <2>1
  <1> QED
    BY <1>1, <1>2, <1>3, <1>4 DEF RestInv

-----------------------------------------------------------------------------
(* The invariant *)

\* The program starts with everything empty.
LEMMA InitInv == Init => IInv
  <1> SUFFICES ASSUME Init
               PROVE  IInv
    OBVIOUS
  <1> USE DEF Init
  <1>1. TaskInv
    <2>1. << >> \in Seq(Calls)
      BY EmptySeq
    <2> QED
      BY <2>1, TasksAssumption, StacksAssumption DEF TaskInv, Booted
  <1>2. ClockInv
    BY LimitsAssumption DEF ClockInv
  <1>3. StatsInv
    BY NoStatsType DEF StatsInv
  <1>4. Len(<< >>) = 0 /\ << >> \in Seq(Targets) /\ Agree(<< >>, << >>)
    BY EmptySeq, AgreeEmpty
  <1>5. TraceInv
    BY <1>4 DEF TraceInv, NoStack
  <1>6. LiveInv
    BY EmptySound DEF LiveInv
  <1>7. ParkedInv
    BY <1>4, EmptySeq, LimitsAssumption DEF ParkedInv
  <1>8. RestInv
    BY LimitsAssumption DEF RestInv
  <1> QED
    BY <1>1, <1>2, <1>3, <1>5, <1>6, <1>7, <1>8 DEF IInv

\* The strengthening is an invariant of the specification.
THEOREM Invariant == Spec => []IInv
  <1>1. Init => IInv
    BY InitInv
  <1>2. IInv /\ [Next]_vars => IInv'
    <2> SUFFICES ASSUME IInv, [Next]_vars
                 PROVE  IInv'
      OBVIOUS
    <2>1. TaskInv' /\ ClockInv' /\ StatsInv' /\ RestInv'
      BY TaskKeeps, ClockKeeps, StatsKeep, RestKeeps
    <2>2. LiveInv' /\ ParkedInv' /\ TraceInv'
      BY StacksKeep
    <2> QED
      BY <2>1, <2>2 DEF IInv
  <1> QED
    BY <1>1, <1>2, PTL DEF Spec

\* For all tasks, functions, stacks and limits: at most CallstackCap frames, each
\* with the S it was pushed at, at most ParkedCap parked stacks, none of them
\* empty, and no negative duration in a frame or in the statistics.
THEOREM TypeCorrect == Spec => []TypeOK
  <1>1. IInv => TypeOK
    <2> SUFFICES ASSUME IInv
                 PROVE  TypeOK
      OBVIOUS
    <2>1. StackType(live)
      BY LiveFacts DEF IInv, StackType
    <2>2. Len(parked) <= ParkedCap /\ \A i \in DOMAIN parked : StackType(parked[i]) /\ parked[i].calls # << >>
      BY ParkedElements, Held DEF IInv, ParkedInv, StackType
    <2> QED
      BY <2>1, <2>2 DEF IInv, TypeOK, TaskInv, ClockInv, StatsInv, TraceInv, RestInv
  <1> QED
    BY <1>1, Invariant, PTL

\* Whatever was missed, cleared or dropped, the profiler's frames and the open
\* slices are those of the innermost shadow frames, live and parked.
THEOREM ReturnsCloseTheirCalls == Spec => []FramesAgree
  <1>1. IInv => FramesAgree
    <2> SUFFICES ASSUME IInv
                 PROVE  FramesAgree
      OBVIOUS
    <2>1. \A st : ProfTargets(st) = TargetsOf(st.prof)
      BY DEF ProfTargets, TargetsOf
    <2>2. Agree(ProfTargets(live), live.calls)
      BY <2>1, LiveFacts DEF IInv
    <2>3. \A i \in DOMAIN parked : Agree(ProfTargets(parked[i]), parked[i].calls)
      BY <2>1, ParkedElements, Held DEF IInv
    <2> QED
      BY <2>2, <2>3 DEF IInv, FramesAgree, TraceInv
  <1> QED
    BY <1>1, Invariant, PTL
=============================================================================
