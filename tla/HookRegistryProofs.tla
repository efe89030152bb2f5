-------------------------- MODULE HookRegistryProofs --------------------------
(***************************************************************************)
(* Proofs about HookRegistry, for every set of addresses and ranges, page  *)
(* size, saturation of the page counts and capacity of the tracer's ring.  *)
(***************************************************************************)
EXTENDS HookRegistry, FiniteSetTheorems, SequenceTheorems, TLAPS

-----------------------------------------------------------------------------
(* The inductive invariant *)

\* Callbacks of kind k whose range spans page p.
Heard(k, p) == {i \in Active(k) : p \in Spans(regs[k][i].range)}

Dispatch ==
    [kind : AllKinds \cup {"none"}, addr : Nat, at : 0 .. HostBound, last : Nat,
     copy : Seq(Callback), moved : BOOLEAN, due : SUBSET Nat, won : BOOLEAN]

Rings == [data : [0 .. RingCap - 1 -> Nat \X Nat], head : 0 .. RingCap - 1, size : 0 .. RingCap]

TypeInv ==
    /\ regs \in [AllKinds -> Seq(Callback)]
    /\ pages \in [AllKinds -> [PageSet -> 0 .. PageCap]]
    /\ clamped \in [AllKinds -> SUBSET PageSet]
    /\ hook \subseteq AllKinds /\ orphans \subseteq users /\ users \subseteq Users
    /\ ring \in Rings
    /\ firing \in Dispatch

\* A page is counted by no more than the callbacks on it, and by exactly those
\* until its count is clamped.
CountInv ==
    \A k \in AllKinds, p \in PageSet :
        /\ IsFiniteSet(Active(k))
        /\ pages[k][p] <= Cardinality(Heard(k, p))
        /\ p \notin clamped[k] => pages[k][p] = Cardinality(Heard(k, p))

HookInv ==
    /\ \A k \in AllKinds : Active(k) # {} => k \in hook
    /\ "project" \in users => {"exec", "read"} \subseteq hook
    /\ "profile" \in users \ orphans => "exec" \in hook

\* The dispatch in progress has yet to call active callbacks further on in the
\* list that cover the address, or goes on over the memory the list left.
FiringInv ==
    ~Idle =>
        /\ firing.due \subseteq Active(firing.kind)
        /\ firing.last <= Len(regs[firing.kind])
        /\ firing.moved => DOMAIN firing.copy \subseteq DOMAIN regs[firing.kind]
        /\ ~firing.moved =>
            \A i \in firing.due :
                /\ firing.at < i /\ i <= firing.last
                /\ Covers(regs[firing.kind][i].range, firing.addr)

IInv == TypeInv /\ CountInv /\ HookInv /\ FiringInv

-----------------------------------------------------------------------------
(* What the helpers return *)

\* The kinds in use are kinds.
LEMMA KindsKnown == \A k \in Kinds : k \in AllKinds
BY KindsAssumption

\* A clamped count fits.
LEMMA ClampType == \A n \in Int : Clamp(n) \in 0 .. PageCap
BY SizesAssumption DEF Clamp

\* The counts a range is marked in are counts again.
LEMMA MarkPagesType ==
    ASSUME NEW counts \in [PageSet -> 0 .. PageCap], NEW range, NEW delta \in {1, -1}
    PROVE  MarkPages(counts, range, delta) \in [PageSet -> 0 .. PageCap]
<1>1. \A p \in PageSet : Clamp(counts[p] + delta) \in 0 .. PageCap
  BY ClampType, SizesAssumption
<1> QED BY <1>1 DEF MarkPages

\* Marking touches the range's pages by one, except where it clamps, and there
\* the count is too low or zero.
LEMMA MarkPagesCounts ==
    ASSUME NEW counts \in [PageSet -> 0 .. PageCap], NEW range, NEW delta \in {1, -1},
           NEW p \in PageSet
    PROVE  LET n == MarkPages(counts, range, delta)[p] IN
           /\ p \notin Spans(range) => n = counts[p]
           /\ p \in Spans(range) => n = counts[p] + delta \/ p \in Clamping(counts, range, delta)
           /\ p \in Spans(range) => n <= counts[p] + delta \/ n = 0
BY SizesAssumption DEF MarkPages, Clamping, Clamp

\* No dispatch is a dispatch.
LEMMA NotFiringType == NotFiring \in Dispatch
BY SizesAssumption DEF NotFiring, Dispatch

\* A cleared ring is a ring.
LEMMA EmptyRingType == EmptyRing \in Rings
BY SizesAssumption DEF EmptyRing, Rings

-----------------------------------------------------------------------------
(* Types *)

\* The newest bytes are bytes, and no more than asked for.
LEMMA NewestType ==
    ASSUME NEW s \in Seq(Nat \X Nat), NEW n \in Nat
    PROVE  Newest(s, n) \in Seq(Nat \X Nat) /\ Len(Newest(s, n)) <= n
<1>1. CASE Len(s) > n
  <2>1. Len(s) - n + 1 \in 1 .. Len(s) + 1 /\ Len(s) \in Nat
    BY <1>1
  <2>2. /\ Newest(s, n) \in Seq(Nat \X Nat)
        /\ Len(Newest(s, n)) = IF Len(s) - n + 1 <= Len(s) THEN Len(s) - (Len(s) - n + 1) + 1 ELSE 0
    BY <1>1, <2>1, SubSeqProperties DEF Newest
  <2> QED BY <2>1, <2>2
<1>2. CASE ~ (Len(s) > n)
  <2>1. Newest(s, n) = s
    BY <1>2, SubSeqProperties DEF Newest
  <2> QED BY <1>2, <2>1
<1> QED BY <1>1, <1>2

\* Trace lines are bytes.
LEMMA LineOfType == \A a \in Addrs : LineOf(a) \in Seq(Nat \X Nat)
BY AddrsAssumption, SizesAssumption DEF LineOf

\* Putting a line into the ring leaves a ring.
LEMMA RingPutType ==
    ASSUME NEW r \in Rings, NEW line \in Seq(Nat \X Nat)
    PROVE  RingPut(r, line) \in Rings
<1> DEFINE fits == IF Len(line) >= RingCap THEN [r EXCEPT !.head = 0, !.size = 0] ELSE r
           s == Newest(line, RingCap)
           at(i) == (fits.head + i - 1) % RingCap
           data == [j \in DOMAIN r.data |->
                     IF \E i \in DOMAIN s : at(i) = j
                     THEN s[CHOOSE i \in DOMAIN s : at(i) = j] ELSE r.data[j]]
<1>0. RingCap \in Nat \ {0}
  BY SizesAssumption
<1>1. s \in Seq(Nat \X Nat) /\ Len(s) \in 0 .. RingCap
  BY <1>0, NewestType
<1>2. fits.head \in 0 .. RingCap - 1 /\ fits.size \in 0 .. RingCap
  BY <1>0 DEF Rings
<1>3. data \in [0 .. RingCap - 1 -> Nat \X Nat]
  <2>1. ASSUME NEW j \in DOMAIN r.data
        PROVE  data[j] \in Nat \X Nat
    <3>1. CASE \E i \in DOMAIN s : at(i) = j
      <4>1. (CHOOSE i \in DOMAIN s : at(i) = j) \in DOMAIN s
        BY <3>1
      <4> HIDE DEF s, at
      <4> QED BY <3>1, <4>1, <1>1
    <3>2. CASE ~ \E i \in DOMAIN s : at(i) = j
      <4> HIDE DEF s, at
      <4> QED BY <3>2 DEF Rings
    <3> QED BY <3>1, <3>2
  <2>2. DOMAIN r.data = 0 .. RingCap - 1
    BY DEF Rings
  <2> HIDE DEF s, at
  <2> QED BY <2>1, <2>2
<1>4. (fits.head + Len(s)) % RingCap \in 0 .. RingCap - 1
  <2> HIDE DEF fits, s
  <2> QED BY <1>0, <1>1, <1>2
<1>5. fits.size - Overflow(Len(s), fits.size) + Len(s) \in 0 .. RingCap
  <2> HIDE DEF fits, s
  <2> QED BY <1>0, <1>1, <1>2 DEF Overflow
<1>6. RingPut(r, line) = [data |-> data, head |-> (fits.head + Len(s)) % RingCap,
                          size |-> fits.size - Overflow(Len(s), fits.size) + Len(s)]
  BY DEF RingPut
<1> HIDE DEF data, fits, s
<1> QED BY <1>3, <1>4, <1>5, <1>6 DEF Rings

\* The actions that leave callbacks and counts alone.
Quiet == UNCHANGED <<regs, pages, clamped>>

UserStep ==
    \/ ProjectOpen \/ ProjectClose \/ ProfileStart \/ ProfileStop
    \/ TracerStart \/ TracerStop \/ PpuWritesStart \/ PpuWritesStop

\* Registering keeps the types.
LEMMA AddTypes ==
    ASSUME TypeInv, NEW k \in AllKinds, NEW range \in Ranges, AddCallback(k, range)
    PROVE  TypeInv'
<1>1. regs' \in [AllKinds -> Seq(Callback)]
  <2>1. [range |-> range, active |-> TRUE] \in Callback /\ regs[k] \in Seq(Callback)
    BY DEF TypeInv, Callback
  <2>2. Append(regs[k], [range |-> range, active |-> TRUE]) \in Seq(Callback)
    BY <2>1
  <2> QED BY <2>2 DEF TypeInv, AddCallback
<1>2. pages' \in [AllKinds -> [PageSet -> 0 .. PageCap]]
  <2>1. pages[k] \in [PageSet -> 0 .. PageCap]
    BY DEF TypeInv
  <2>2. MarkPages(pages[k], range, 1) \in [PageSet -> 0 .. PageCap]
    BY <2>1, MarkPagesType
  <2> QED BY <2>2 DEF TypeInv, AddCallback, Marks
<1>3. clamped' \in [AllKinds -> SUBSET PageSet]
  BY DEF TypeInv, AddCallback, Marks, Clamping, Spans
<1>4. firing' \in Dispatch
  BY DEF TypeInv, AddCallback, Moves, Dispatch
<1> QED BY <1>1, <1>2, <1>3, <1>4 DEF TypeInv, AddCallback

\* Removing keeps the types.
LEMMA RemoveTypes ==
    ASSUME TypeInv, NEW k \in AllKinds, NEW i, RemoveCallback(k, i)
    PROVE  TypeInv'
<1>1. regs' \in [AllKinds -> Seq(Callback)]
  <2>1. regs[k] \in Seq(Callback) /\ i \in 1 .. Len(regs[k])
    BY DEF TypeInv, RemoveCallback
  <2>2. [regs[k][i] EXCEPT !.active = FALSE] \in Callback
    <3>1. regs[k][i] \in Callback
      BY <2>1
    <3> QED BY <3>1 DEF Callback
  <2>3. [regs[k] EXCEPT ![i] = [regs[k][i] EXCEPT !.active = FALSE]] \in Seq(Callback)
    BY <2>1, <2>2
  <2> QED BY <2>3 DEF TypeInv, RemoveCallback
<1>2. pages' \in [AllKinds -> [PageSet -> 0 .. PageCap]]
  <2>1. pages[k] \in [PageSet -> 0 .. PageCap]
    BY DEF TypeInv
  <2>2. MarkPages(pages[k], regs[k][i].range, -1) \in [PageSet -> 0 .. PageCap]
    BY <2>1, MarkPagesType
  <2> QED BY <2>2 DEF TypeInv, RemoveCallback, Marks
<1>3. clamped' \in [AllKinds -> SUBSET PageSet]
  BY DEF TypeInv, RemoveCallback, Marks, Clamping, Spans
<1>4. firing' \in Dispatch
  BY DEF TypeInv, RemoveCallback, Dispatch
<1> QED BY <1>1, <1>2, <1>3, <1>4 DEF TypeInv, RemoveCallback

\* The other users of the hooks leave callbacks, counts and dispatch alone.
LEMMA UserTypes ==
    ASSUME TypeInv, UserStep
    PROVE  TypeInv' /\ Quiet /\ UNCHANGED firing
<1>1. ring' \in Rings
  BY EmptyRingType DEF TypeInv, UserStep, ProjectOpen, ProjectClose, ProfileStart, ProfileStop,
     TracerStart, TracerStop, PpuWritesStart, PpuWritesStop
<1>2. hook' \subseteq AllKinds
  BY DEF TypeInv, UserStep, ProjectOpen, ProjectClose, ProfileStart, ProfileStop,
     TracerStart, TracerStop, PpuWritesStart, PpuWritesStop, AllKinds
<1>3. /\ Quiet /\ UNCHANGED firing
      /\ \E u \in Users, on \in BOOLEAN : Turns(u, on)
  BY DEF UserStep, ProjectOpen, ProjectClose, ProfileStart, ProfileStop, TracerStart, TracerStop,
     PpuWritesStart, PpuWritesStop, TurnsOn, Turns, Quiet, Users
<1>4. orphans' \subseteq users' /\ users' \subseteq Users
  BY <1>3 DEF TypeInv, Turns
<1> QED BY <1>1, <1>2, <1>3, <1>4 DEF TypeInv, Quiet

\* Draining keeps the types.
LEMMA DrainTypes ==
    ASSUME TypeInv, TracerDrain
    PROVE  TypeInv'
<1>1. ring' \in Rings
  <2>1. ring \in Rings /\ 0 \in 0 .. RingCap - 1 /\ 0 \in 0 .. RingCap
    BY SizesAssumption DEF TypeInv
  <2>2. ring' = [ring EXCEPT !.head = 0, !.size = 0]
    BY DEF TracerDrain
  <2> QED BY <2>1, <2>2 DEF Rings
<1> QED BY <1>1 DEF TypeInv, TracerDrain

\* Destroying keeps the types.
LEMMA DestroyTypes ==
    ASSUME TypeInv, Destroy
    PROVE  TypeInv'
BY SizesAssumption DEF TypeInv, Destroy

\* Reaching an address keeps the types.
LEMMA AccessTypes ==
    ASSUME TypeInv, NEW k \in AllKinds, NEW a \in Addrs, Access(k, a)
    PROVE  TypeInv'
<1>1. ring' \in Rings
  BY RingPutType, LineOfType DEF TypeInv, Access, Traces
<1>2. [NotFiring EXCEPT !.kind = k, !.addr = a, !.last = Len(regs[k]),
         !.due = {i \in Active(k) : Covers(regs[k][i].range, a)}] \in Dispatch
  <2>1. regs[k] \in Seq(Callback)
    BY DEF TypeInv
  <2>2. {i \in Active(k) : Covers(regs[k][i].range, a)} \in SUBSET Nat /\ Len(regs[k]) \in Nat
    BY <2>1 DEF Active
  <2>3. a \in Nat
    BY AddrsAssumption
  <2> QED BY <2>2, <2>3, NotFiringType DEF Dispatch
<1>3. firing' \in Dispatch
  BY <1>2 DEF TypeInv, Access
<1> QED BY <1>1, <1>3 DEF TypeInv, Access

\* The steps of a dispatch change the dispatch and nothing else.
LEMMA FireTypes ==
    ASSUME TypeInv, \/ \E i \in 1 .. HostBound : Fire(i)
                    \/ Answer \/ FireEnds
    PROVE  TypeInv' /\ Quiet /\ UNCHANGED <<hook, users, orphans, ring, log>>
<1>1. CASE \E i \in 1 .. HostBound : Fire(i)
  <2>1. PICK i \in 1 .. HostBound : Fire(i)
    BY <1>1
  <2>2. firing \in Dispatch /\ i \in 0 .. HostBound
    BY SizesAssumption DEF TypeInv
  <2>3. firing' = [firing EXCEPT !.at = i, !.due = firing.due \ {i}]
    BY <2>1 DEF Fire
  <2>4. firing' \in Dispatch
    BY <2>2, <2>3 DEF Dispatch
  <2> QED BY <2>1, <2>4 DEF TypeInv, Fire, Quiet
<1>2. CASE Answer
  BY <1>2 DEF TypeInv, Answer, Dispatch, Quiet
<1>3. CASE FireEnds
  BY <1>3, NotFiringType DEF TypeInv, FireEnds, Quiet
<1> QED BY <1>1, <1>2, <1>3

-----------------------------------------------------------------------------
(* Counts *)

\* A list has finitely many active callbacks.
LEMMA ActiveIsFinite ==
    \A s \in Seq(Callback) : IsFiniteSet({i \in DOMAIN s : s[i].active})
<1>1. SUFFICES ASSUME NEW s \in Seq(Callback)
               PROVE  IsFiniteSet({i \in DOMAIN s : s[i].active})
  OBVIOUS
<1>2. {i \in DOMAIN s : s[i].active} \in SUBSET (1 .. Len(s)) /\ Len(s) \in Int
  OBVIOUS
<1> QED BY <1>2, FS_Interval, FS_Subset

\* No more callbacks span a page than are active.
LEMMA HeardIsFinite ==
    ASSUME TypeInv, NEW k \in AllKinds, NEW p \in PageSet
    PROVE  /\ IsFiniteSet(Active(k)) /\ IsFiniteSet(Heard(k, p))
           /\ Cardinality(Heard(k, p)) \in Nat
           /\ Cardinality(Heard(k, p)) <= Cardinality(Active(k))
<1>1. regs[k] \in Seq(Callback)
  BY DEF TypeInv
<1>4. IsFiniteSet(Active(k))
  BY <1>1, ActiveIsFinite DEF Active
<1>5. Heard(k, p) \in SUBSET Active(k)
  BY DEF Heard
<1> QED BY <1>4, <1>5, FS_Subset, FS_CardinalityType

\* Registering counts the callback on each page it spans, unless the page clamps.
LEMMA AddCounts ==
    ASSUME TypeInv, CountInv, NEW k \in AllKinds, NEW range \in Ranges, AddCallback(k, range)
    PROVE  CountInv'
<1> DEFINE n == Len(regs[k]) + 1
<1>1. TypeInv'
  BY AddTypes
<1>2. SUFFICES ASSUME NEW j \in AllKinds, NEW p \in PageSet
               PROVE  /\ pages'[j][p] <= Cardinality(Heard(j, p))'
                      /\ p \notin clamped'[j] => pages'[j][p] = Cardinality(Heard(j, p))'
  <2>1. \A j \in AllKinds, p \in PageSet : IsFiniteSet(Active(j))'
    BY <1>1, ActiveIsFinite DEF TypeInv, Active
  <2> QED BY <1>2, <2>1 DEF CountInv
<1>3. CASE j # k
  <2>1. Heard(j, p)' = Heard(j, p) /\ pages'[j] = pages[j] /\ clamped'[j] = clamped[j]
    BY <1>3 DEF TypeInv, AddCallback, Marks, Heard, Active
  <2> QED BY <2>1 DEF CountInv
<1>4. CASE j = k
  <2>1. regs[k] \in Seq(Callback) /\ n \in Nat /\ regs'[k] = Append(regs[k], [range |-> range, active |-> TRUE])
    BY DEF TypeInv, AddCallback
  <2>2. n \notin Heard(k, p)
    BY <2>1 DEF Heard, Active
  <2>3. Heard(k, p)' = IF p \in Spans(range) THEN Heard(k, p) \cup {n} ELSE Heard(k, p)
    <3>1. /\ DOMAIN regs'[k] = DOMAIN regs[k] \cup {n}
          /\ \A i \in DOMAIN regs[k] : regs'[k][i] = regs[k][i]
          /\ regs'[k][n] = [range |-> range, active |-> TRUE]
          /\ n \notin DOMAIN regs[k]
      BY <2>1
    <3> HIDE DEF n
    <3> QED BY <3>1 DEF Heard, Active, Spans
  <2>4. pages[k] \in [PageSet -> 0 .. PageCap] /\ pages'[k] = MarkPages(pages[k], range, 1)
    BY DEF TypeInv, AddCallback, Marks
  <2>5. clamped'[k] = clamped[k] \cup Clamping(pages[k], range, 1)
    BY DEF TypeInv, AddCallback, Marks
  <2>6. /\ pages[k][p] <= Cardinality(Heard(k, p))
        /\ p \notin clamped[k] => pages[k][p] = Cardinality(Heard(k, p))
        /\ Cardinality(Heard(k, p)) \in Nat /\ IsFiniteSet(Heard(k, p))
    BY HeardIsFinite DEF CountInv
  <2>7. Cardinality(Heard(k, p))' = IF p \in Spans(range) THEN Cardinality(Heard(k, p)) + 1
                                                          ELSE Cardinality(Heard(k, p))
    BY <2>2, <2>3, <2>6, FS_AddElement
  <2>8. pages[k][p] \in 0 .. PageCap /\ PageCap \in Nat
    BY <2>4, SizesAssumption
  <2>9. /\ p \notin Spans(range) => pages'[k][p] = pages[k][p]
        /\ p \in Spans(range) => pages'[k][p] = pages[k][p] + 1 \/ p \in Clamping(pages[k], range, 1)
        /\ p \in Spans(range) => pages'[k][p] <= pages[k][p] + 1 \/ pages'[k][p] = 0
    BY <2>4, MarkPagesCounts
  <2>10. (Cardinality(Heard(j, p)))' = (Cardinality(Heard(k, p)))'
    BY <1>4
  <2>11. p \notin clamped'[k] => p \notin clamped[k] /\ p \notin Clamping(pages[k], range, 1)
    BY <2>5
  <2> DEFINE c == Cardinality(Heard(k, p))
             d == (Cardinality(Heard(k, p)))'
             was == pages[k][p]
             now == pages'[k][p]
  <2>12. /\ c \in Nat /\ was \in Nat /\ now \in Nat /\ was <= c
         /\ p \notin clamped[k] => was = c
         /\ d = IF p \in Spans(range) THEN c + 1 ELSE c
         /\ p \notin Spans(range) => now = was
         /\ p \in Spans(range) => now = was + 1 \/ p \in Clamping(pages[k], range, 1)
         /\ p \in Spans(range) => now <= was + 1 \/ now = 0
    BY <2>6, <2>7, <2>8, <2>9, <1>1 DEF TypeInv
  <2>13. now <= d /\ (p \notin clamped'[k] => now = d)
    <3> HIDE DEF c, d, was, now
    <3> QED BY <2>11, <2>12
  <2> QED BY <1>4, <2>10, <2>13
<1> QED BY <1>3, <1>4

\* Removing an active callback takes its count back; removing it again does not.
LEMMA RemoveCounts ==
    ASSUME TypeInv, CountInv, NEW k \in AllKinds, NEW i, RemoveCallback(k, i)
    PROVE  CountInv'
<1> DEFINE range == regs[k][i].range
<1>1. TypeInv'
  BY RemoveTypes
<1>2. SUFFICES ASSUME NEW j \in AllKinds, NEW p \in PageSet
               PROVE  /\ pages'[j][p] <= Cardinality(Heard(j, p))'
                      /\ p \notin clamped'[j] => pages'[j][p] = Cardinality(Heard(j, p))'
  <2>1. \A j \in AllKinds, p \in PageSet : IsFiniteSet(Active(j))'
    BY <1>1, ActiveIsFinite DEF TypeInv, Active
  <2> QED BY <1>2, <2>1 DEF CountInv
<1>3. CASE j # k
  <2>1. Heard(j, p)' = Heard(j, p) /\ pages'[j] = pages[j] /\ clamped'[j] = clamped[j]
    BY <1>3 DEF TypeInv, RemoveCallback, Marks, Heard, Active
  <2> QED BY <2>1 DEF CountInv
<1>4. CASE j = k
  <2>1. /\ regs[k] \in Seq(Callback) /\ i \in DOMAIN regs[k]
        /\ regs'[k] = [regs[k] EXCEPT ![i].active = FALSE]
    BY DEF TypeInv, RemoveCallback
  <2>2. /\ DOMAIN regs'[k] = DOMAIN regs[k]
        /\ \A n \in DOMAIN regs[k] : /\ n # i => regs'[k][n] = regs[k][n]
                                     /\ regs'[k][n].range = regs[k][n].range
        /\ ~regs'[k][i].active
    <3>1. \A n \in DOMAIN regs[k] : regs[k][n] \in Callback
      BY <2>1
    <3> QED BY <2>1, <3>1 DEF Callback
  <2>3. Heard(k, p)' = Heard(k, p) \ {i}
    BY <2>2 DEF Heard, Active, Spans
  <2>6. /\ pages[k][p] <= Cardinality(Heard(k, p))
        /\ p \notin clamped[k] => pages[k][p] = Cardinality(Heard(k, p))
        /\ Cardinality(Heard(k, p)) \in Nat /\ IsFiniteSet(Heard(k, p))
    BY HeardIsFinite DEF CountInv
  <2>7. CASE i \notin Active(k)
    <3>1. Heard(k, p)' = Heard(k, p)
      BY <2>3, <2>7 DEF Heard
    <3>2. pages'[k] = pages[k] /\ clamped'[k] = clamped[k]
      BY <2>7 DEF RemoveCallback
    <3> QED BY <1>4, <2>6, <3>1, <3>2
  <2>8. CASE i \in Active(k)
    <3>1. /\ pages[k] \in [PageSet -> 0 .. PageCap] /\ pages'[k] = MarkPages(pages[k], range, -1)
          /\ clamped'[k] = clamped[k] \cup Clamping(pages[k], range, -1)
      BY <2>8 DEF TypeInv, RemoveCallback, Marks
    <3>2. i \in Heard(k, p) <=> p \in Spans(range)
      BY <2>8 DEF Heard
    <3>3. Cardinality(Heard(k, p))' = IF p \in Spans(range) THEN Cardinality(Heard(k, p)) - 1
                                                            ELSE Cardinality(Heard(k, p))
      BY <2>3, <2>6, <3>2, FS_RemoveElement
    <3>4. /\ p \notin Spans(range) => pages'[k][p] = pages[k][p]
          /\ p \in Spans(range) => pages'[k][p] = pages[k][p] + (-1) \/ p \in Clamping(pages[k], range, -1)
          /\ p \in Spans(range) => pages'[k][p] <= pages[k][p] + (-1) \/ pages'[k][p] = 0
      BY <3>1, MarkPagesCounts
    <3>5. pages[k][p] \in 0 .. PageCap /\ PageCap \in Nat /\ pages'[k][p] \in 0 .. PageCap
      BY <3>1, <1>1, SizesAssumption DEF TypeInv
    <3>6. (Cardinality(Heard(j, p)))' = (Cardinality(Heard(k, p)))'
      BY <1>4
    <3>7. p \notin clamped'[k] => p \notin clamped[k] /\ p \notin Clamping(pages[k], range, -1)
      BY <3>1
    <3>10. (Cardinality(Heard(k, p)))' \in Nat
      BY <1>1, HeardIsFinite, <2>3, <2>6, FS_Subset, FS_CardinalityType
    <3> DEFINE c == Cardinality(Heard(k, p))
               d == (Cardinality(Heard(k, p)))'
               was == pages[k][p]
               now == pages'[k][p]
    <3>8. /\ c \in Nat /\ d \in Nat /\ was \in Nat /\ now \in Nat /\ was <= c
          /\ p \notin clamped[k] => was = c
          /\ d = IF p \in Spans(range) THEN c - 1 ELSE c
          /\ p \notin Spans(range) => now = was
          /\ p \in Spans(range) => now = was - 1 \/ p \in Clamping(pages[k], range, -1)
          /\ p \in Spans(range) => now <= was - 1 \/ now = 0
      BY <2>6, <3>3, <3>4, <3>5, <3>10
    <3>9. now <= d /\ (p \notin clamped'[k] => now = d)
      <4> HIDE DEF c, d, was, now
      <4> QED BY <3>7, <3>8
    <3> QED BY <1>4, <3>6, <3>9
  <2> QED BY <2>7, <2>8
<1> QED BY <1>3, <1>4

\* Before anything is registered, and after a destroy.
LEMMA EmptyCounts ==
    ASSUME regs = [k \in AllKinds |-> <<>>], pages = [k \in AllKinds |-> [p \in PageSet |-> 0]]
    PROVE  CountInv /\ \A k \in AllKinds : Active(k) = {}
<1>1. \A k \in AllKinds : Active(k) = {}
  BY DEF Active
<1>2. \A k \in AllKinds, p \in PageSet : Heard(k, p) = {} /\ pages[k][p] = 0
  BY <1>1 DEF Heard
<1>3. IsFiniteSet({}) /\ Cardinality({}) = 0
  BY FS_EmptySet
<1>4. \A k \in AllKinds, p \in PageSet : pages[k][p] = Cardinality(Heard(k, p))
  BY <1>2, <1>3
<1>5. ASSUME NEW k \in AllKinds, NEW p \in PageSet
      PROVE  pages[k][p] <= Cardinality(Heard(k, p))
  <2>1. pages[k][p] = 0 /\ Cardinality(Heard(k, p)) = 0
    BY <1>2, <1>4
  <2> QED BY <2>1
<1> QED BY <1>1, <1>3, <1>4, <1>5 DEF CountInv

-----------------------------------------------------------------------------
(* Steps *)

\* Registering arms the hook and disturbs no dispatch, moved or not.
LEMMA AddKeeps ==
    ASSUME IInv, NEW k \in AllKinds, NEW range \in Ranges, AddCallback(k, range)
    PROVE  HookInv' /\ FiringInv'
<1> DEFINE n == Len(regs[k]) + 1
<1>1. /\ regs[k] \in Seq(Callback) /\ regs \in [AllKinds -> Seq(Callback)]
      /\ regs' = [regs EXCEPT ![k] = Append(regs[k], [range |-> range, active |-> TRUE])]
  BY DEF IInv, TypeInv, AddCallback
<1>2. /\ DOMAIN regs[k] \subseteq DOMAIN regs'[k]
      /\ \A i \in DOMAIN regs[k] : regs'[k][i] = regs[k][i]
      /\ Len(regs[k]) \in Nat /\ Len(regs'[k]) = Len(regs[k]) + 1
  BY <1>1
<1>3. \A j \in AllKinds : j # k => regs'[j] = regs[j]
  BY <1>1
<1>4. \A j \in AllKinds : Active(j) \subseteq Active(j)'
  BY <1>2, <1>3 DEF Active
<1>5. HookInv'
  BY <1>3 DEF IInv, HookInv, AddCallback, Active
<1>9. firing'.kind = firing.kind
  BY DEF IInv, TypeInv, Dispatch, AddCallback, Moves
<1>6. ASSUME ~Idle
      PROVE  /\ firing.kind \in AllKinds /\ firing.last \in Nat
             /\ firing.due \subseteq Active(firing.kind)'
             /\ firing.last <= Len(regs'[firing.kind])
             /\ DOMAIN regs[firing.kind] \subseteq DOMAIN regs'[firing.kind]
             /\ \A i \in firing.due : regs'[firing.kind][i] = regs[firing.kind][i]
  <2>1. firing.kind \in AllKinds /\ firing.last \in Nat
    BY <1>6 DEF IInv, TypeInv, Dispatch, Idle
  <2>2. firing.due \subseteq Active(firing.kind) /\ firing.last <= Len(regs[firing.kind])
    BY <1>6 DEF IInv, FiringInv
  <2>3. firing.due \subseteq DOMAIN regs[firing.kind]
    BY <2>2 DEF Active
  <2>4. Len(regs[firing.kind]) <= Len(regs'[firing.kind])
        /\ Len(regs[firing.kind]) \in Nat /\ Len(regs'[firing.kind]) \in Nat
    <3>1. CASE firing.kind = k
      BY <3>1, <1>2
    <3>2. CASE firing.kind # k
      BY <3>2, <2>1, <1>1, <1>3
    <3> QED BY <3>1, <3>2
  <2>5. firing.last <= Len(regs'[firing.kind])
    BY <2>1, <2>2, <2>4
  <2>6. /\ DOMAIN regs[firing.kind] \subseteq DOMAIN regs'[firing.kind]
        /\ \A i \in firing.due : regs'[firing.kind][i] = regs[firing.kind][i]
    BY <2>1, <2>3, <1>2, <1>3
  <2>7. firing.due \subseteq Active(firing.kind)'
    BY <2>1, <2>2, <1>4, <1>9
  <2> QED BY <2>1, <2>5, <2>6, <2>7
<1>7. CASE UNCHANGED firing
  <2>1. ASSUME ~Idle
        PROVE  /\ firing.moved => DOMAIN firing.copy \subseteq DOMAIN regs'[firing.kind]
               /\ ~firing.moved =>
                    \A i \in firing.due : /\ firing.at < i /\ i <= firing.last
                                          /\ Covers(regs'[firing.kind][i].range, firing.addr)
    BY <1>6, <2>1 DEF IInv, FiringInv
  <2> QED BY <1>5, <1>6, <1>7, <2>1 DEF FiringInv, Idle
<1>8. CASE ~UNCHANGED firing
  <2>1. /\ firing.kind = k /\ firing' = [firing EXCEPT !.moved = TRUE, !.copy = regs[k]]
    BY <1>8 DEF AddCallback, Moves
  <2>2. firing \in Dispatch
    BY DEF IInv, TypeInv
  <2>3. /\ firing'.kind = firing.kind /\ firing'.due = firing.due /\ firing'.last = firing.last
        /\ firing'.moved /\ firing'.copy = regs[k]
    BY <2>1, <2>2 DEF Dispatch
  <2>4. ASSUME ~Idle
        PROVE  DOMAIN firing'.copy \subseteq DOMAIN regs'[firing'.kind]
    BY <1>6, <1>9, <2>1, <2>3, <2>4
  <2> QED BY <1>5, <1>6, <1>9, <2>3, <2>4 DEF FiringInv, Idle
<1> QED BY <1>5, <1>7, <1>8

\* Removing disarms a hook nobody needs and takes the callback from the dispatch.
LEMMA RemoveKeeps ==
    ASSUME IInv, NEW k \in AllKinds, NEW i, RemoveCallback(k, i)
    PROVE  HookInv' /\ FiringInv'
<1>1. /\ regs[k] \in Seq(Callback) /\ regs \in [AllKinds -> Seq(Callback)] /\ i \in DOMAIN regs[k]
      /\ regs' = [regs EXCEPT ![k] = [regs[k] EXCEPT ![i] = [regs[k][i] EXCEPT !.active = FALSE]]]
  BY DEF IInv, TypeInv, RemoveCallback
<1>2. /\ DOMAIN regs'[k] = DOMAIN regs[k] /\ Len(regs'[k]) = Len(regs[k])
      /\ \A n \in DOMAIN regs[k] : n # i => regs'[k][n] = regs[k][n]
      /\ ~regs'[k][i].active
  <2>1. \A n \in DOMAIN regs[k] : regs[k][n] \in Callback
    BY <1>1
  <2>2. regs'[k] = [regs[k] EXCEPT ![i] = [regs[k][i] EXCEPT !.active = FALSE]]
    BY <1>1
  <2>3. regs'[k] \in Seq(Callback)
    BY RemoveTypes DEF IInv, TypeInv
  <2> QED BY <1>1, <2>1, <2>2, <2>3 DEF Callback
<1>3. \A j \in AllKinds : j # k => regs'[j] = regs[j]
  BY <1>1
<1>4. Active(k)' = Active(k) \ {i} /\ \A j \in AllKinds : j # k => Active(j)' = Active(j)
  BY <1>2, <1>3 DEF Active
<1>5. HookInv'
  <2>1. CASE hook' = hook
    BY <2>1, <1>4 DEF IInv, HookInv, RemoveCallback
  <2>2. CASE hook' # hook
    <3>1. Active(k) \subseteq {i} /\ ~Needed(k, users) /\ hook' = hook \ {k}
      BY <2>2 DEF RemoveCallback
    <3>2. "project" \in users => k # "exec" /\ k # "read"
      BY <3>1 DEF Needed
    <3>3. "profile" \in users => k # "exec"
      BY <3>1 DEF Needed
    <3> QED BY <1>4, <3>1, <3>2, <3>3 DEF IInv, HookInv, RemoveCallback
  <2> QED BY <2>1, <2>2
<1>6. firing \in Dispatch
  BY DEF IInv, TypeInv
<1>7. /\ firing'.kind = firing.kind /\ firing'.last = firing.last /\ firing'.at = firing.at
      /\ firing'.moved = firing.moved /\ firing'.copy = firing.copy /\ firing'.addr = firing.addr
      /\ firing'.due = IF firing.kind = k THEN firing.due \ {i} ELSE firing.due
  BY <1>6 DEF RemoveCallback, Dispatch
<1>8. ASSUME ~Idle
      PROVE  /\ firing'.due \subseteq Active(firing.kind)'
             /\ Len(regs'[firing.kind]) = Len(regs[firing.kind])
             /\ DOMAIN regs'[firing.kind] = DOMAIN regs[firing.kind]
             /\ \A n \in firing'.due : regs'[firing.kind][n] = regs[firing.kind][n] /\ n \in firing.due
  <2>1. firing.kind \in AllKinds /\ firing.due \subseteq Active(firing.kind)
    BY <1>6, <1>8 DEF Dispatch, Idle, IInv, FiringInv
  <2>2. \A n \in firing.due : n \in DOMAIN regs[firing.kind]
    BY <2>1 DEF Active
  <2> QED BY <2>1, <2>2, <1>2, <1>3, <1>4, <1>7
<1>9. FiringInv'
  BY <1>7, <1>8 DEF IInv, FiringInv, Idle
<1> QED BY <1>5, <1>9

\* No project, profile, tracer or PPU log takes a hook another one needs.
LEMMA UserKeeps ==
    ASSUME IInv, UserStep
    PROVE  HookInv'
<1>1. Quiet
  BY UserTypes DEF IInv
<1>2. \A k \in AllKinds : Active(k)' = Active(k)
  BY <1>1 DEF Quiet, Active
<1>3. CASE ProjectOpen \/ ProjectClose
  BY <1>2, <1>3 DEF IInv, HookInv, ProjectOpen, ProjectClose, TurnsOn, Turns
<1>4. CASE ProfileStart \/ ProfileStop
  BY <1>2, <1>4 DEF IInv, HookInv, ProfileStart, ProfileStop, TurnsOn, Turns
<1>5. CASE TracerStart \/ TracerStop
  BY <1>2, <1>5 DEF IInv, HookInv, TracerStart, TracerStop, TurnsOn, Turns
<1>6. CASE PpuWritesStart \/ PpuWritesStop
  BY <1>2, <1>6 DEF IInv, HookInv, PpuWritesStart, PpuWritesStop, TurnsOn, Turns
<1> QED BY <1>3, <1>4, <1>5, <1>6 DEF UserStep

\* What leaves callbacks and counts alone leaves their invariant alone.
LEMMA QuietCounts ==
    ASSUME CountInv, Quiet
    PROVE  CountInv'
BY DEF CountInv, Quiet, Heard, Active

\* What leaves users and hooks alone as well leaves theirs alone.
LEMMA QuietHooks ==
    ASSUME HookInv, Quiet, UNCHANGED <<hook, users, orphans>>
    PROVE  HookInv'
BY DEF HookInv, Quiet, Active

\* The same for the dispatch in progress.
LEMMA QuietFiring ==
    ASSUME FiringInv, Quiet, UNCHANGED firing
    PROVE  FiringInv'
BY DEF FiringInv, Quiet, Active, Idle

\* A dispatch begins with every active callback on the address due.
LEMMA AccessKeeps ==
    ASSUME IInv, NEW k \in AllKinds, NEW a \in Addrs, Access(k, a)
    PROVE  FiringInv'
<1>1. CASE UNCHANGED firing
  BY <1>1, QuietFiring DEF IInv, Access, Quiet
<1>2. CASE firing' = [NotFiring EXCEPT !.kind = k, !.addr = a, !.last = Len(regs[k]),
                         !.due = {i \in Active(k) : Covers(regs[k][i].range, a)}]
  <2>1. /\ firing'.kind = k /\ firing'.addr = a /\ firing'.at = 0 /\ ~firing'.moved
        /\ firing'.last = Len(regs[k])
        /\ firing'.due = {i \in Active(k) : Covers(regs[k][i].range, a)}
    BY <1>2 DEF NotFiring
  <2>2. regs' = regs /\ Active(k)' = Active(k) /\ Len(regs[k]) \in Nat
        /\ \A i \in Active(k) : i \in 1 .. Len(regs[k])
    BY DEF Access, Active, IInv, TypeInv
  <2> QED BY <2>1, <2>2 DEF FiringInv
<1> QED BY <1>1, <1>2 DEF Access

\* A callback that is due is among those the loop has yet to call.
LEMMA DueMatch ==
    ASSUME TypeInv, FiringInv, ~Idle, ~firing.moved
    PROVE  firing.due \subseteq Matching /\ \A i \in Matching : regs[firing.kind][i].active
<1>1. /\ firing.kind \in AllKinds /\ firing.last \in Nat /\ firing.at \in Nat
      /\ regs[firing.kind] \in Seq(Callback)
  BY DEF TypeInv, Dispatch, Idle
<1>2. Seen = regs[firing.kind] /\ End \in Nat /\ firing.last <= End
  BY <1>1 DEF Seen, End, FiringInv
<1>3. ASSUME NEW i \in firing.due
      PROVE  i \in Matching
  <2>1. /\ i \in Active(firing.kind) /\ firing.at < i /\ i <= firing.last
        /\ Covers(regs[firing.kind][i].range, firing.addr)
    BY DEF FiringInv
  <2>2. i \in Nat /\ regs[firing.kind][i].active
    BY <1>1, <2>1 DEF Active
  <2>3. i \in firing.at + 1 .. End
    BY <1>1, <1>2, <2>1, <2>2
  <2> QED BY <1>2, <2>1, <2>2, <2>3 DEF Matching
<1> QED BY <1>2, <1>3 DEF Matching

\* Calling the first one that matches passes over none that is due.
LEMMA FireKeeps ==
    ASSUME IInv, NEW i \in 1 .. HostBound, Fire(i)
    PROVE  FiringInv'
<1>1. firing \in Dispatch /\ ~Idle
  BY DEF IInv, TypeInv, Fire
<1>2. /\ firing'.kind = firing.kind /\ firing'.at = i /\ firing'.due = firing.due \ {i}
      /\ firing'.last = firing.last /\ firing'.moved = firing.moved /\ firing'.copy = firing.copy
      /\ firing'.addr = firing.addr
  BY <1>1 DEF Fire, Dispatch
<1>3. regs' = regs /\ \A j \in Matching : i <= j
  BY DEF Fire
<1>4. ASSUME ~firing.moved, NEW j \in firing'.due
      PROVE  i < j
  <2>1. j \in Matching /\ j # i /\ j \in firing.due /\ firing.due \subseteq Nat
    BY <1>1, <1>2, <1>4, DueMatch DEF IInv, Dispatch
  <2> QED BY <2>1, <1>3
<1>5. firing'.due \subseteq firing.due
  BY <1>2
<1>6. Active(firing.kind)' = Active(firing.kind)
  BY <1>2, <1>3 DEF Active
<1>10. /\ firing.due \subseteq Active(firing.kind)
       /\ firing.last <= Len(regs[firing.kind])
       /\ firing.moved => DOMAIN firing.copy \subseteq DOMAIN regs[firing.kind]
       /\ ~firing.moved =>
            \A j \in firing.due : /\ firing.at < j /\ j <= firing.last
                                  /\ Covers(regs[firing.kind][j].range, firing.addr)
  BY <1>1 DEF IInv, FiringInv
<1>7. /\ firing'.due \subseteq Active(firing.kind)'
      /\ firing'.last <= Len(regs'[firing'.kind])
      /\ firing'.moved => DOMAIN firing'.copy \subseteq DOMAIN regs'[firing'.kind]
  BY <1>2, <1>3, <1>5, <1>6, <1>10
<1>8. ASSUME ~firing'.moved, NEW j \in firing'.due
      PROVE  /\ firing'.at < j /\ j <= firing'.last
             /\ Covers(regs'[firing'.kind][j].range, firing'.addr)
  BY <1>2, <1>3, <1>4, <1>5, <1>8, <1>10 DEF Covers
<1> QED BY <1>7, <1>8 DEF FiringInv

\* After a destroy nobody waits for a hook.
LEMMA DestroyKeeps ==
    ASSUME IInv, Destroy
    PROVE  CountInv' /\ HookInv' /\ FiringInv'
<1>1. CountInv' /\ \A k \in AllKinds : Active(k)' = {}
  <2>1. \A k \in AllKinds : Active(k)' = {}
    BY DEF Destroy, Active
  <2>2. \A k \in AllKinds, p \in PageSet : Heard(k, p)' = {} /\ pages'[k][p] = 0
    BY <2>1 DEF Heard, Destroy
  <2>3. IsFiniteSet({}) /\ Cardinality({}) = 0
    BY FS_EmptySet
  <2>4. \A k \in AllKinds, p \in PageSet : pages'[k][p] = Cardinality(Heard(k, p))'
    BY <2>2, <2>3
  <2>5. \A k \in AllKinds, p \in PageSet : pages'[k][p] <= Cardinality(Heard(k, p))'
    BY <2>2, <2>3
  <2> QED BY <2>1, <2>3, <2>4, <2>5 DEF CountInv
<1>2. HookInv'
  BY <1>1 DEF HookInv, Destroy
<1>3. FiringInv'
  BY DEF Destroy, FiringInv, Idle
<1> QED BY <1>1, <1>2, <1>3

\* The invariant holds at first.
LEMMA InitKeeps == Init => IInv
<1> SUFFICES ASSUME Init PROVE IInv
  OBVIOUS
<1>1. CountInv /\ \A k \in AllKinds : Active(k) = {}
  BY EmptyCounts DEF Init
<1>2. TypeInv
  BY NotFiringType, EmptyRingType, SizesAssumption DEF Init, TypeInv
<1>3. HookInv
  BY <1>1 DEF HookInv, Init
<1>4. FiringInv
  BY DEF FiringInv, Init, Idle, NotFiring
<1> QED BY <1>1, <1>2, <1>3, <1>4 DEF IInv

\* Every action keeps the invariant.
LEMMA NextKeeps == IInv /\ [Next]_vars => IInv'
<1> SUFFICES ASSUME IInv, [Next]_vars PROVE IInv'
  OBVIOUS
<1>1. ASSUME NEW k \in Kinds, NEW range \in Ranges, AddCallback(k, range)
      PROVE  IInv'
  BY <1>1, KindsKnown, AddTypes, AddCounts, AddKeeps DEF IInv
<1>2. ASSUME NEW k \in Kinds, NEW i \in 1 .. HostBound, RemoveCallback(k, i)
      PROVE  IInv'
  BY <1>2, KindsKnown, RemoveTypes, RemoveCounts, RemoveKeeps DEF IInv
<1>3. ASSUME NEW k \in Kinds, NEW a \in Addrs, Access(k, a)
      PROVE  IInv'
  <2>1. Quiet /\ UNCHANGED <<hook, users, orphans>>
    BY <1>3 DEF Access, Quiet
  <2> QED BY <1>3, <2>1, KindsKnown, AccessTypes, AccessKeeps, QuietCounts, QuietHooks DEF IInv
<1>4. CASE UserStep
  BY <1>4, UserTypes, UserKeeps, QuietCounts, QuietFiring DEF IInv
<1>5. CASE TracerDrain
  <2>1. Quiet /\ UNCHANGED <<hook, users, orphans, firing>>
    BY <1>5 DEF TracerDrain, Quiet
  <2> QED BY <1>5, <2>1, DrainTypes, QuietCounts, QuietHooks, QuietFiring DEF IInv
<1>6. CASE Destroy
  BY <1>6, DestroyTypes, DestroyKeeps DEF IInv
<1>7. CASE (\E i \in 1 .. HostBound : Fire(i)) \/ Answer \/ FireEnds
  <2>1. TypeInv' /\ Quiet /\ UNCHANGED <<hook, users, orphans>>
    BY <1>7, FireTypes DEF IInv
  <2>2. FiringInv'
    <3>1. CASE \E i \in 1 .. HostBound : Fire(i)
      BY <3>1, FireKeeps
    <3>2. CASE Answer
      <4>1. firing \in Dispatch /\ FiringInv
        BY DEF IInv, TypeInv
      <4>2. /\ firing'.kind = firing.kind /\ firing'.due = firing.due /\ firing'.last = firing.last
            /\ firing'.moved = firing.moved /\ firing'.copy = firing.copy
            /\ firing'.at = firing.at /\ firing'.addr = firing.addr
        BY <3>2, <4>1 DEF Answer, Dispatch
      <4> QED BY <2>1, <4>1, <4>2 DEF FiringInv, Quiet, Active, Idle, Covers
    <3>3. CASE FireEnds
      BY <3>3 DEF FireEnds, FiringInv, Idle, NotFiring
    <3> QED BY <1>7, <3>1, <3>2, <3>3
  <2> QED BY <2>1, <2>2, QuietCounts, QuietHooks DEF IInv
<1>8. CASE UNCHANGED vars
  <2>1. Quiet /\ UNCHANGED <<hook, users, orphans, firing, ring>>
    BY <1>8 DEF vars, Quiet
  <2>2. TypeInv'
    BY <2>1 DEF IInv, TypeInv, Quiet
  <2> QED BY <2>1, <2>2, QuietCounts, QuietHooks, QuietFiring DEF IInv
<1> QED BY <1>1, <1>2, <1>3, <1>4, <1>5, <1>6, <1>7, <1>8 DEF Next, UserStep

-----------------------------------------------------------------------------
(* The tracer's ring *)

\* A position less than two rings on wraps once at most.
LEMMA RingWraps ==
    \A x \in 0 .. 2 * RingCap - 1 : x % RingCap = IF x < RingCap THEN x ELSE x - RingCap
BY SizesAssumption

\* Newest keeps the end of a sequence.
LEMMA NewestElements ==
    ASSUME NEW s \in Seq(Nat \X Nat), NEW n \in Nat
    PROVE  /\ Len(Newest(s, n)) = IF Len(s) > n THEN n ELSE Len(s)
           /\ \A i \in 1 .. Len(Newest(s, n)) :
                Newest(s, n)[i] = s[Len(s) - Len(Newest(s, n)) + i]
<1>1. CASE Len(s) > n
  <2> DEFINE m == Len(s) - n + 1
  <2>1. m \in 1 .. Len(s) + 1 /\ Len(s) \in Nat /\ Newest(s, n) = SubSeq(s, m, Len(s))
    BY <1>1 DEF Newest
  <2>2. Len(SubSeq(s, m, Len(s))) = IF m <= Len(s) THEN Len(s) - m + 1 ELSE 0
    <3> HIDE DEF m
    <3> QED BY <2>1, SubSeqProperties
  <2>3. \A i \in 1 .. Len(s) - m + 1 : SubSeq(s, m, Len(s))[i] = s[m + i - 1]
    <3> HIDE DEF m
    <3> QED BY <2>1, SubSeqProperties
  <2>4. Len(Newest(s, n)) = n
    BY <1>1, <2>1, <2>2
  <2>5. \A i \in 1 .. n : Newest(s, n)[i] = s[Len(s) - n + i]
    <3> TAKE i \in 1 .. n
    <3>1. i \in 1 .. Len(s) - m + 1 /\ m + i - 1 = Len(s) - n + i
      BY <2>1
    <3> QED BY <2>1, <2>3, <3>1
  <2> QED BY <1>1, <2>4, <2>5
<1>2. CASE ~ (Len(s) > n)
  <2>1. Newest(s, n) = s
    BY <1>2, SubSeqProperties DEF Newest
  <2> QED BY <1>2, <2>1
<1> QED BY <1>1, <1>2

\* Where the position of a byte held is, and where a byte put goes.
HeldAt(head, size, i) == (head + RingCap - size + i - 1) % RingCap
PutAt(head, i) == (head + i - 1) % RingCap

\* The bytes of one put go to places of their own in the ring.
LEMMA PutPlaces ==
    /\ \A h \in 0 .. RingCap - 1, i \in 1 .. RingCap :
        /\ PutAt(h, i) = IF h + i - 1 < RingCap THEN h + i - 1 ELSE h + i - 1 - RingCap
        /\ PutAt(h, i) \in 0 .. RingCap - 1
    /\ \A h \in 0 .. RingCap - 1, i, j \in 1 .. RingCap : PutAt(h, i) = PutAt(h, j) => i = j
<1>1. \A h \in 0 .. RingCap - 1, i \in 1 .. RingCap :
        PutAt(h, i) = IF h + i - 1 < RingCap THEN h + i - 1 ELSE h + i - 1 - RingCap
  BY RingWraps, SizesAssumption DEF PutAt
<1>2. \A h \in 0 .. RingCap - 1, i \in 1 .. RingCap : PutAt(h, i) \in 0 .. RingCap - 1
  BY <1>1, SizesAssumption
<1>3. \A h \in 0 .. RingCap - 1, i, j \in 1 .. RingCap : PutAt(h, i) = PutAt(h, j) => i = j
  BY <1>1, SizesAssumption
<1> QED BY <1>1, <1>2, <1>3

\* The bytes held are in the ring.
LEMMA HeldPlaces ==
    \A h \in 0 .. RingCap - 1, z \in 0 .. RingCap :
        \A i \in 1 .. z : HeldAt(h, z, i) \in 0 .. RingCap - 1
BY RingWraps, SizesAssumption DEF HeldAt

\* A put fills the ring at most.
LEMMA KeptSize ==
    ASSUME NEW z \in 0 .. RingCap, NEW m \in 0 .. RingCap
    PROVE  /\ z - Overflow(m, z) + m = IF z + m > RingCap THEN RingCap ELSE z + m
           /\ z - Overflow(m, z) + m \in 0 .. RingCap
BY SizesAssumption DEF Overflow

\* After a put of m bytes, of which the ring keeps the newest, the last m held
\* are where they were put and the ones before stayed where they were, apart
\* from those.
LEMMA Places ==
    ASSUME NEW h \in 0 .. RingCap - 1, NEW z \in 0 .. RingCap, NEW m \in 0 .. RingCap,
           NEW now \in 0 .. RingCap, now = z - Overflow(m, z) + m, NEW i \in 1 .. now
    PROVE  LET next == (h + m) % RingCap  kept == now - m IN
           /\ kept \in 0 .. z
           /\ i > kept => HeldAt(next, now, i) = PutAt(h, i - kept)
           /\ i <= kept => /\ HeldAt(next, now, i) = HeldAt(h, z, i + z - kept)
                           /\ \A j \in 1 .. m : PutAt(h, j) # HeldAt(next, now, i)
<1> DEFINE next == (h + m) % RingCap
           kept == now - m
<1>0. RingCap \in Nat \ {0}
  BY SizesAssumption
<1>1. now = IF z + m > RingCap THEN RingCap ELSE z + m
  BY <1>0 DEF Overflow
<1>2. kept \in 0 .. z
  BY <1>0, <1>1
<1>3. next = IF h + m < RingCap THEN h + m ELSE h + m - RingCap
  BY <1>0, RingWraps
<1>4. next \in 0 .. RingCap - 1
  BY <1>0, <1>3
<1>5. HeldAt(next, now, i) = LET x == next + RingCap - now + i - 1
                             IN  IF x < RingCap THEN x ELSE x - RingCap
  <2>1. next + RingCap - now + i - 1 \in 0 .. 2 * RingCap - 1
    <3> HIDE DEF next
    <3> QED BY <1>0, <1>4
  <2> HIDE DEF next
  <2> QED BY <2>1, RingWraps DEF HeldAt
<1>6. \A j \in 1 .. m : PutAt(h, j) = IF h + j - 1 < RingCap THEN h + j - 1 ELSE h + j - 1 - RingCap
  BY <1>0, RingWraps DEF PutAt
<1>7. ASSUME i > kept
      PROVE  HeldAt(next, now, i) = PutAt(h, i - kept)
  <2>1. i - kept \in 1 .. m
    BY <1>0, <1>1, <1>7
  <2>2. PutAt(h, i - kept) = IF h + (i - kept) - 1 < RingCap THEN h + (i - kept) - 1
                             ELSE h + (i - kept) - 1 - RingCap
    BY <2>1, <1>6
  <2> HIDE DEF next
  <2> QED BY <1>0, <1>3, <1>5, <2>1, <2>2
<1>8. ASSUME i <= kept
      PROVE  /\ HeldAt(next, now, i) = HeldAt(h, z, i + z - kept)
             /\ \A j \in 1 .. m : PutAt(h, j) # HeldAt(next, now, i)
  <2>1. h + RingCap - z + (i + z - kept) - 1 \in 0 .. 2 * RingCap - 1
    BY <1>0, <1>2, <1>8
  <2>2. HeldAt(h, z, i + z - kept) = LET x == h + RingCap - z + (i + z - kept) - 1
                                     IN  IF x < RingCap THEN x ELSE x - RingCap
    BY <2>1, RingWraps DEF HeldAt
  <2>3. HeldAt(next, now, i) = HeldAt(h, z, i + z - kept)
    <3> HIDE DEF next
    <3> QED BY <1>0, <1>2, <1>3, <1>5, <1>8, <2>2
  <2>4. ASSUME NEW j \in 1 .. m
        PROVE  PutAt(h, j) # HeldAt(next, now, i)
    <3>1. PutAt(h, j) = IF h + j - 1 < RingCap THEN h + j - 1 ELSE h + j - 1 - RingCap
      BY <1>6
    <3> HIDE DEF next
    <3> QED BY <1>0, <1>1, <1>3, <1>5, <1>8, <3>1
  <2> QED BY <2>3, <2>4
<1> QED BY <1>2, <1>7, <1>8

\* What a put writes and what it leaves alone.
LEMMA PutData ==
    ASSUME NEW r \in Rings, NEW line \in Seq(Nat \X Nat)
    PROVE  LET head == IF Len(line) >= RingCap THEN 0 ELSE r.head
               s    == Newest(line, RingCap)
               data == RingPut(r, line).data
           IN  /\ \A i \in 1 .. Len(s) : data[PutAt(head, i)] = s[i]
               /\ \A j \in 0 .. RingCap - 1 :
                    (\A i \in 1 .. Len(s) : PutAt(head, i) # j) => data[j] = r.data[j]
<1> DEFINE fits == IF Len(line) >= RingCap THEN [r EXCEPT !.head = 0, !.size = 0] ELSE r
           head == IF Len(line) >= RingCap THEN 0 ELSE r.head
           s == Newest(line, RingCap)
           at(i) == (fits.head + i - 1) % RingCap
           data == [j \in DOMAIN r.data |->
                     IF \E i \in DOMAIN s : at(i) = j
                     THEN s[CHOOSE i \in DOMAIN s : at(i) = j] ELSE r.data[j]]
<1>0. RingCap \in Nat \ {0}
  BY SizesAssumption
<1>1. RingPut(r, line).data = data
  BY DEF RingPut
<1>2. fits.head = head /\ head \in 0 .. RingCap - 1 /\ DOMAIN r.data = 0 .. RingCap - 1
  BY <1>0 DEF Rings
<1>3. \A i : at(i) = PutAt(head, i)
  BY <1>2 DEF PutAt
<1>4. DOMAIN s = 1 .. Len(s) /\ Len(s) \in 0 .. RingCap
  BY <1>0, NewestType
<1>5. \A i \in 1 .. Len(s) : i \in 1 .. RingCap
  BY <1>0, <1>4
<1>6. \A i, j \in 1 .. Len(s) : PutAt(head, i) = PutAt(head, j) => i = j
  <2> HIDE DEF head, s
  <2> QED BY <1>2, <1>5, PutPlaces
<1>7. ASSUME NEW i \in 1 .. Len(s)
      PROVE  data[PutAt(head, i)] = s[i]
  <2> HIDE DEF head, s, at, fits
  <2>1. PutAt(head, i) \in 0 .. RingCap - 1
    BY <1>2, <1>5, PutPlaces
  <2>2. (CHOOSE n \in DOMAIN s : at(n) = PutAt(head, i)) = i
    BY <1>3, <1>4, <1>6
  <2>3. \E n \in DOMAIN s : at(n) = PutAt(head, i)
    BY <1>3, <1>4
  <2> QED BY <1>2, <2>1, <2>2, <2>3
<1>8. ASSUME NEW j \in 0 .. RingCap - 1, \A i \in 1 .. Len(s) : PutAt(head, i) # j
      PROVE  data[j] = r.data[j]
  <2> HIDE DEF head, s, at, fits
  <2>1. ~ \E n \in DOMAIN s : at(n) = j
    BY <1>3, <1>4, <1>8
  <2> QED BY <1>2, <2>1
<1> HIDE DEF data, s, head
<1> QED BY <1>1, <1>7, <1>8 DEF s, head

\* Arithmetic: where a byte kept from the chunk is in everything traced.
LEMMA Regroups ==
    \A held, chunk, fit, now, i \in Nat :
        held + (chunk - fit + (i - (now - fit))) = held + chunk - now + i
OBVIOUS

\* A put appends its line to what is held, as far as the ring holds it.
LEMMA PutAppends ==
    ASSUME NEW r \in Rings, NEW line \in Seq(Nat \X Nat), NEW was \in Seq(Nat \X Nat),
           RingContents(r) = was
    PROVE  RingContents(RingPut(r, line)) = Newest(was \o line, RingCap)
<1> DEFINE full == Len(line) >= RingCap
           h == IF full THEN 0 ELSE r.head
           z == IF full THEN 0 ELSE r.size
           s == Newest(line, RingCap)
           m == Len(s)
           n == RingPut(r, line)
           all == was \o line
<1>0. RingCap \in Nat \ {0}
  BY SizesAssumption
<1>1. /\ h \in 0 .. RingCap - 1 /\ z \in 0 .. RingCap /\ m \in 0 .. RingCap
      /\ r.size \in 0 .. RingCap /\ Len(line) \in Nat
  BY <1>0, NewestType DEF Rings
<1>2. /\ n \in Rings /\ n.head = (h + m) % RingCap /\ n.size = z - Overflow(m, z) + m
  <2>1. n \in Rings
    BY RingPutType
  <2>2. n.head = (h + m) % RingCap /\ n.size = z - Overflow(m, z) + m
    BY DEF RingPut, Rings
  <2> QED BY <2>1, <2>2
<1>3. n.size \in 0 .. RingCap /\ n.size = IF z + m > RingCap THEN RingCap ELSE z + m
  <2> HIDE DEF h, z, m, n
  <2> QED BY <1>1, <1>2, KeptSize
<1>4. /\ Len(was) = r.size
      /\ \A i \in 1 .. r.size : was[i] = r.data[HeldAt(r.head, r.size, i)]
  <2>1. DOMAIN was = 1 .. r.size
    BY DEF RingContents
  <2>2. Len(was) = r.size
    BY <2>1, <1>1
  <2> QED BY <2>2 DEF RingContents, HeldAt
<1>5. /\ all \in Seq(Nat \X Nat) /\ Len(all) = r.size + Len(line)
      /\ \A i \in 1 .. r.size : all[i] = was[i]
      /\ \A i \in 1 .. Len(line) : all[r.size + i] = line[i]
  <2>1. /\ all \in Seq(Nat \X Nat) /\ Len(all) = Len(was) + Len(line)
        /\ \A i \in 1 .. Len(was) : all[i] = was[i]
        /\ \A i \in 1 .. Len(line) : all[Len(was) + i] = line[i]
    BY ConcatProperties
  <2> HIDE DEF all
  <2> QED BY <2>1, <1>4
<1>6. /\ m = IF Len(line) > RingCap THEN RingCap ELSE Len(line)
      /\ \A i \in 1 .. m : s[i] = line[Len(line) - m + i]
  BY <1>0, NewestElements
<1>7. Len(Newest(all, RingCap)) = n.size
  <2>1. Len(Newest(all, RingCap)) = IF Len(all) > RingCap THEN RingCap ELSE Len(all)
    BY <1>0, <1>5, NewestElements
  <2>2. n.size = IF z + m > RingCap THEN RingCap ELSE z + m
    BY <1>3
  <2>3. m = IF Len(line) > RingCap THEN RingCap ELSE Len(line)
    BY <1>6
  <2>4. Len(all) = r.size + Len(line)
    BY <1>5
  <2>5. z = IF full THEN 0 ELSE r.size
    OBVIOUS
  <2> HIDE DEF m, n, all, z
  <2> QED BY <1>0, <1>1, <2>1, <2>2, <2>3, <2>4, <2>5
<1>8. ASSUME NEW i \in 1 .. n.size
      PROVE  RingContents(n)[i] = all[Len(all) - n.size + i]
  <2> DEFINE kept == n.size - m
             place == HeldAt(n.head, n.size, i)
  <2>1. RingContents(n)[i] = n.data[place]
    BY DEF RingContents, HeldAt
  <2>2. /\ kept \in 0 .. z
        /\ i > kept => place = PutAt(h, i - kept)
        /\ i <= kept => /\ place = HeldAt(h, z, i + z - kept)
                        /\ \A j \in 1 .. m : PutAt(h, j) # place
    <3>1. /\ h \in 0 .. RingCap - 1 /\ z \in 0 .. RingCap /\ m \in 0 .. RingCap
          /\ n.size \in 0 .. RingCap /\ n.size = z - Overflow(m, z) + m
          /\ n.head = (h + m) % RingCap
      BY <1>1, <1>2, <1>3
    <3> HIDE DEF h, z, m, n
    <3> DEFINE now == n.size
    <3>2. now \in 0 .. RingCap /\ now = z - Overflow(m, z) + m /\ i \in 1 .. now
      BY <3>1
    <3> HIDE DEF now
    <3>3. /\ now - m \in 0 .. z
          /\ i > now - m => HeldAt((h + m) % RingCap, now, i) = PutAt(h, i - (now - m))
          /\ i <= now - m => /\ HeldAt((h + m) % RingCap, now, i) = HeldAt(h, z, i + z - (now - m))
                             /\ \A j \in 1 .. m : PutAt(h, j) # HeldAt((h + m) % RingCap, now, i)
      BY <3>1, <3>2, Places
    <3> QED BY <3>1, <3>3 DEF now
  <2>3. /\ \A j \in 1 .. m : n.data[PutAt(h, j)] = s[j]
        /\ \A j \in 0 .. RingCap - 1 :
            (\A k \in 1 .. m : PutAt(h, k) # j) => n.data[j] = r.data[j]
    BY PutData
  <2>4. CASE i > kept
    <3>1. i - kept \in 1 .. m
      <4> HIDE DEF h, z, m, n
      <4> QED BY <1>1, <1>3, <2>2, <2>4
    <3>2. RingContents(n)[i] = s[i - kept]
      BY <2>1, <2>2, <2>3, <2>4, <3>1
    <3>3. s[i - kept] = line[Len(line) - m + (i - kept)]
      BY <1>6, <3>1
    <3>4. /\ Len(line) - m + (i - kept) \in 1 .. Len(line)
          /\ r.size + (Len(line) - m + (i - kept)) = Len(all) - n.size + i
      <4>1. /\ Len(all) = r.size + Len(line) /\ n.size \in Nat
            /\ m \in Nat /\ m <= Len(line) /\ Len(line) \in Nat /\ r.size \in Nat
        BY <1>0, <1>1, <1>3, <1>5, <1>6
      <4>2. i \in Nat /\ kept \in Int
        BY <4>1
      <4>3. Len(line) - m + (i - kept) \in 1 .. Len(line)
        <5> HIDE DEF h, z, m, n, all, kept
        <5> QED BY <3>1, <4>1, <4>2
      <4>4. r.size + (Len(line) - m + (i - (n.size - m))) = r.size + Len(line) - n.size + i
        <5> HIDE DEF h, z, m, n, all
        <5>1. n.size \in Nat /\ m \in Nat /\ Len(line) \in Nat /\ r.size \in Nat /\ i \in Nat
          BY <4>1, <4>2
        <5> QED BY <5>1, Regroups
      <4>5. r.size + (Len(line) - m + (i - kept)) = Len(all) - n.size + i
        <5>1. r.size + Len(line) - n.size + i = Len(all) - n.size + i
          <6> HIDE DEF h, z, m, n, all
          <6> QED BY <4>1
        <5>2. r.size + (Len(line) - m + (i - kept)) = r.size + Len(line) - n.size + i
          <6> HIDE DEF h, z, m, n, all
          <6> QED BY <4>4
        <5> QED BY <5>1, <5>2
      <4> QED BY <4>3, <4>5
    <3> QED BY <1>5, <3>2, <3>3, <3>4
  <2>5. CASE ~ (i > kept)
    <3>1. i <= kept /\ i + z - kept \in 1 .. z
      <4> HIDE DEF h, z, m, n
      <4> QED BY <1>1, <1>3, <2>2, <2>5
    <3>2. ~full
      BY <3>1
    <3>3. h = r.head /\ z = r.size /\ m = Len(line)
      BY <3>2, <1>0, <1>1, <1>6
    <3>4. place \in 0 .. RingCap - 1
      <4>1. n.head \in 0 .. RingCap - 1
        BY <1>2 DEF Rings
      <4> HIDE DEF n
      <4> QED BY <1>3, <4>1, HeldPlaces
    <3>5. n.data[place] = r.data[place]
      BY <2>2, <2>3, <3>1, <3>4
    <3>6. r.data[place] = was[i + z - kept]
      BY <1>4, <2>2, <3>1, <3>3
    <3>7. i + z - kept = Len(all) - n.size + i
      <4> HIDE DEF h, z, m, n, all
      <4> QED BY <1>1, <1>3, <1>5, <3>3
    <3> QED BY <1>5, <2>1, <3>1, <3>3, <3>5, <3>6, <3>7
  <2> QED BY <2>4, <2>5
<1>9. \A i \in 1 .. n.size : Newest(all, RingCap)[i] = all[Len(all) - n.size + i]
  <2>1. all \in Seq(Nat \X Nat)
    BY <1>5
  <2>2. \A i \in 1 .. Len(Newest(all, RingCap)) :
            Newest(all, RingCap)[i] = all[Len(all) - Len(Newest(all, RingCap)) + i]
    <3> HIDE DEF all
    <3> QED BY <1>0, <2>1, NewestElements
  <2> HIDE DEF n, all
  <2> QED BY <1>7, <2>2
<1>10. /\ Newest(all, RingCap) \in Seq(Nat \X Nat)
       /\ DOMAIN RingContents(n) = 1 .. n.size /\ DOMAIN Newest(all, RingCap) = 1 .. n.size
  <2>1. all \in Seq(Nat \X Nat)
    BY <1>5
  <2>2. DOMAIN RingContents(n) = 1 .. n.size
    BY DEF RingContents
  <2>3. Newest(all, RingCap) \in Seq(Nat \X Nat)
    <3> HIDE DEF all
    <3> QED BY <1>0, <2>1, NewestType
  <2>4. DOMAIN Newest(all, RingCap) = 1 .. n.size
    <3> HIDE DEF n, all
    <3> QED BY <1>7, <2>3
  <2> QED BY <2>2, <2>3, <2>4
<1>11. RingContents(n) = [i \in 1 .. n.size |-> RingContents(n)[i]]
  BY DEF RingContents
<1>12. Newest(all, RingCap) = [i \in 1 .. n.size |-> Newest(all, RingCap)[i]]
  BY <1>10
<1>13. \A i \in 1 .. n.size : RingContents(n)[i] = Newest(all, RingCap)[i]
  BY <1>8, <1>9
<1>14. RingContents(n) = Newest(all, RingCap)
  <2> HIDE DEF n, all
  <2> QED BY <1>11, <1>12, <1>13
<1> QED BY <1>14

\* What a trace leaves in the ring is what it leaves in the log.
TraceInv == log \in Seq(Nat \X Nat) /\ TraceKeepsNewest

\* A cleared ring gives nothing back.
LEMMA EmptyTrace == RingContents(EmptyRing) = <<>>
BY DEF RingContents, EmptyRing

\* Nor does a drained one.
LEMMA DrainedTrace ==
    ASSUME NEW r \in Rings
    PROVE  RingContents([r EXCEPT !.head = 0, !.size = 0]) = <<>>
<1>1. [r EXCEPT !.head = 0, !.size = 0].size = 0
  BY DEF Rings
<1> DEFINE e == [r EXCEPT !.head = 0, !.size = 0]
<1>2. RingContents(e) = [i \in 1 .. 0 |-> e.data[(e.head + RingCap - e.size + i - 1) % RingCap]]
  BY <1>1 DEF RingContents
<1> QED BY <1>2

\* Every action keeps ring and log in step.
LEMMA TraceKeeps ==
    ASSUME TypeInv, TraceInv, [Next]_vars
    PROVE  TraceInv'
<1>1. CASE UNCHANGED <<ring, log>>
  BY <1>1 DEF TraceInv, TraceKeepsNewest, RingContents
<1>2. CASE ring' = EmptyRing /\ log' = <<>>
  BY <1>2, EmptyTrace DEF TraceInv, TraceKeepsNewest
<1>3. CASE TracerDrain
  <2>1. ring \in Rings /\ ring' = [ring EXCEPT !.head = 0, !.size = 0] /\ log' = <<>>
    BY <1>3 DEF TypeInv, TracerDrain
  <2>2. RingContents(ring') = <<>>
    BY <2>1, DrainedTrace
  <2>3. RingContents(ring') = log' /\ log' \in Seq(Nat \X Nat)
    BY <2>1, <2>2
  <2> QED BY <2>3 DEF TraceInv, TraceKeepsNewest
<1>4. ASSUME NEW a \in Addrs, ring' = RingPut(ring, LineOf(a)),
             log' = Newest(log \o LineOf(a), RingCap)
      PROVE  TraceInv'
  <2>1. LineOf(a) \in Seq(Nat \X Nat) /\ ring \in Rings /\ log \in Seq(Nat \X Nat)
    BY LineOfType DEF TypeInv, TraceInv
  <2>2. RingContents(ring) = log
    BY DEF TraceInv, TraceKeepsNewest
  <2>3. RingContents(RingPut(ring, LineOf(a))) = Newest(log \o LineOf(a), RingCap)
    BY <2>1, <2>2, PutAppends
  <2>4. log \o LineOf(a) \in Seq(Nat \X Nat) /\ RingCap \in Nat
    BY <2>1, SizesAssumption
  <2>5. log' \in Seq(Nat \X Nat)
    BY <1>4, <2>4, NewestType
  <2> QED BY <1>4, <2>3, <2>5 DEF TraceInv, TraceKeepsNewest
<1>5. ASSUME NEW k \in Kinds, NEW a \in Addrs, Access(k, a)
      PROVE  TraceInv'
  BY <1>1, <1>4, <1>5 DEF Access, Traces
<1>6. CASE UserStep
  BY <1>1, <1>2, <1>6 DEF UserStep, ProjectOpen, ProjectClose, ProfileStart, ProfileStop,
     TracerStart, TracerStop, PpuWritesStart, PpuWritesStop
<1>7. ASSUME NEW k \in Kinds,
             \/ \E range \in Ranges : AddCallback(k, range)
             \/ \E i \in 1 .. HostBound : RemoveCallback(k, i)
      PROVE  UNCHANGED <<ring, log>>
  BY <1>7 DEF AddCallback, RemoveCallback
<1>8. CASE Destroy \/ (\E i \in 1 .. HostBound : Fire(i)) \/ Answer \/ FireEnds
  BY <1>1, <1>8 DEF Destroy, Fire, Answer, FireEnds
<1>9. CASE UNCHANGED vars
  BY <1>1, <1>9 DEF vars
<1> QED BY <1>1, <1>3, <1>5, <1>6, <1>7, <1>8, <1>9 DEF Next, UserStep

-----------------------------------------------------------------------------
(* Theorems *)

\* Every reachable state is in the inductive invariant.
THEOREM Invariant == Spec => []IInv
BY InitKeeps, NextKeeps, PTL DEF Spec

\* Lists, counts, hooks and the dispatch keep their types, and no page is
\* counted by more callbacks than there are (kintsuki_add_*_callback,
\* kintsuki_remove_callback and the dispatchers of libkintsuki.cpp).
THEOREM TypeCorrect == Spec => []TypeOK
<1>1. IInv => TypeOK
  <2> SUFFICES ASSUME IInv PROVE TypeOK
    OBVIOUS
  <2>1. ASSUME NEW k \in AllKinds
        PROVE  /\ regs[k] \in Seq(Callback) /\ clamped[k] \subseteq PageSet
               /\ pages[k] \in [PageSet -> 0 .. PageCap]
    BY DEF IInv, TypeInv
  <2>2. ASSUME NEW k \in AllKinds, NEW p \in PageSet
        PROVE  pages[k][p] <= Cardinality(Active(k))
    <3>1. /\ pages[k][p] \in 0 .. PageCap /\ PageCap \in Nat
          /\ pages[k][p] <= Cardinality(Heard(k, p))
      BY <2>1, SizesAssumption DEF IInv, CountInv
    <3>2. /\ Cardinality(Heard(k, p)) \in Nat /\ Cardinality(Active(k)) \in Nat
          /\ Cardinality(Heard(k, p)) <= Cardinality(Active(k))
      BY HeardIsFinite, FS_CardinalityType DEF IInv
    <3> QED BY <3>1, <3>2
  <2>3. /\ hook \subseteq AllKinds /\ orphans \subseteq users /\ users \subseteq Users
        /\ ring.head \in 0 .. RingCap - 1 /\ ring.size \in 0 .. RingCap
        /\ firing.kind \in AllKinds \cup {"none"} /\ firing.at \in 0 .. HostBound
    BY DEF IInv, TypeInv, Rings, Dispatch
  <2>4. ~Idle => /\ firing.due \subseteq Active(firing.kind)
                 /\ firing.moved => \A i \in DOMAIN firing.copy : i \in DOMAIN regs[firing.kind]
    BY DEF IInv, FiringInv
  <2> QED BY <2>1, <2>2, <2>3, <2>4 DEF TypeOK
<1> QED BY <1>1, Invariant, PTL

\* Nothing that was asked for goes unheard: whoever is active has its hook armed
\* and its pages counted exactly, however callbacks, projects and profiles come
\* and go.
THEOREM ReachableTheorem == Spec => []Reachable
<1>1. IInv => Reachable
  <2> SUFFICES ASSUME IInv PROVE Reachable
    OBVIOUS
  <2>1. \A k \in AllKinds : \A p \in PageSet \ clamped[k] :
            pages[k][p] = Cardinality({i \in Active(k) : p \in Spans(regs[k][i].range)})
    BY DEF IInv, CountInv, Heard
  <2> QED BY <2>1 DEF IInv, HookInv, Reachable
<1> QED BY <1>1, Invariant, PTL

\* A dispatch calls every callback that is due and none that is not active, even
\* if callbacks register and remove others on the way.
THEOREM DispatchTheorem == Spec => DispatchIsComplete
<1> DEFINE Complete ==
      ~Idle /\ ~firing.moved =>
        /\ firing'.kind = "none" /\ ~firing.won => firing.due = {}
        /\ firing'.kind # "none" /\ firing'.at # firing.at =>
                regs[firing.kind][firing'.at].active
<1>1. IInv /\ [Next]_vars => [Complete]_vars
  <2> SUFFICES ASSUME IInv, Next, ~Idle, ~firing.moved PROVE Complete
    OBVIOUS
  <2>0. firing \in Dispatch /\ firing.kind # "none"
    BY DEF IInv, TypeInv, Idle
  <2>1. ASSUME NEW k \in Kinds, NEW range \in Ranges, AddCallback(k, range)
        PROVE  firing'.kind = firing.kind /\ firing'.at = firing.at
    BY <2>0, <2>1 DEF AddCallback, Moves, Dispatch
  <2>2. ASSUME NEW k \in Kinds, NEW i \in 1 .. HostBound, RemoveCallback(k, i)
        PROVE  firing'.kind = firing.kind /\ firing'.at = firing.at
    BY <2>0, <2>2 DEF RemoveCallback, Dispatch
  <2>3. CASE UserStep \/ TracerDrain
    BY <2>0, <2>3, UserTypes DEF IInv, TracerDrain
  <2>4. ASSUME (\E k \in Kinds, a \in Addrs : Access(k, a)) \/ Destroy
        PROVE  FALSE
    BY <2>4 DEF Access, Destroy
  <2>5. ASSUME NEW i \in 1 .. HostBound, Fire(i)
        PROVE  Complete
    <3>1. firing'.kind = firing.kind /\ firing'.at = i
      BY <2>0, <2>5 DEF Fire, Dispatch
    <3>2. regs[firing.kind][i].active
      BY <2>5, DueMatch DEF IInv, Fire
    <3> QED BY <2>0, <3>1, <3>2
  <2>6. CASE Answer
    BY <2>0, <2>6 DEF Answer, Dispatch
  <2>7. CASE FireEnds
    <3>1. firing'.kind = "none"
      BY <2>7 DEF FireEnds, NotFiring
    <3>2. ~firing.won => firing.due = {}
      BY <2>7, DueMatch DEF IInv, FireEnds
    <3> QED BY <3>1, <3>2
  <2> QED BY <2>0, <2>1, <2>2, <2>3, <2>4, <2>5, <2>6, <2>7 DEF Next, UserStep
<1>2. Spec => [][Complete]_vars
  BY <1>1, Invariant, PTL DEF Spec
<1> QED BY <1>2 DEF DispatchIsComplete

\* What the tracer's ring gives back is the newest bytes traced, in order,
\* whatever the lines' lengths and wherever the ring wraps (tracerAppendBytes).
THEOREM TraceTheorem == Spec => []TraceKeepsNewest
<1>1. Init => TraceInv
  BY EmptyTrace DEF Init, TraceInv, TraceKeepsNewest
<1>2. IInv /\ TraceInv /\ [Next]_vars => TraceInv'
  BY TraceKeeps DEF IInv
<1>3. TraceInv => TraceKeepsNewest
  BY DEF TraceInv
<1> QED BY <1>1, <1>2, <1>3, Invariant, PTL DEF Spec

=============================================================================
