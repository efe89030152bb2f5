-------------------------- MODULE AudioRingProofs --------------------------
(***************************************************************************)
(* Proofs about AudioRing: for every size of the ring, wrap of the indices *)
(* and pattern of requests, the two threads keep to cells of their own and *)
(* together implement the bounded queue of AudioQueue.                     *)
(***************************************************************************)
EXTENDS AudioRing, SequenceTheorems, TLAPS

-----------------------------------------------------------------------------
(* Arithmetic of the indices *)

\* The number of frames between two indices.
LEMMA FillRange ==
    \A w, rd \in 0 .. Wrap - 1 :
        /\ Fill(w, rd) = IF w >= rd THEN w - rd ELSE w - rd + Wrap
        /\ Fill(w, rd) \in 0 .. Wrap - 1
  BY WrapAssumption DEF Fill

\* What remains of an index advanced by no more than Wrap.
LEMMA Advance ==
    \A i \in 0 .. Wrap - 1, n \in 0 .. Wrap :
        /\ (i + n) % Wrap = IF i + n < Wrap THEN i + n ELSE i + n - Wrap
        /\ (i + n) % Wrap \in 0 .. Wrap - 1
  BY WrapAssumption

\* A remainder is what is left after any multiple.
LEMMA Remainder ==
    ASSUME NEW m \in Nat \ {0}, NEW p \in Int, NEW s \in 0 .. m - 1
    PROVE  (m * p + s) % m = s
  OBVIOUS

LEMMA Division ==
    ASSUME NEW m \in Nat \ {0}, NEW x \in Int, NEW p, p = x \div m, NEW s, s = x % m
    PROVE  x = p * m + s /\ p \in Int /\ s \in 0 .. m - 1
  <1>1. p \in Int /\ s \in 0 .. m - 1
    OBVIOUS
  <1>2. x = p * m + s
    BY SMTT(30)
  <1> QED
    BY <1>1, <1>2

\* Every number is a multiple and a remainder.
LEMMA Quotient ==
    ASSUME NEW m \in Nat \ {0}, NEW x \in Int
    PROVE  \E p \in Int, s \in 0 .. m - 1 : x = m * p + s
  <1>1. PICK p, s : p = x \div m /\ s = x % m
    OBVIOUS
  <1>2. x = p * m + s /\ p \in Int /\ s \in 0 .. m - 1
    BY <1>1, Division
  <1>3. p * m = m * p
    BY <1>2
  <1> QED
    BY <1>2, <1>3

\* Wrapping an index leaves its cell alone: the ring divides the range.
LEMMA CellWraps == \A x \in Nat : Cell(x + Wrap) = Cell(x) /\ Cell(x) \in 0 .. RingFrames - 1
  <1> TAKE x \in Nat
  <1>1. RingFrames \in Nat \ {0} /\ Wrap \in Int /\ x \in Int
    BY RingAssumption, WrapAssumption
  <1>2. PICK q \in Int, t \in 0 .. RingFrames - 1 : Wrap = RingFrames * q + t
    BY <1>1, Quotient, Zenon
  <1>3. t = 0
    BY <1>1, <1>2, Remainder, WrapAssumption
  <1>4. PICK p \in Int, s \in 0 .. RingFrames - 1 : x = RingFrames * p + s
    BY <1>1, Quotient, Zenon
  <1>5. x + Wrap = RingFrames * (p + q) + s
    BY <1>1, <1>2, <1>3, <1>4
  <1>6. x % RingFrames = s
    BY <1>1, <1>4, Remainder
  <1>7. (RingFrames * (p + q) + s) % RingFrames = s
    BY <1>1, Remainder
  <1> QED
    BY <1>5, <1>6, <1>7 DEF Cell

\* Indices less than a ring apart have cells of their own.
LEMMA CellsApart ==
    \A x \in Nat, d \in 1 .. RingFrames - 1 : Cell(x + d) # Cell(x)
  <1> TAKE x \in Nat, d \in 1 .. RingFrames - 1
  <1>1. RingFrames \in Nat \ {0} /\ x \in Int
    BY RingAssumption
  <1>2. PICK p \in Int, s \in 0 .. RingFrames - 1 : x = RingFrames * p + s
    BY <1>1, Quotient, Zenon
  <1>3. x % RingFrames = s
    BY <1>1, <1>2, Remainder
  <1>4. CASE s + d < RingFrames
    <2> DEFINE u == s + d
    <2>1. x + d = RingFrames * p + u /\ u \in 0 .. RingFrames - 1
      BY <1>1, <1>2, <1>4
    <2> HIDE DEF u
    <2>2. (RingFrames * p + u) % RingFrames = u
      BY <1>1, <2>1, Remainder
    <2> QED
      BY <1>1, <1>3, <2>1, <2>2 DEF Cell, u
  <1>5. CASE s + d >= RingFrames
    <2> DEFINE u == s + d - RingFrames
               k == p + 1
    <2>1. x + d = RingFrames * k + u /\ u \in 0 .. RingFrames - 1 /\ k \in Int
      BY <1>1, <1>2, <1>5
    <2> HIDE DEF u, k
    <2>2. (RingFrames * k + u) % RingFrames = u
      BY <1>1, <2>1, Remainder
    <2> QED
      BY <1>1, <1>3, <2>1, <2>2 DEF Cell, u
  <1> QED
    BY <1>1, <1>4, <1>5

-----------------------------------------------------------------------------
(* The inductive invariant *)

\* Frames between the two indices, and the i-th of them.
Level == Fill(audioWriteIdx, audioReadIdx)

Waiting(i) == audioRing[Cell(audioReadIdx + i)]

Pushing == emu.at # "idle"
Reading == device.at \in {"copy", "right"}

\* Both indices are in range and the ring is never more than full.
RingInv ==
    /\ audioRing \in [0 .. RingFrames - 1 -> Frames]
    /\ audioWriteIdx \in 0 .. Wrap - 1
    /\ audioReadIdx \in 0 .. Wrap - 1
    /\ Level <= RingFrames
    /\ audioEnabled \in BOOLEAN /\ running \in BOOLEAN
    /\ produced \in 0 .. PushBound /\ since \in 0 .. produced
    /\ delivered \in Seq(Frames)

\* A frame being pushed goes to a free cell, and what was stored of it is there.
EmuInv ==
    /\ emu \in [at : {"idle", "left", "right", "publish"}, w : 0 .. Wrap - 1]
    /\ Pushing => emu.w = audioWriteIdx /\ Level < RingFrames /\ since < produced
    /\ emu.at \in {"right", "publish"} => audioRing[Cell(emu.w)].l = produced
    /\ emu.at = "publish" => audioRing[Cell(emu.w)].r = produced

DeviceType ==
    device \in [at : {"idle", "write", "copy", "right"}, frames : Requests \cup {0},
                rd : 0 .. Wrap - 1, n : 0 .. RingFrames, out : Seq(Frames)]

\* The callback runs while the engine does and asks for no more than there is.
DeviceBounds ==
    /\ device.at # "idle" => running /\ device.rd = audioReadIdx
    /\ ~Reading => device.out = << >>
    /\ Reading => device.n <= Level /\ Len(device.out) <= device.n
    /\ device.at = "right" => Len(device.out) > 0

\* What it copied is still in the ring.
CopiedInv ==
    \A i \in 1 .. Len(device.out) :
        /\ device.out[i].l = Waiting(i - 1).l
        /\ i < Len(device.out) \/ device.at = "copy" => device.out[i].r = Waiting(i - 1).r

DeviceInv == DeviceType /\ DeviceBounds /\ CopiedInv

\* The frames waiting are whole, in order, and newer than the last flush.
WaitingInv ==
    /\ \A i \in 0 .. Level - 1 :
          /\ Waiting(i).l = Waiting(i).r
          /\ since < Waiting(i).l /\ Waiting(i).l <= produced
          /\ Pushing => Waiting(i).l < produced
    /\ \A i, j \in 0 .. Level - 1 : i < j => Waiting(i).l < Waiting(j).l

IInv == RingInv /\ EmuInv /\ DeviceInv /\ WaitingInv

-----------------------------------------------------------------------------
(* Cells *)

\* The write index is Level cells after the read index.
LEMMA Tip ==
    ASSUME RingInv
    PROVE  /\ Level \in 0 .. RingFrames
           /\ Cell(audioWriteIdx) = Cell(audioReadIdx + Level)
           /\ \A i \in Nat : Cell(audioReadIdx + i) \in 0 .. RingFrames - 1
  <1>1. /\ audioWriteIdx \in 0 .. Wrap - 1 /\ audioReadIdx \in 0 .. Wrap - 1
        /\ Level <= RingFrames
        /\ Wrap \in Nat /\ RingFrames \in Nat
    BY RingAssumption, WrapAssumption DEF RingInv
  <1>2. /\ Level = IF audioWriteIdx >= audioReadIdx THEN audioWriteIdx - audioReadIdx
                   ELSE audioWriteIdx - audioReadIdx + Wrap
        /\ Level \in 0 .. Wrap - 1
    BY <1>1, FillRange DEF Level
  <1>3. \A i \in Nat : Cell(audioReadIdx + i) \in 0 .. RingFrames - 1
    BY <1>1, CellWraps
  <1>4. audioReadIdx + Level = audioWriteIdx \/ audioReadIdx + Level = audioWriteIdx + Wrap
    BY <1>1, <1>2
  <1>5. Cell(audioWriteIdx + Wrap) = Cell(audioWriteIdx)
    BY <1>1, CellWraps
  <1>6. Cell(audioWriteIdx) = Cell(audioReadIdx + Level)
    BY <1>4, <1>5
  <1> QED
    BY <1>1, <1>2, <1>3, <1>6

\* Cells within one ring's length of each other are distinct.
LEMMA Distinct ==
    \A x \in Nat, i, j \in 0 .. RingFrames - 1 : i # j => Cell(x + i) # Cell(x + j)
  <1> TAKE x \in Nat, i, j \in 0 .. RingFrames - 1
  <1>1. RingFrames \in Nat
    BY RingAssumption
  <1>2. ASSUME NEW m \in 0 .. RingFrames - 1, NEW n \in 0 .. RingFrames - 1, m < n
        PROVE  Cell(x + m) # Cell(x + n)
    <2>1. x + m \in Nat /\ n - m \in 1 .. RingFrames - 1 /\ (x + m) + (n - m) = x + n
      BY <1>1, <1>2
    <2> QED
      BY <2>1, CellsApart
  <1> QED
    BY <1>1, <1>2

\* A store to the cell being pushed leaves the frames waiting alone.
LEMMA StoreApart ==
    ASSUME RingInv, Level < RingFrames, NEW v,
           audioRing' = [audioRing EXCEPT ![Cell(audioWriteIdx)] = v],
           audioReadIdx' = audioReadIdx
    PROVE  \A i \in 0 .. Level - 1 : Waiting(i)' = Waiting(i)
  <1> SUFFICES ASSUME NEW i \in 0 .. Level - 1
               PROVE  Waiting(i)' = Waiting(i)
    OBVIOUS
  <1>1. /\ Level \in 0 .. RingFrames - 1 /\ i \in 0 .. RingFrames - 1 /\ i # Level
        /\ audioReadIdx \in Nat
    BY Tip, RingAssumption, WrapAssumption DEF RingInv
  <1>2. Cell(audioReadIdx + i) # Cell(audioReadIdx + Level)
    BY <1>1, Distinct
  <1>3. /\ Cell(audioWriteIdx) = Cell(audioReadIdx + Level)
        /\ Cell(audioReadIdx + i) \in 0 .. RingFrames - 1
    BY <1>1, Tip
  <1>4. audioRing'[Cell(audioReadIdx + i)] = audioRing[Cell(audioReadIdx + i)]
    BY <1>2, <1>3 DEF RingInv
  <1> QED
    BY <1>4 DEF Waiting

-----------------------------------------------------------------------------
(* The consumer *)

\* While the shared memory stays as it is, so does what is waiting in it.
LEMMA Untouched ==
    ASSUME IInv,
           UNCHANGED <<audioRing, audioWriteIdx, audioReadIdx, audioEnabled, emu,
                       running, produced, since, delivered>>
    PROVE  /\ RingInv' /\ EmuInv' /\ WaitingInv'
           /\ Level' = Level /\ \A i \in Nat : Waiting(i)' = Waiting(i)
  <1>1. Level' = Level /\ \A i \in Nat : Waiting(i)' = Waiting(i)
    BY DEF Level, Waiting
  <1>2. RingInv'
    BY <1>1 DEF IInv, RingInv
  <1>3. EmuInv'
    BY <1>1 DEF IInv, EmuInv, Pushing
  <1>4. Level \in Nat
    BY Tip, RingAssumption DEF IInv
  <1>5. WaitingInv'
    BY <1>1, <1>4 DEF IInv, WaitingInv, Pushing
  <1> QED
    BY <1>1, <1>2, <1>3, <1>5

LEMMA ReadBeginKeeps ==
    ASSUME IInv, NEW frames \in Requests, ReadBegin(frames) PROVE IInv'
  <1>1. RingInv' /\ EmuInv' /\ WaitingInv' /\ Level' = Level
    BY Untouched DEF ReadBegin
  <1>2. device' = [at |-> "write", frames |-> frames, rd |-> audioReadIdx, n |-> 0, out |-> << >>]
    BY DEF ReadBegin, IdleDevice
  <1>3. audioReadIdx \in 0 .. Wrap - 1 /\ 0 \in 0 .. RingFrames /\ << >> \in Seq(Frames)
    BY RingAssumption DEF IInv, RingInv
  <1>4. DeviceType'
    BY <1>2, <1>3 DEF DeviceType
  <1>5. DeviceBounds'
    <2>1. /\ device'.at = "write" /\ device'.rd = audioReadIdx /\ device'.out = << >>
          /\ ~Reading'
      BY <1>2 DEF Reading
    <2>2. running' /\ audioReadIdx' = audioReadIdx
      BY Zenon DEF ReadBegin
    <2> QED
      BY <2>1, <2>2 DEF DeviceBounds
  <1>6. Len(device'.out) = 0
    BY <1>2
  <1>7. CopiedInv'
    BY <1>6 DEF CopiedInv
  <1> QED
    BY <1>1, <1>4, <1>5, <1>7 DEF IInv, DeviceInv

LEMMA ReadAvailableKeeps == ASSUME IInv, ReadAvailable PROVE IInv'
  <1> DEFINE n == Least(device.frames, Fill(audioWriteIdx, device.rd))
  <1>1. RingInv' /\ EmuInv' /\ WaitingInv' /\ Level' = Level
    BY Untouched DEF ReadAvailable
  <1>2. device' = [device EXCEPT !.at = "copy", !.n = n] /\ device.at = "write"
    BY DEF ReadAvailable
  <1>3. DeviceType /\ DeviceBounds /\ Level \in 0 .. RingFrames
    BY Tip DEF IInv, DeviceInv
  <1>4. device.rd = audioReadIdx /\ device.frames \in Nat /\ device.out = << >>
    BY <1>2, <1>3, RequestsAssumption DEF DeviceType, DeviceBounds, Reading
  <1>5. n \in 0 .. RingFrames /\ n <= Level
    BY <1>3, <1>4, RingAssumption DEF Least, Level
  <1> HIDE DEF n
  <1>6. DeviceType'
    BY <1>2, <1>3, <1>5 DEF DeviceType
  <1>7. /\ device'.at = "copy" /\ device'.n = n /\ device'.out = << >>
        /\ device'.rd = audioReadIdx
    BY <1>2, <1>3, <1>4 DEF DeviceType
  <1>8. DeviceBounds'
    BY <1>1, <1>2, <1>3, <1>5, <1>7 DEF DeviceBounds, Reading, ReadAvailable
  <1>9. CopiedInv'
    BY <1>7 DEF CopiedInv
  <1> QED
    BY <1>1, <1>6, <1>8, <1>9 DEF IInv, DeviceInv

LEMMA ReadLeftKeeps == ASSUME IInv, ReadLeft PROVE IInv'
  <1> DEFINE k == Len(device.out)
             x == [l |-> audioRing[NextCell].l, r |-> 0]
  <1>1. /\ RingInv' /\ EmuInv' /\ WaitingInv' /\ Level' = Level
        /\ \A i \in Nat : Waiting(i)' = Waiting(i)
    BY Untouched DEF ReadLeft
  <1>2. /\ device' = [device EXCEPT !.at = "right", !.out = Append(@, x)]
        /\ device.at = "copy" /\ k < device.n /\ running' = running /\ audioReadIdx' = audioReadIdx
    BY DEF ReadLeft
  <1>3. DeviceType /\ DeviceBounds /\ CopiedInv /\ device.out \in Seq(Frames) /\ k \in Nat
    BY DEF IInv, DeviceInv, DeviceType
  <1>4. device.rd = audioReadIdx /\ device.n <= Level
    BY <1>2, <1>3 DEF DeviceBounds, Reading
  <1>5. NextCell = Cell(audioReadIdx + k) /\ NextCell \in 0 .. RingFrames - 1
    BY <1>3, <1>4, Tip DEF NextCell, IInv
  <1>6. x \in Frames /\ x.l = Waiting(k).l
    BY <1>5, PushAssumption DEF IInv, RingInv, Frames, Waiting
  <1> HIDE DEF x
  <1>7. /\ device'.out \in Seq(Frames) /\ Len(device'.out) = k + 1
        /\ \A i \in 1 .. k : device'.out[i] = device.out[i]
        /\ device'.out[k + 1] = x /\ device'.at = "right" /\ device'.n = device.n
        /\ device'.rd = device.rd
    BY <1>2, <1>3, <1>6 DEF DeviceType
  <1>8. DeviceType'
    <2>1. Append(device.out, x) \in Seq(Frames)
      BY <1>3, <1>6
    <2> QED
      BY <1>2, <1>3, <2>1 DEF DeviceType
  <1>9. CopiedInv'
    <2> SUFFICES ASSUME NEW i \in 1 .. k + 1
                 PROVE  /\ device'.out[i].l = Waiting(i - 1)'.l
                        /\ i < k + 1 => device'.out[i].r = Waiting(i - 1)'.r
      BY <1>7 DEF CopiedInv
    <2>1. i - 1 \in Nat /\ Waiting(i - 1)' = Waiting(i - 1)
      BY <1>1, <1>3
    <2>2. CASE i = k + 1
      BY <1>3, <1>6, <1>7, <2>1, <2>2
    <2>3. CASE i # k + 1
      <3>1. i \in 1 .. k /\ (i < k \/ device.at = "copy")
        BY <1>2, <1>3, <2>3
      <3> QED
        BY <1>3, <1>7, <2>1, <3>1 DEF CopiedInv
    <2> QED
      BY <2>2, <2>3
  <1>10. k + 1 <= device.n /\ device.n \in Nat
    BY <1>2, <1>3 DEF DeviceType
  <1>11. DeviceBounds'
    BY <1>1, <1>2, <1>3, <1>4, <1>7, <1>10 DEF DeviceBounds, Reading
  <1> QED
    BY <1>1, <1>8, <1>9, <1>11 DEF IInv, DeviceInv

LEMMA ReadRightKeeps == ASSUME IInv, ReadRight PROVE IInv'
  <1> DEFINE k == Len(device.out)
             v == audioRing[Cell(device.rd + k - 1)].r
             out == [device.out EXCEPT ![k].r = v]
  <1>1. /\ RingInv' /\ EmuInv' /\ WaitingInv' /\ Level' = Level
        /\ \A i \in Nat : Waiting(i)' = Waiting(i)
    BY Untouched DEF ReadRight
  <1>2. /\ device' = [device EXCEPT !.at = "copy", !.out = out]
        /\ device.at = "right" /\ running' = running /\ audioReadIdx' = audioReadIdx
    BY DEF ReadRight
  <1>3. DeviceType /\ DeviceBounds /\ CopiedInv /\ device.out \in Seq(Frames) /\ k \in Nat
    BY DEF IInv, DeviceInv, DeviceType
  <1>4. device.rd = audioReadIdx /\ k > 0 /\ k <= device.n /\ device.n <= Level
    BY <1>2, <1>3 DEF DeviceBounds, Reading
  <1>5. v = Waiting(k - 1).r /\ Waiting(k - 1) \in Frames
    <2>1. audioReadIdx \in Nat /\ k - 1 \in Nat /\ device.rd + k - 1 = audioReadIdx + (k - 1)
      BY <1>3, <1>4, WrapAssumption DEF IInv, RingInv
    <2>2. Cell(audioReadIdx + (k - 1)) \in 0 .. RingFrames - 1
      BY <2>1, Tip DEF IInv
    <2> QED
      BY <1>4, <2>1, <2>2 DEF IInv, RingInv, Waiting
  <1>6. v \in 0 .. PushBound
    BY <1>5 DEF Frames
  <1> HIDE DEF v
  <1>7. /\ out \in Seq(Frames) /\ Len(out) = k
        /\ \A i \in 1 .. k : out[i].l = device.out[i].l
        /\ \A i \in 1 .. k - 1 : out[i].r = device.out[i].r
        /\ out[k].r = v
    <2>1. \A i \in 1 .. k : device.out[i] \in Frames
      BY <1>3
    <2>2. /\ DOMAIN out = 1 .. k
          /\ \A i \in 1 .. k : out[i] = IF i = k THEN [device.out[k] EXCEPT !.r = v] ELSE device.out[i]
      BY <1>3
    <2>3. [device.out[k] EXCEPT !.r = v] \in Frames
      <3>1. device.out[k] \in [l : 0 .. PushBound, r : 0 .. PushBound]
        BY <1>3, <1>4, <2>1 DEF Frames
      <3> QED
        BY <1>6, <3>1 DEF Frames
    <2>4. out \in [1 .. k -> Frames]
      BY <1>3, <2>1, <2>2, <2>3
    <2>5. \A i \in 1 .. k : out[i].l = device.out[i].l
      BY <2>1, <2>2 DEF Frames
    <2>6. out[k].r = v
      BY <1>3, <1>4, <2>1, <2>2 DEF Frames
    <2> QED
      BY <1>3, <2>2, <2>4, <2>5, <2>6
  <1> HIDE DEF out
  <1>8. DeviceType'
    BY <1>2, <1>3, <1>7 DEF DeviceType
  <1>9. /\ device'.out = out /\ device'.at = "copy" /\ device'.n = device.n
        /\ device'.rd = device.rd
    BY <1>2, <1>3 DEF DeviceType
  <1>10. CopiedInv'
    <2> SUFFICES ASSUME NEW i \in 1 .. k
                 PROVE  out[i].l = Waiting(i - 1)'.l /\ out[i].r = Waiting(i - 1)'.r
      BY <1>7, <1>9 DEF CopiedInv
    <2>1. i - 1 \in Nat /\ Waiting(i - 1)' = Waiting(i - 1)
      BY <1>1, <1>3
    <2>2. out[i].l = Waiting(i - 1).l
      BY <1>3, <1>7 DEF CopiedInv
    <2>3. CASE i = k
      BY <1>5, <1>7, <2>1, <2>2, <2>3
    <2>4. CASE i # k
      <3>1. i < k /\ i \in 1 .. k - 1
        BY <1>3, <2>4
      <3> QED
        BY <1>3, <1>7, <2>1, <2>2, <3>1 DEF CopiedInv
    <2> QED
      BY <2>3, <2>4
  <1>11. DeviceBounds'
    BY <1>1, <1>2, <1>3, <1>4, <1>7, <1>9 DEF DeviceBounds, Reading
  <1> QED
    BY <1>1, <1>8, <1>10, <1>11 DEF IInv, DeviceInv

\* What giving back n frames does to those that are waiting.
LEMMA Returned ==
    ASSUME IInv, ReadEnd
    PROVE  /\ device.n \in 0 .. Level /\ Level \in 0 .. RingFrames
           /\ Level' = Level - device.n /\ Level' \in 0 .. RingFrames
           /\ audioReadIdx' \in 0 .. Wrap - 1
           /\ \A i \in Nat : Waiting(i)' = Waiting(device.n + i)
  <1> DEFINE n == device.n
             rd == audioReadIdx
  <1>1. /\ device.at = "copy" /\ Len(device.out) = n /\ device' = IdleDevice
        /\ audioReadIdx' = (device.rd + n) % Wrap /\ delivered' = device.out
        /\ UNCHANGED <<audioRing, audioWriteIdx, audioEnabled, emu, running, produced, since>>
    BY DEF ReadEnd
  <1>2. /\ RingInv /\ DeviceType /\ DeviceBounds
        /\ rd \in 0 .. Wrap - 1 /\ audioWriteIdx \in 0 .. Wrap - 1
    BY DEF IInv, DeviceInv, RingInv
  <1>3. device.rd = rd /\ n \in 0 .. RingFrames /\ n <= Level /\ Level \in 0 .. RingFrames
    BY <1>1, <1>2, Tip DEF DeviceType, DeviceBounds, Reading
  <1>4. /\ audioReadIdx' = IF rd + n < Wrap THEN rd + n ELSE rd + n - Wrap
        /\ audioReadIdx' \in 0 .. Wrap - 1
    <2>1. n \in 0 .. Wrap /\ audioReadIdx' = (rd + n) % Wrap
      BY <1>1, <1>3, RingAssumption, WrapAssumption
    <2>2. /\ (rd + n) % Wrap = IF rd + n < Wrap THEN rd + n ELSE rd + n - Wrap
          /\ (rd + n) % Wrap \in 0 .. Wrap - 1
      BY <1>2, <2>1, Advance
    <2> QED
      BY <2>1, <2>2
  <1>5. Level' = Level - n /\ Level' \in 0 .. RingFrames
    <2>1. /\ Level' = IF audioWriteIdx >= audioReadIdx' THEN audioWriteIdx - audioReadIdx'
                      ELSE audioWriteIdx - audioReadIdx' + Wrap
          /\ Level = IF audioWriteIdx >= rd THEN audioWriteIdx - rd
                     ELSE audioWriteIdx - rd + Wrap
      BY <1>1, <1>2, <1>4, FillRange DEF Level
    <2>2. /\ n \in Nat /\ rd \in Nat /\ audioWriteIdx \in Nat /\ Wrap \in Nat
          /\ RingFrames \in Nat /\ RingFrames < Wrap /\ Level \in Nat
          /\ rd < Wrap /\ audioWriteIdx < Wrap
      BY <1>2, <1>3, RingAssumption, WrapAssumption
    <2> HIDE DEF n, rd
    <2>3. CASE rd + n < Wrap
      BY <1>3, <1>4, <2>1, <2>2, <2>3
    <2>4. CASE ~(rd + n < Wrap)
      BY <1>3, <1>4, <2>1, <2>2, <2>4
    <2> QED
      BY <2>3, <2>4
  <1>6. \A i \in Nat : Waiting(i)' = Waiting(n + i)
    <2> SUFFICES ASSUME NEW i \in Nat
                 PROVE  Cell(audioReadIdx' + i) = Cell(rd + (n + i))
      BY <1>1 DEF Waiting
    <2>1. /\ audioReadIdx' + i \in Nat
          /\ \/ rd + (n + i) = audioReadIdx' + i
             \/ rd + (n + i) = (audioReadIdx' + i) + Wrap
      BY <1>2, <1>3, <1>4, WrapAssumption
    <2> QED
      BY <2>1, CellWraps
  <1> QED
    BY <1>3, <1>4, <1>5, <1>6, RingAssumption

LEMMA ReadEndKeeps == ASSUME IInv, ReadEnd PROVE IInv'
  <1> DEFINE n == device.n
  <1>1. /\ device.at = "copy" /\ device' = IdleDevice /\ delivered' = device.out
        /\ UNCHANGED <<audioRing, audioWriteIdx, audioEnabled, emu, running, produced, since>>
    BY DEF ReadEnd
  <1>2. RingInv /\ DeviceType /\ DeviceBounds
    BY DEF IInv, DeviceInv
  <1>3. n \in 0 .. Level /\ Level \in 0 .. RingFrames
    BY Returned
  <1>4. audioReadIdx' \in 0 .. Wrap - 1
    BY Returned
  <1>5. Level' = Level - n /\ Level' \in 0 .. RingFrames
    BY Returned
  <1>6. \A i \in Nat : Waiting(i)' = Waiting(n + i)
    BY Returned
  <1>7. RingInv'
    <2>1. delivered' \in Seq(Frames)
      BY <1>1, <1>2 DEF DeviceType
    <2>2. Level' <= RingFrames
      BY <1>5, RingAssumption
    <2> QED
      BY <1>1, <1>2, <1>4, <2>1, <2>2 DEF RingInv
  <1>8. EmuInv'
    <2>1. Level < RingFrames => Level' < RingFrames
      BY <1>3, <1>5, RingAssumption
    <2> QED
      BY <1>1, <2>1 DEF IInv, EmuInv, Pushing
  <1>9. DeviceInv'
    <2>1. /\ device'.at = "idle" /\ device'.out = << >> /\ ~Reading'
      BY <1>1 DEF IdleDevice, Reading
    <2>2. DeviceType'
      BY <1>1, RingAssumption, WrapAssumption DEF DeviceType, IdleDevice
    <2>3. Len(device'.out) = 0
      BY <2>1
    <2> QED
      BY <2>1, <2>2, <2>3 DEF DeviceInv, DeviceBounds, CopiedInv
  <1>10. WaitingInv'
    <2>1. \A i \in 0 .. Level' - 1 : /\ n + i \in 0 .. Level - 1 /\ i \in Nat
                                      /\ Waiting(i)' = Waiting(n + i)
      BY <1>3, <1>5, <1>6
    <2>2. WaitingInv /\ Pushing' = Pushing /\ produced' = produced /\ since' = since
      BY <1>1 DEF IInv, Pushing
    <2>3. ASSUME NEW i \in 0 .. Level' - 1
          PROVE  /\ Waiting(i)'.l = Waiting(i)'.r
                 /\ since' < Waiting(i)'.l /\ Waiting(i)'.l <= produced'
                 /\ Pushing' => Waiting(i)'.l < produced'
      BY <2>1, <2>2 DEF WaitingInv
    <2>4. ASSUME NEW i \in 0 .. Level' - 1, NEW j \in 0 .. Level' - 1, i < j
          PROVE  Waiting(i)'.l < Waiting(j)'.l
      <3>1. n + i < n + j /\ n + i \in 0 .. Level - 1 /\ n + j \in 0 .. Level - 1
        BY <1>3, <1>5, <2>1, <2>4
      <3>2. Waiting(n + i).l < Waiting(n + j).l
        BY <2>2, <3>1 DEF WaitingInv
      <3> QED
        BY <2>1, <3>2
    <2> QED
      BY <2>3, <2>4 DEF WaitingInv
  <1> QED
    BY <1>7, <1>8, <1>9, <1>10 DEF IInv

-----------------------------------------------------------------------------
(* The producer *)

LEMMA PushBeginKeeps == ASSUME IInv, PushBegin PROVE IInv'
  <1>1. /\ emu.at = "idle" /\ produced < PushBound /\ produced' = produced + 1
        /\ emu' = IF Full(audioWriteIdx, audioReadIdx) THEN emu
                  ELSE [at |-> "left", w |-> audioWriteIdx]
        /\ UNCHANGED <<audioRing, audioWriteIdx, audioReadIdx, audioEnabled, device,
                       running, since, delivered>>
    BY DEF PushBegin
  <1>2. RingInv /\ EmuInv /\ DeviceInv /\ WaitingInv /\ Level \in 0 .. RingFrames
    BY Tip DEF IInv
  <1>3. produced \in Nat /\ since \in 0 .. produced /\ PushBound \in Nat
    BY <1>2, PushAssumption DEF RingInv
  <1>4. Level' = Level /\ (\A i \in Nat : Waiting(i)' = Waiting(i)) /\ Reading' = Reading
    BY <1>1 DEF Level, Waiting, Reading
  <1>5. RingInv'
    BY <1>1, <1>2, <1>3, <1>4 DEF RingInv
  <1>6. EmuInv'
    <2>1. CASE Full(audioWriteIdx, audioReadIdx)
      BY <1>1, <1>2, <2>1 DEF EmuInv, Pushing
    <2>2. CASE ~Full(audioWriteIdx, audioReadIdx)
      <3>1. Level < RingFrames
        BY <1>2, <2>2, RingAssumption DEF Full, Level
      <3>2. /\ emu' = [at |-> "left", w |-> audioWriteIdx]
            /\ emu'.at = "left" /\ emu'.w = audioWriteIdx
        BY <1>1, <2>2
      <3>3. emu' \in [at : {"idle", "left", "right", "publish"}, w : 0 .. Wrap - 1]
        BY <1>2, <3>2 DEF RingInv
      <3>4. since < produced'
        BY <1>1, <1>3
      <3> QED
        BY <1>1, <1>4, <3>1, <3>2, <3>3, <3>4 DEF EmuInv, Pushing
    <2> QED
      BY <2>1, <2>2
  <1>7. DeviceInv'
    <2>1. DeviceType' /\ DeviceBounds'
      BY <1>1, <1>2, <1>4 DEF DeviceInv, DeviceType, DeviceBounds
    <2>2. CopiedInv'
      BY <1>1, <1>2 DEF DeviceInv, CopiedInv, Waiting
    <2> QED
      BY <2>1, <2>2 DEF DeviceInv
  <1>8. WaitingInv'
    <2>1. \A i \in 0 .. Level - 1 :
            /\ Waiting(i)' = Waiting(i) /\ Waiting(i) \in Frames
      <3> SUFFICES ASSUME NEW i \in 0 .. Level - 1
                   PROVE  Waiting(i)' = Waiting(i) /\ Waiting(i) \in Frames
        OBVIOUS
      <3>1. i \in Nat
        BY <1>2, RingAssumption
      <3> QED
        BY <1>2, <1>4, <3>1, Tip DEF Waiting, RingInv
    <2>2. \A i \in 0 .. Level - 1 : Waiting(i).l \in Nat
      BY <2>1, PushAssumption DEF Frames
    <2> QED
      BY <1>1, <1>2, <1>3, <1>4, <2>1, <2>2 DEF WaitingInv
  <1> QED
    BY <1>5, <1>6, <1>7, <1>8 DEF IInv

\* What a store into the cell being pushed, of one channel, leaves alone.
LEMMA Stored ==
    ASSUME IInv, Pushing, Pushing', NEW v \in Frames,
           audioRing' = [audioRing EXCEPT ![Cell(emu.w)] = v],
           UNCHANGED <<audioWriteIdx, audioReadIdx, audioEnabled, device, running,
                       produced, since, delivered>>
    PROVE  /\ RingInv' /\ DeviceInv' /\ WaitingInv'
           /\ Level' = Level /\ audioRing'[Cell(emu.w)] = v
           /\ emu.w = audioWriteIdx /\ Level < RingFrames /\ since < produced
  <1>1. RingInv /\ EmuInv /\ DeviceInv /\ WaitingInv /\ Level \in 0 .. RingFrames
    BY Tip DEF IInv
  <1>2. /\ emu.w = audioWriteIdx /\ Level < RingFrames /\ since < produced
        /\ audioWriteIdx \in Nat
    BY <1>1, WrapAssumption DEF EmuInv, RingInv
  <1>3. Cell(emu.w) \in 0 .. RingFrames - 1
    BY <1>2, CellWraps
  <1>4. Level' = Level
    BY DEF Level
  <1>5. \A i \in 0 .. Level - 1 : Waiting(i)' = Waiting(i)
    BY <1>1, <1>2, StoreApart
  <1>6. RingInv' /\ audioRing'[Cell(emu.w)] = v
    BY <1>1, <1>3, <1>4 DEF RingInv
  <1>7. DeviceType' /\ DeviceBounds' /\ Reading' = Reading
    BY <1>1, <1>4 DEF DeviceInv, DeviceType, DeviceBounds, Reading
  <1>8. CopiedInv'
    <2>1. CASE ~Reading
      <3>1. Len(device'.out) = 0
        BY <1>1, <2>1 DEF DeviceInv, DeviceBounds
      <3> QED
        BY <3>1 DEF CopiedInv
    <2>2. CASE Reading
      <3>1. device.n <= Level /\ Len(device.out) <= device.n /\ device.n \in Nat
            /\ Len(device.out) \in Nat
        BY <1>1, <2>2, RingAssumption DEF DeviceInv, DeviceType, DeviceBounds
      <3>2. \A i \in 1 .. Len(device.out) : Waiting(i - 1)' = Waiting(i - 1)
        <4> TAKE i \in 1 .. Len(device.out)
        <4>1. i - 1 \in 0 .. Level - 1
          BY <1>1, <3>1
        <4> QED
          BY <1>5, <4>1
      <3> QED
        BY <1>1, <3>2 DEF DeviceInv, CopiedInv
    <2> QED
      BY <2>1, <2>2
  <1>9. WaitingInv'
    BY <1>1, <1>4, <1>5 DEF WaitingInv
  <1> QED
    BY <1>2, <1>4, <1>6, <1>7, <1>8, <1>9 DEF DeviceInv

LEMMA PushLeftKeeps == ASSUME IInv, PushLeft PROVE IInv'
  <1> DEFINE v == [audioRing[Cell(emu.w)] EXCEPT !.l = produced]
  <1>1. /\ emu.at = "left" /\ emu' = [emu EXCEPT !.at = "right"]
        /\ audioRing' = [audioRing EXCEPT ![Cell(emu.w)] = v]
        /\ UNCHANGED <<audioWriteIdx, audioReadIdx, audioEnabled, device, running,
                       produced, since, delivered>>
    BY DEF PushLeft
  <1>2. RingInv /\ EmuInv
    BY DEF IInv
  <1>3. emu'.at = "right" /\ emu'.w = emu.w
        /\ emu' \in [at : {"idle", "left", "right", "publish"}, w : 0 .. Wrap - 1]
    BY <1>1, <1>2 DEF EmuInv
  <1>4. Pushing /\ Pushing'
    BY <1>1, <1>3 DEF Pushing
  <1>5. v \in Frames /\ v.l = produced
    <2>1. audioRing[Cell(emu.w)] \in [l : 0 .. PushBound, r : 0 .. PushBound]
      BY <1>2, CellWraps, WrapAssumption DEF EmuInv, RingInv, Frames
    <2> QED
      BY <1>2, <2>1 DEF RingInv, Frames
  <1> HIDE DEF v
  <1>6. /\ RingInv' /\ DeviceInv' /\ WaitingInv'
        /\ Level' = Level /\ audioRing'[Cell(emu.w)] = v
        /\ emu.w = audioWriteIdx /\ Level < RingFrames /\ since < produced
    BY <1>1, <1>4, <1>5, Stored
  <1>7. EmuInv'
    BY <1>1, <1>3, <1>5, <1>6 DEF EmuInv, Pushing
  <1> QED
    BY <1>6, <1>7 DEF IInv

LEMMA PushRightKeeps == ASSUME IInv, PushRight PROVE IInv'
  <1> DEFINE v == [audioRing[Cell(emu.w)] EXCEPT !.r = produced]
  <1>1. /\ emu.at = "right" /\ emu' = [emu EXCEPT !.at = "publish"]
        /\ audioRing' = [audioRing EXCEPT ![Cell(emu.w)] = v]
        /\ UNCHANGED <<audioWriteIdx, audioReadIdx, audioEnabled, device, running,
                       produced, since, delivered>>
    BY DEF PushRight
  <1>2. RingInv /\ EmuInv
    BY DEF IInv
  <1>3. emu'.at = "publish" /\ emu'.w = emu.w
        /\ emu' \in [at : {"idle", "left", "right", "publish"}, w : 0 .. Wrap - 1]
    BY <1>1, <1>2 DEF EmuInv
  <1>4. Pushing /\ Pushing'
    BY <1>1, <1>3 DEF Pushing
  <1>5. v \in Frames /\ v.l = produced /\ v.r = produced
    <2>1. audioRing[Cell(emu.w)] \in [l : 0 .. PushBound, r : 0 .. PushBound]
      BY <1>2, CellWraps, WrapAssumption DEF EmuInv, RingInv, Frames
    <2>2. audioRing[Cell(emu.w)].l = produced
      BY <1>1, <1>2 DEF EmuInv
    <2> QED
      BY <1>2, <2>1, <2>2 DEF RingInv, Frames
  <1> HIDE DEF v
  <1>6. /\ RingInv' /\ DeviceInv' /\ WaitingInv'
        /\ Level' = Level /\ audioRing'[Cell(emu.w)] = v
        /\ emu.w = audioWriteIdx /\ Level < RingFrames /\ since < produced
    BY <1>1, <1>4, <1>5, Stored
  <1>7. EmuInv'
    BY <1>1, <1>3, <1>5, <1>6 DEF EmuInv, Pushing
  <1> QED
    BY <1>6, <1>7 DEF IInv

LEMMA Published ==
    ASSUME IInv, PushPublish
    PROVE  /\ Level' = Level + 1 /\ Level \in 0 .. RingFrames - 1
           /\ \A i \in Nat : Waiting(i)' = Waiting(i)
           /\ Waiting(Level) = audioRing[Cell(emu.w)]
           /\ Waiting(Level).l = produced /\ Waiting(Level).r = produced
           /\ audioWriteIdx' \in 0 .. Wrap - 1
  <1>1. /\ emu.at = "publish" /\ audioWriteIdx' = (emu.w + 1) % Wrap /\ audioRing' = audioRing
        /\ audioReadIdx' = audioReadIdx
    BY DEF PushPublish
  <1>2. RingInv /\ EmuInv /\ Level \in 0 .. RingFrames
    BY Tip DEF IInv
  <1>3. emu.w = audioWriteIdx /\ Level < RingFrames
    BY <1>1, <1>2 DEF EmuInv, Pushing
  <1>4. /\ audioWriteIdx \in 0 .. Wrap - 1 /\ audioReadIdx \in 0 .. Wrap - 1
        /\ Wrap \in Nat /\ RingFrames \in Nat \ {0} /\ RingFrames < Wrap
    BY <1>2, RingAssumption, WrapAssumption DEF RingInv
  <1>5. /\ audioWriteIdx' = IF audioWriteIdx + 1 < Wrap THEN audioWriteIdx + 1
                            ELSE audioWriteIdx + 1 - Wrap
        /\ audioWriteIdx' \in 0 .. Wrap - 1
    <2>1. 1 \in 0 .. Wrap
      BY <1>4
    <2> QED
      BY <1>1, <1>3, <1>4, <2>1, Advance
  <1>6. /\ Level' = IF audioWriteIdx' >= audioReadIdx THEN audioWriteIdx' - audioReadIdx
                    ELSE audioWriteIdx' - audioReadIdx + Wrap
        /\ Level = IF audioWriteIdx >= audioReadIdx THEN audioWriteIdx - audioReadIdx
                   ELSE audioWriteIdx - audioReadIdx + Wrap
    BY <1>1, <1>4, <1>5, FillRange DEF Level
  <1>7. Level' = Level + 1
    <2>1. CASE audioWriteIdx + 1 < Wrap
      BY <1>2, <1>3, <1>4, <1>5, <1>6, <2>1
    <2>2. CASE ~(audioWriteIdx + 1 < Wrap)
      BY <1>2, <1>3, <1>4, <1>5, <1>6, <2>2
    <2> QED
      BY <2>1, <2>2
  <1>8. Level \in 0 .. RingFrames - 1
    BY <1>2, <1>3, <1>4
  <1>9. Waiting(Level) = audioRing[Cell(emu.w)]
    BY <1>2, <1>3, Tip DEF Waiting
  <1>10. audioRing[Cell(emu.w)].l = produced /\ audioRing[Cell(emu.w)].r = produced
    BY <1>1, <1>2 DEF EmuInv
  <1> QED
    BY <1>1, <1>5, <1>7, <1>8, <1>9, <1>10 DEF Waiting

LEMMA PushPublishKeeps == ASSUME IInv, PushPublish PROVE IInv'
  <1>1. /\ emu.at = "publish" /\ emu' = IdleEmu
        /\ UNCHANGED <<audioRing, audioReadIdx, audioEnabled, device, running,
                       produced, since, delivered>>
    BY DEF PushPublish
  <1>2. /\ Level' = Level + 1 /\ Level \in 0 .. RingFrames - 1
        /\ \A i \in Nat : Waiting(i)' = Waiting(i)
        /\ Waiting(Level).l = produced /\ Waiting(Level).r = produced
        /\ audioWriteIdx' \in 0 .. Wrap - 1
    BY Published
  <1>3. RingInv /\ EmuInv /\ DeviceInv /\ WaitingInv /\ Pushing /\ since < produced
    BY <1>1 DEF IInv, EmuInv, Pushing
  <1>4. RingInv'
    <2>1. Level' <= RingFrames
      BY <1>2, RingAssumption
    <2> QED
      BY <1>1, <1>2, <1>3, <2>1 DEF RingInv
  <1>5. EmuInv'
    <2>1. emu' \in [at : {"idle", "left", "right", "publish"}, w : 0 .. Wrap - 1]
          /\ emu'.at = "idle"
      BY <1>1, WrapAssumption DEF IdleEmu
    <2> QED
      BY <2>1 DEF EmuInv, Pushing
  <1>6. DeviceInv'
    <2>1. device.n <= Level => device.n <= Level'
      BY <1>2, <1>3, RingAssumption DEF DeviceInv, DeviceType
    <2>2. DeviceType' /\ DeviceBounds'
      BY <1>1, <1>3, <2>1 DEF DeviceInv, DeviceType, DeviceBounds, Reading
    <2>3. CopiedInv'
      BY <1>1, <1>3 DEF DeviceInv, CopiedInv, Waiting
    <2> QED
      BY <2>2, <2>3 DEF DeviceInv
  <1>7. WaitingInv'
    <2>1. ~Pushing'
      BY <1>1 DEF Pushing, IdleEmu
    <2>2. produced \in Nat /\ produced' = produced /\ since' = since
      BY <1>1, <1>3, PushAssumption DEF RingInv
    <2>3. \A i \in 0 .. Level : /\ Waiting(i)' = Waiting(i)
                                /\ i = Level \/ i \in 0 .. Level - 1
      BY <1>2, RingAssumption
    <2>4. 0 .. Level' - 1 = 0 .. Level
      BY <1>2, RingAssumption
    <2>5. ASSUME NEW i \in 0 .. Level
          PROVE  /\ Waiting(i)'.l = Waiting(i)'.r
                 /\ since' < Waiting(i)'.l /\ Waiting(i)'.l <= produced'
      BY <1>2, <1>3, <2>2, <2>3 DEF WaitingInv
    <2>6. ASSUME NEW i \in 0 .. Level, NEW j \in 0 .. Level, i < j
          PROVE  Waiting(i)'.l < Waiting(j)'.l
      <3>1. i \in 0 .. Level - 1
        BY <1>2, <2>6, RingAssumption
      <3>2. CASE j = Level
        BY <1>2, <1>3, <2>3, <3>1, <3>2 DEF WaitingInv
      <3>3. CASE j # Level
        BY <1>3, <2>3, <2>6, <3>1, <3>3 DEF WaitingInv
      <3> QED
        BY <3>2, <3>3
    <2> QED
      BY <2>1, <2>4, <2>5, <2>6 DEF WaitingInv
  <1> QED
    BY <1>4, <1>5, <1>6, <1>7 DEF IInv

-----------------------------------------------------------------------------
(* Starting, stopping, and the whole *)

\* With neither thread inside the ring, flushing it, or not, keeps the invariant.
LEMMA Settled ==
    ASSUME IInv, emu.at = "idle", device.at = "idle",
           audioEnabled' \in BOOLEAN, running' \in BOOLEAN,
           \/ audioReadIdx' = audioReadIdx /\ since' = since
           \/ audioReadIdx' = audioWriteIdx /\ since' = produced,
           UNCHANGED <<audioRing, audioWriteIdx, emu, device, produced, delivered>>
    PROVE  IInv'
  <1>1. RingInv /\ EmuInv /\ DeviceInv /\ WaitingInv /\ Level \in 0 .. RingFrames
    BY Tip DEF IInv
  <1>2. ~Reading' /\ Len(device'.out) = 0 /\ device'.out = << >>
    BY <1>1 DEF DeviceInv, DeviceBounds, Reading
  <1>3. DeviceInv'
    BY <1>1, <1>2 DEF DeviceInv, DeviceType, DeviceBounds, CopiedInv
  <1>4. EmuInv'
    BY <1>1 DEF EmuInv, Pushing
  <1>5. CASE audioReadIdx' = audioReadIdx /\ since' = since
    <2>1. Level' = Level /\ (\A i \in Nat : Waiting(i)' = Waiting(i)) /\ ~Pushing'
      BY <1>5 DEF Level, Waiting, Pushing
    <2>2. RingInv'
      BY <1>1, <1>5, <2>1 DEF RingInv
    <2>3. WaitingInv'
      BY <1>1, <1>5, <2>1, RingAssumption DEF WaitingInv
    <2> QED
      BY <1>3, <1>4, <2>2, <2>3 DEF IInv
  <1>6. CASE audioReadIdx' = audioWriteIdx /\ since' = produced
    <2>1. Level' = 0
      BY <1>1, <1>6, FillRange, WrapAssumption DEF Level, RingInv
    <2>2. RingInv'
      BY <1>1, <1>6, <2>1, RingAssumption DEF RingInv
    <2>3. WaitingInv'
      BY <2>1 DEF WaitingInv
    <2> QED
      BY <1>3, <1>4, <2>2, <2>3 DEF IInv
  <1> QED
    BY <1>5, <1>6

\* The engine does not run: nobody is inside audioRead().
LEMMA StoppedIsIdle == ASSUME IInv, ~running PROVE device.at = "idle"
  BY DEF IInv, DeviceInv, DeviceBounds

LEMMA ControlKeeps == ASSUME IInv, Control PROVE IInv'
  <1>1. CASE Start
    <2>1. device.at = "idle" /\ audioEnabled \in BOOLEAN
      BY <1>1, StoppedIsIdle DEF Start, IInv, RingInv
    <2> QED
      BY <1>1, <2>1, Settled DEF Start, SetAudioEnabled
  <1>2. CASE StartFails
    <2>1. device.at = "idle" /\ running \in BOOLEAN
      BY <1>2, StoppedIsIdle DEF StartFails, IInv, RingInv
    <2> QED
      BY <1>2, <2>1, Settled DEF StartFails
  <1>3. CASE Stop
    <2>1. audioEnabled \in BOOLEAN
      BY DEF IInv, RingInv
    <2> QED
      BY <1>3, <2>1, Settled DEF Stop, SetAudioEnabled
  <1> QED
    BY <1>1, <1>2, <1>3 DEF Control

LEMMA Initially == ASSUME Init PROVE IInv
  <1>1. Level = 0
    BY FillRange, WrapAssumption DEF Init, Level
  <1>2. RingInv
    <2>1. audioRing \in [0 .. RingFrames - 1 -> Frames]
      BY PushAssumption DEF Init, Frames
    <2>2. 0 \in 0 .. Wrap - 1 /\ 0 \in 0 .. PushBound /\ 0 \in 0 .. 0 /\ Level <= RingFrames
      BY <1>1, RingAssumption, WrapAssumption, PushAssumption
    <2>3. << >> \in Seq(Frames)
      OBVIOUS
    <2> QED
      BY <2>1, <2>2, <2>3 DEF Init, RingInv
  <1>3. EmuInv
    BY WrapAssumption DEF Init, EmuInv, IdleEmu, Pushing
  <1>4. DeviceInv
    <2>1. DeviceType /\ DeviceBounds
      BY RingAssumption, WrapAssumption
         DEF Init, DeviceType, DeviceBounds, IdleDevice, Reading
    <2>2. Len(device.out) = 0
      BY DEF Init, IdleDevice
    <2> QED
      BY <2>1, <2>2 DEF DeviceInv, CopiedInv
  <1>5. WaitingInv
    BY <1>1 DEF WaitingInv
  <1> QED
    BY <1>2, <1>3, <1>4, <1>5 DEF IInv

LEMMA NextKeeps == ASSUME IInv, [Next]_vars PROVE IInv'
  <1>1. CASE Producer
    BY <1>1, PushBeginKeeps, PushLeftKeeps, PushRightKeeps, PushPublishKeeps DEF Producer
  <1>2. CASE Consumer
    BY <1>2, ReadBeginKeeps, ReadAvailableKeeps, ReadLeftKeeps, ReadRightKeeps, ReadEndKeeps
       DEF Consumer
  <1>3. CASE Control
    BY <1>3, ControlKeeps
  <1>4. CASE UNCHANGED vars
    <2>1. RingInv' /\ EmuInv' /\ WaitingInv' /\ Level' = Level /\ device' = device
      BY <1>4, Untouched DEF vars
    <2>2. DeviceInv'
      BY <1>4 DEF vars, IInv, DeviceInv, DeviceType, DeviceBounds, CopiedInv, Reading,
                  Level, Waiting
    <2> QED
      BY <2>1, <2>2 DEF IInv
  <1> QED
    BY <1>1, <1>2, <1>3, <1>4 DEF Next

LEMMA Invariant == Spec => []IInv
  <1>1. Init => IInv
    BY Initially
  <1>2. IInv /\ [Next]_vars => IInv'
    BY NextKeeps
  <1> QED
    BY <1>1, <1>2, PTL DEF Spec

\* Indices, ring and the locals of both threads keep their types.
THEOREM TypeCorrect == Spec => []TypeOK
  <1>1. IInv => TypeOK
    BY DEF IInv, RingInv, EmuInv, DeviceInv, DeviceType, TypeOK
  <1> QED
    BY <1>1, Invariant, PTL

\* However long a thread sits on an index it has loaded, the cells the device
\* copies are never the cell the core writes.
THEOREM NoSharedCellTheorem == Spec => []NoSharedCell
  <1>1. IInv => NoSharedCell
    <2> SUFFICES ASSUME IInv, Pushing, Reading, NEW i \in 0 .. device.n - 1
                 PROVE  Cell(device.rd + i) # Cell(emu.w)
      BY DEF NoSharedCell, Pushing, Reading
    <2>1. /\ emu.w = audioWriteIdx /\ Level < RingFrames /\ Level \in 0 .. RingFrames
          /\ Cell(audioWriteIdx) = Cell(audioReadIdx + Level)
      BY Tip DEF IInv, EmuInv
    <2>2. device.rd = audioReadIdx /\ device.n <= Level /\ device.n \in 0 .. RingFrames
          /\ audioReadIdx \in Nat
      BY WrapAssumption DEF IInv, DeviceInv, DeviceType, DeviceBounds, Reading, RingInv
    <2>3. i \in 0 .. RingFrames - 1 /\ Level \in 0 .. RingFrames - 1 /\ i # Level
      BY <2>1, <2>2, RingAssumption
    <2> QED
      BY <2>1, <2>2, <2>3, Distinct
  <1> QED
    BY <1>1, Invariant, PTL

\* A callback delivers whole frames, in order, none from before the last flush.
THEOREM FreshTheorem == Spec => NoStaleSamples
  <1>1. IInv /\ [Next]_vars => [device.at = "copy" /\ device'.at = "idle" => DeliveredIsFresh]_vars
    <2> SUFFICES ASSUME IInv, Next, device.at = "copy", device'.at = "idle"
                 PROVE  DeliveredIsFresh
      OBVIOUS
    <2>1. DeviceType /\ DeviceBounds /\ CopiedInv /\ WaitingInv
      BY DEF IInv, DeviceInv
    <2>2. ReadEnd
      BY <2>1 DEF Next, Producer, Consumer, Control, PushBegin, PushLeft, PushRight, PushPublish,
                  ReadBegin, ReadAvailable, ReadLeft, ReadRight, Start, StartFails, Stop,
                  DeviceType
    <2>3. delivered' = device.out
      BY <2>2 DEF ReadEnd
    <2>4. Len(device.out) <= device.n /\ device.n <= Level /\ Level \in 0 .. RingFrames
          /\ device.n \in 0 .. RingFrames /\ Len(device.out) \in Nat
      BY <2>1, Tip DEF DeviceType, DeviceBounds, Reading, IInv
    <2>5. ASSUME NEW i \in 1 .. Len(device.out)
          PROVE  /\ i - 1 \in 0 .. Level - 1
                 /\ device.out[i].l = Waiting(i - 1).l /\ device.out[i].r = Waiting(i - 1).r
      <3>1. i - 1 \in 0 .. Level - 1
        BY <2>4, RingAssumption
      <3> QED
        BY <2>1, <3>1 DEF CopiedInv
    <2>6. ASSUME NEW i \in 1 .. Len(device.out)
          PROVE  device.out[i].l = device.out[i].r /\ since < device.out[i].l
      BY <2>1, <2>5 DEF WaitingInv
    <2>7. ASSUME NEW i \in 1 .. Len(device.out), i > 1
          PROVE  device.out[i - 1].l < device.out[i].l
      <3>1. i - 1 \in 1 .. Len(device.out) /\ (i - 1) - 1 < i - 1
        BY <2>4, <2>7
      <3> QED
        BY <2>1, <2>5, <3>1 DEF WaitingInv
    <2>8. \A i \in 1 .. Len(device.out) : device.out[i].l \in Nat
      <3>1. \A i \in 1 .. Len(device.out) : device.out[i] \in Frames
        BY <2>1 DEF DeviceType
      <3> QED
        BY <3>1, PushAssumption DEF Frames
    <2>9. since \in Nat /\ DOMAIN device.out = 1 .. Len(device.out)
      BY <2>1, PushAssumption DEF IInv, RingInv, DeviceType
    <2> SUFFICES ASSUME NEW i \in 1 .. Len(device.out)
                 PROVE  /\ device.out[i].l = device.out[i].r /\ device.out[i].l > since
                        /\ i > 1 => device.out[i].l > device.out[i - 1].l
      BY <2>3, <2>9 DEF DeliveredIsFresh
    <2>10. i > 1 => i - 1 \in 1 .. Len(device.out)
      BY <2>4
    <2> QED
      BY <2>6, <2>7, <2>8, <2>9, <2>10
  <1> QED
    BY <1>1, Invariant, PTL DEF Spec, NoStaleSamples

-----------------------------------------------------------------------------
(* The ring implements the queue *)

\* The queue a state of the ring stands for.
QueuedIsWaiting ==
    /\ Queued \in Seq(Frames) /\ Len(Queued) = Level /\ Level \in 0 .. RingFrames
    /\ \A i \in 1 .. Level : Queued[i] = Waiting(i - 1)

LEMMA QueuedFrames == RingInv => QueuedIsWaiting
  <1> SUFFICES ASSUME RingInv PROVE QueuedIsWaiting
    OBVIOUS
  <1>1. Level \in 0 .. RingFrames /\ Level \in Nat /\ audioReadIdx \in Nat
    BY Tip, RingAssumption, WrapAssumption DEF RingInv
  <1>2. \A i \in 1 .. Level : audioReadIdx + i - 1 = audioReadIdx + (i - 1) /\ i - 1 \in Nat
    BY <1>1
  <1>3. \A i \in 1 .. Level : audioRing[Cell(audioReadIdx + i - 1)] = Waiting(i - 1)
    BY <1>2 DEF Waiting
  <1>4. \A i \in 1 .. Level : Waiting(i - 1) \in Frames
    BY <1>2, Tip DEF Waiting, RingInv
  <1>5. /\ Queued \in [1 .. Level -> Frames]
        /\ \A i \in 1 .. Level : Queued[i] = Waiting(i - 1)
    BY <1>3, <1>4 DEF Queued, Level
  <1> QED
    BY <1>1, <1>5 DEF QueuedIsWaiting

LEMMA QueuedNext == RingInv' => QueuedIsWaiting'
  BY QueuedFrames, PTL

\* The queue does not see a step that moves neither index nor any frame waiting.
LEMMA Unseen ==
    ASSUME RingInv, RingInv', Level' = Level,
           \A i \in 0 .. Level - 1 : Waiting(i)' = Waiting(i)
    PROVE  Queued' = Queued
  <1>1. /\ Queued \in Seq(Frames) /\ Len(Queued) = Level /\ Level \in 0 .. RingFrames
        /\ \A i \in 1 .. Level : Queued[i] = Waiting(i - 1)
    BY QueuedFrames DEF QueuedIsWaiting
  <1>2. /\ Queued' \in Seq(Frames) /\ Len(Queued') = Level'
        /\ \A i \in 1 .. Level' : Queued'[i] = Waiting(i - 1)'
    BY QueuedNext DEF QueuedIsWaiting
  <1>3. \A i \in 1 .. Level : i - 1 \in 0 .. Level - 1
    BY <1>1, RingAssumption
  <1> QED
    BY <1>1, <1>2, <1>3, SeqEqual

LEMMA PublishAppends == ASSUME IInv, IInv', PushPublish PROVE \E x \in Frames : Promise!Push(x)
  <1> DEFINE x == Waiting(Level)
  <1>1. /\ Queued \in Seq(Frames) /\ Len(Queued) = Level
        /\ \A i \in 1 .. Level : Queued[i] = Waiting(i - 1)
    BY QueuedFrames DEF IInv, QueuedIsWaiting
  <1>2. /\ Queued' \in Seq(Frames) /\ Len(Queued') = Level'
        /\ \A i \in 1 .. Level' : Queued'[i] = Waiting(i - 1)'
    BY QueuedNext DEF IInv, QueuedIsWaiting
  <1>3. /\ Level' = Level + 1 /\ Level \in 0 .. RingFrames - 1 /\ Level \in Nat
        /\ \A i \in Nat : Waiting(i)' = Waiting(i)
    BY Published, RingAssumption
  <1>4. x \in Frames
    BY <1>3, Tip DEF Waiting, IInv, RingInv
  <1> HIDE DEF x
  <1>5. /\ Append(Queued, x) \in Seq(Frames) /\ Len(Append(Queued, x)) = Level + 1
        /\ Append(Queued, x)[Level + 1] = x
        /\ \A i \in 1 .. Level : Append(Queued, x)[i] = Queued[i]
    BY <1>1, <1>4
  <1>6. \A i \in 1 .. Level + 1 : Queued'[i] = Append(Queued, x)[i]
    <2> TAKE i \in 1 .. Level + 1
    <2>1. i - 1 \in Nat /\ Queued'[i] = Waiting(i - 1)
      BY <1>2, <1>3
    <2>2. CASE i = Level + 1
      BY <1>3, <1>5, <2>1, <2>2 DEF x
    <2>3. CASE i # Level + 1
      BY <1>1, <1>3, <1>5, <2>1, <2>3
    <2> QED
      BY <2>2, <2>3
  <1>7. Queued' = Append(Queued, x)
    BY <1>2, <1>3, <1>5, <1>6, SeqEqual
  <1>8. Len(Queued) < RingFrames
    BY <1>1, <1>3, RingAssumption
  <1>9. delivered' = delivered
    BY DEF PushPublish
  <1> QED
    BY <1>4, <1>7, <1>8, <1>9 DEF Promise!Push

LEMMA EndDelivers ==
    ASSUME IInv, IInv', ReadEnd PROVE \E n \in 0 .. Len(Queued) : Promise!Deliver(n)
  <1> DEFINE n == device.n
             rest == SubSeq(Queued, n + 1, Len(Queued))
  <1>1. /\ Queued \in Seq(Frames) /\ Len(Queued) = Level
        /\ \A i \in 1 .. Level : Queued[i] = Waiting(i - 1)
    BY QueuedFrames DEF IInv, QueuedIsWaiting
  <1>2. /\ Queued' \in Seq(Frames) /\ Len(Queued') = Level'
        /\ \A i \in 1 .. Level' : Queued'[i] = Waiting(i - 1)'
    BY QueuedNext DEF IInv, QueuedIsWaiting
  <1>3. /\ n \in 0 .. Level /\ Level \in Nat /\ n \in Nat /\ Level' = Level - n
        /\ \A i \in Nat : Waiting(i)' = Waiting(n + i)
    BY Returned, RingAssumption
  <1>4. device.at = "copy" /\ Len(device.out) = n /\ delivered' = device.out
    BY DEF ReadEnd
  <1>5. /\ device.out \in Seq(Frames)
        /\ \A i \in 1 .. n : /\ device.out[i].l = Waiting(i - 1).l
                             /\ device.out[i].r = Waiting(i - 1).r
    BY <1>4 DEF IInv, DeviceInv, DeviceType, CopiedInv
  <1> HIDE DEF n
  <1>6. delivered' = SubSeq(Queued, 1, n)
    <2>1. /\ SubSeq(Queued, 1, n) \in Seq(Frames) /\ Len(SubSeq(Queued, 1, n)) = n
          /\ \A i \in 1 .. n : SubSeq(Queued, 1, n)[i] = Queued[i]
      BY <1>1, <1>3
    <2>2. ASSUME NEW i \in 1 .. n PROVE device.out[i] = Queued[i]
      <3>1. i \in 1 .. Level /\ i \in 1 .. Len(device.out)
        BY <1>3, <1>4
      <3>2. device.out[i] \in Frames /\ Queued[i] \in Frames
        BY <1>1, <1>5, <3>1
      <3>3. device.out[i].l = Queued[i].l /\ device.out[i].r = Queued[i].r
        BY <1>1, <1>5, <3>1
      <3> QED
        BY <3>2, <3>3 DEF Frames
    <2> QED
      BY <1>4, <1>5, <2>1, <2>2, SeqEqual
  <1>7. Queued' = rest
    <2>1. \A i \in n + 1 .. Level : Queued[i] \in Frames
      BY <1>1, <1>3
    <2>2. /\ rest \in Seq(Frames) /\ Len(rest) = Level - n
          /\ \A i \in 1 .. Level - n : rest[i] = Queued[n + i]
      <3>1. n + 1 \in Int /\ Level \in Int
        BY <1>3
      <3>2. /\ SubSeq(Queued, n + 1, Level) \in Seq(Frames)
            /\ Len(SubSeq(Queued, n + 1, Level)) = IF n + 1 <= Level THEN Level - (n + 1) + 1 ELSE 0
            /\ \A i \in 1 .. Level - (n + 1) + 1 :
                  SubSeq(Queued, n + 1, Level)[i] = Queued[(n + 1) + i - 1]
        BY <2>1, <3>1, SubSeqProperties
      <3>3. /\ 1 .. Level - (n + 1) + 1 = 1 .. Level - n
            /\ \A i \in 1 .. Level - n : (n + 1) + i - 1 = n + i
        BY <1>3
      <3> QED
        BY <1>1, <1>3, <3>2, <3>3
    <2> HIDE DEF rest
    <2>3. ASSUME NEW i \in 1 .. Level - n PROVE Queued'[i] = rest[i]
      <3>1. i - 1 \in Nat /\ n + i \in 1 .. Level /\ n + (i - 1) = (n + i) - 1
        BY <1>3
      <3>2. Queued'[i] = Waiting(n + (i - 1))
        BY <1>2, <1>3, <3>1
      <3> QED
        BY <1>1, <2>2, <3>1, <3>2
    <2> QED
      BY <1>2, <1>3, <2>2, <2>3, SeqEqual
  <1> QED
    BY <1>1, <1>3, <1>6, <1>7 DEF Promise!Deliver

\* A flush, or the start or stop of a ring that is flushed already.
LEMMA ControlFlushes ==
    ASSUME IInv, IInv', Control
    PROVE  Promise!Flush \/ UNCHANGED <<Queued, delivered>>
  <1>1. /\ UNCHANGED <<audioRing, audioWriteIdx, delivered>>
        /\ audioReadIdx' = audioReadIdx \/ audioReadIdx' = audioWriteIdx
    BY DEF Control, Start, StartFails, Stop, SetAudioEnabled
  <1>2. CASE audioReadIdx' = audioReadIdx
    <2>1. Level' = Level /\ \A i \in 0 .. Level - 1 : Waiting(i)' = Waiting(i)
      BY <1>1, <1>2 DEF Level, Waiting
    <2> QED
      BY <1>1, <2>1, Unseen DEF IInv
  <1>3. CASE audioReadIdx' = audioWriteIdx
    <2>1. Level' = 0
      <3>1. audioWriteIdx \in 0 .. Wrap - 1 /\ Level' = Fill(audioWriteIdx, audioWriteIdx)
        BY <1>1, <1>3 DEF Level, IInv, RingInv
      <3> QED
        BY <3>1, FillRange
    <2>2. Queued' \in Seq(Frames) /\ Len(Queued') = Level'
      BY QueuedNext DEF IInv, QueuedIsWaiting
    <2>3. Queued' = << >>
      BY <2>1, <2>2, EmptySeq
    <2> QED
      BY <1>1, <2>3 DEF Promise!Flush
  <1> QED
    BY <1>1, <1>2, <1>3

LEMMA StepRefines ==
    ASSUME IInv, IInv', [Next]_vars PROVE [Promise!Next]_<<Queued, delivered>>
  <1>1. RingInv /\ RingInv'
    BY DEF IInv
  <1>2. ASSUME UNCHANGED <<audioRing, audioWriteIdx, audioReadIdx, delivered>>
        PROVE  UNCHANGED <<Queued, delivered>>
    BY <1>2 DEF Queued
  <1>3. CASE PushBegin \/ UNCHANGED vars
    BY <1>2, <1>3 DEF PushBegin, vars
  <1>4. CASE PushLeft \/ PushRight
    <2> DEFINE left == [audioRing[Cell(emu.w)] EXCEPT !.l = produced]
               right == [audioRing[Cell(emu.w)] EXCEPT !.r = produced]
    <2>1. /\ Pushing /\ UNCHANGED <<audioWriteIdx, audioReadIdx, delivered>>
          /\ \E v \in {left, right} : audioRing' = [audioRing EXCEPT ![Cell(emu.w)] = v]
      BY <1>4 DEF PushLeft, PushRight, Pushing
    <2>2. emu.w = audioWriteIdx /\ Level < RingFrames
      BY <2>1 DEF IInv, EmuInv
    <2>3. Level' = Level
      BY <2>1 DEF Level
    <2>4. \A i \in 0 .. Level - 1 : Waiting(i)' = Waiting(i)
      BY <1>1, <2>1, <2>2, StoreApart
    <2> QED
      BY <1>1, <2>1, <2>3, <2>4, Unseen
  <1>5. CASE PushPublish
    BY <1>5, PublishAppends DEF Promise!Next
  <1>6. CASE (\E frames \in Requests : ReadBegin(frames)) \/ ReadAvailable \/ ReadLeft \/ ReadRight
    BY <1>2, <1>6 DEF ReadBegin, ReadAvailable, ReadLeft, ReadRight
  <1>7. CASE ReadEnd
    BY <1>7, EndDelivers DEF Promise!Next
  <1>8. CASE Control
    BY <1>8, ControlFlushes DEF Promise!Next
  <1> QED
    BY <1>3, <1>4, <1>5, <1>6, <1>7, <1>8 DEF Next, Producer, Consumer

\* Seen from outside, the interleaved loads and stores of the two threads are a
\* bounded queue: pushes at one end, deliveries in order from the other, flushes.
THEOREM RefinementTheorem == Spec => ImplementsQueue
  <1>1. Init => Promise!Init
    <2> SUFFICES ASSUME Init PROVE Promise!Init
      OBVIOUS
    <2>1. Level = 0
      BY FillRange, WrapAssumption DEF Init, Level
    <2>2. Queued \in Seq(Frames) /\ Len(Queued) = 0
      BY <2>1, Initially, QueuedFrames DEF IInv, QueuedIsWaiting
    <2>3. Queued = << >>
      BY <2>2, EmptySeq
    <2> QED
      BY <2>3 DEF Init, Promise!Init
  <1>2. IInv /\ IInv' /\ [Next]_vars => [Promise!Next]_<<Queued, delivered>>
    BY StepRefines
  <1> QED
    BY <1>1, <1>2, Invariant, PTL DEF Spec, ImplementsQueue, Promise!Spec
=============================================================================
