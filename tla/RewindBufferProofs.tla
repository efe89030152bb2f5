------------------------- MODULE RewindBufferProofs -------------------------
(***************************************************************************)
(* Proofs about RewindBuffer for every capacity, keyframe interval and set *)
(* of save states.  Its types, its window, its slots, the bound of its     *)
(* pool and its byte count hold whatever the lengths; what the frames      *)
(* decode to, that the ring implements RewindWindow and what a crash dump  *)
(* keeps are proved as long as no save state outgrows a slot of the pool.  *)
(* The last section is what RewindSessionProofs needs: pushes that nobody  *)
(* vouches for.                                                            *)
(***************************************************************************)
EXTENDS RewindBuffer, SequenceTheorems, FiniteSetTheorems, WellFoundedInduction, TLAPS

\* Every save state fits in a slot of the pool as it was created.
Fits == \A f \in Frames : Size[f] <= InitialSlotBytes

-----------------------------------------------------------------------------
(* The inductive invariant *)

\* Every retained keyframe holds one whole save state.
WholeKeyframes(b) ==
    \A i \in Window(b) :
        IsKeyframe(Entry(b, i)) =>
            /\ b.pool.buffers[Entry(b, i).slot] \in Frames
            /\ Entry(b, i).length = Size[b.pool.buffers[Entry(b, i).slot]]

\* A delta was encoded against the keyframe nearest to it, and once that one
\* is evicted only a promoted head can be a keyframe older than the delta.
NearestBase(b) ==
    \A i \in Window(b) : \A j \in 0 .. i - 1 :
        IsDelta(Entry(b, i)) /\ IsKeyframe(Entry(b, j)) =>
            \/ KeyframeAt(b, Entry(b, i)) >= 0 /\ j <= KeyframeAt(b, Entry(b, i))
            \/ KeyframeAt(b, Entry(b, i)) < 0 /\ j = 0

\* The part of it that no length of a save state can break.
Sound(b) == BufferType(b) /\ DenseWindow(b) /\ OwnedSlots(b)

RingCore(b) ==
    /\ Sound(b)
    /\ OwnBase(b)
    /\ WholeKeyframes(b)
    /\ b.pool.slotCapacity = InitialSlotBytes

RingInv(b) == RingCore(b) /\ NearestBase(b)

IInv ==
    /\ RingInv(rb)
    /\ pushedSoFar \in 0 .. MaxPushes
    /\ forceKeyframeNext \in BOOLEAN

-----------------------------------------------------------------------------
(* Circular indexing *)

\* slotIndex(at:) wraps at most once.
LEMMA Wraps ==
    \A h \in 0 .. Capacity - 1, i \in 0 .. Capacity :
        CellAt(h, i) = IF h + i < Capacity THEN h + i ELSE h + i - Capacity
  BY CapacityAssumption DEF CellAt

\* slotIndex(at:) stays inside the array.
LEMMA CellRange ==
    \A h \in 0 .. Capacity - 1, i \in 0 .. Capacity - 1 : CellAt(h, i) \in 0 .. Capacity - 1
  <1> TAKE h \in 0 .. Capacity - 1, i \in 0 .. Capacity - 1
  <1>1. i \in 0 .. Capacity
    BY CapacityAssumption
  <1>2. CellAt(h, i) = IF h + i < Capacity THEN h + i ELSE h + i - Capacity
    BY <1>1, Wraps
  <1> QED
    BY <1>2, CapacityAssumption

\* slotIndex(at:) separates the cursors.
LEMMA CellInjective ==
    \A h \in 0 .. Capacity - 1, i, j \in 0 .. Capacity - 1 :
        CellAt(h, i) = CellAt(h, j) => i = j
  BY Wraps, CapacityAssumption

\* slotIndex(at:) reaches every cell.
LEMMA CellOnto ==
    ASSUME NEW h \in 0 .. Capacity - 1, NEW c \in 0 .. Capacity - 1
    PROVE  \E i \in 0 .. Capacity - 1 : CellAt(h, i) = c
  <1> DEFINE i == IF c >= h THEN c - h ELSE c - h + Capacity
  <1>1. i \in 0 .. Capacity - 1
    BY CapacityAssumption
  <1>2. CellAt(h, i) = c
    BY Wraps, <1>1, CapacityAssumption
  <1> QED
    BY <1>1, <1>2

\* The head is the cell of cursor 0.
LEMMA CellZero == \A h \in 0 .. Capacity - 1 : CellAt(h, 0) = h
  BY Wraps, CapacityAssumption

\* The cell after the head.
LEMMA CellOne ==
    \A h \in 0 .. Capacity - 1 : CellAt(h, 1) = IF h + 1 < Capacity THEN h + 1 ELSE 0
  BY Wraps, CapacityAssumption

\* Advancing the head by one shifts every cursor by one.
LEMMA CellNext ==
    ASSUME NEW h \in 0 .. Capacity - 1, NEW g, g = CellAt(h, 1),
           NEW i \in 0 .. Capacity - 1
    PROVE  /\ g \in 0 .. Capacity - 1
           /\ CellAt(g, i) = CellAt(h, i + 1)
           /\ CellAt(h, i + 1) \in 0 .. Capacity - 1
           /\ CellAt(h, i + 1) = h <=> i = Capacity - 1
  <1>1. g = IF h + 1 < Capacity THEN h + 1 ELSE 0
    BY CellOne
  <1>2. g \in 0 .. Capacity - 1
    BY <1>1, CapacityAssumption
  <1>3. i + 1 \in 0 .. Capacity /\ i \in 0 .. Capacity
    BY CapacityAssumption
  <1>4. CellAt(h, i + 1) = IF h + (i + 1) < Capacity THEN h + (i + 1)
                           ELSE h + (i + 1) - Capacity
    BY <1>3, Wraps
  <1>5. CellAt(g, i) = IF g + i < Capacity THEN g + i ELSE g + i - Capacity
    BY <1>2, <1>3, Wraps
  <1>6. CASE h + 1 < Capacity
    BY <1>1, <1>2, <1>4, <1>5, <1>6, CapacityAssumption
  <1>7. CASE h = Capacity - 1
    BY <1>1, <1>2, <1>4, <1>5, <1>7, CapacityAssumption
  <1> QED
    BY <1>6, <1>7, CapacityAssumption

\* The same, for a buffer and its successor.
LEMMA SlotNext ==
    ASSUME NEW b, NEW c, b.ringHead \in 0 .. Capacity - 1,
           c.ringHead = CellAt(b.ringHead, 1), NEW i \in 0 .. Capacity - 1
    PROVE  SlotIndex(c, i) = SlotIndex(b, i + 1)
  BY CellNext DEF SlotIndex

\* setEntry(at: k) replaces the entry at that cursor only.
LEMMA WriteEntry ==
    ASSUME NEW b, NEW c, BufferType(b), NEW e, NEW k \in 0 .. Capacity - 1,
           c.ringHead = b.ringHead,
           c.ring = SetEntry(b, k, e)
    PROVE  \A i \in 0 .. Capacity - 1 : Entry(c, i) = IF i = k THEN e ELSE Entry(b, i)
  <1> TAKE i \in 0 .. Capacity - 1
  <1>1. b.ringHead \in 0 .. Capacity - 1 /\ b.ring \in [0 .. Capacity - 1 -> FrameEntry \cup {Nil}]
    BY DEF BufferType
  <1>2. /\ CellAt(b.ringHead, i) \in 0 .. Capacity - 1
        /\ CellAt(b.ringHead, k) \in 0 .. Capacity - 1
        /\ CellAt(b.ringHead, i) = CellAt(b.ringHead, k) => i = k
    BY <1>1, CellRange, CellInjective
  <1>3. [b.ring EXCEPT ![CellAt(b.ringHead, k)] = e][CellAt(b.ringHead, i)]
          = IF i = k THEN e ELSE b.ring[CellAt(b.ringHead, i)]
    BY <1>1, <1>2
  <1> QED
    BY <1>3 DEF Entry, SlotIndex, SetEntry

\* Advancing ringHead past a cleared cell renumbers the cursors by one.
LEMMA AdvanceHead ==
    ASSUME NEW b, NEW c, BufferType(b),
           c.ringHead = CellAt(b.ringHead, 1),
           c.ring = SetEntry(b, 0, Nil)
    PROVE  /\ c.ringHead \in 0 .. Capacity - 1
           /\ \A i \in 0 .. Capacity - 1 :
                 Entry(c, i) = IF i = Capacity - 1 THEN Nil ELSE Entry(b, i + 1)
  <1>0. b.ringHead \in 0 .. Capacity - 1 /\ b.ring \in [0 .. Capacity - 1 -> FrameEntry \cup {Nil}]
    BY DEF BufferType
  <1>1. c.ringHead \in 0 .. Capacity - 1
    BY <1>0, CellOne, CapacityAssumption
  <1>2. ASSUME NEW i \in 0 .. Capacity - 1
        PROVE  Entry(c, i) = IF i = Capacity - 1 THEN Nil ELSE Entry(b, i + 1)
    <2>1. SlotIndex(c, i) = SlotIndex(b, i + 1)
      BY <1>0, SlotNext
    <2>2. CellAt(b.ringHead, i + 1) \in 0 .. Capacity - 1
      BY <1>0, CellNext
    <2>3. CellAt(b.ringHead, i + 1) = b.ringHead <=> i = Capacity - 1
      BY <1>0, CellNext
    <2> QED
      BY <1>0, <2>1, <2>2, <2>3, CellZero DEF Entry, SlotIndex, SetEntry
  <1> QED
    BY <1>1, <1>2

\* Clearing the cells of a set of cursors leaves the others alone.
LEMMA EraseEntries ==
    ASSUME NEW b, NEW c, BufferType(b), NEW n \in 0 .. Capacity, NEW m \in 0 .. n,
           c.ringHead = b.ringHead,
           c.ring = Without(b, m .. n - 1)
    PROVE  \A i \in 0 .. Capacity - 1 : Entry(c, i) = IF i \in m .. n - 1 THEN Nil ELSE Entry(b, i)
  <1> DEFINE D == m .. n - 1
  <1>0. D \subseteq 0 .. Capacity - 1
    BY CapacityAssumption
  <1> HIDE DEF D
  <1>1. /\ \A i \in 0 .. Capacity - 1 : CellAt(b.ringHead, i) \in 0 .. Capacity - 1
        /\ \A i, j \in 0 .. Capacity - 1 :
              CellAt(b.ringHead, i) = CellAt(b.ringHead, j) => i = j
    BY CellRange, CellInjective DEF BufferType
  <1>2. \A i \in 0 .. Capacity - 1 : SlotIndex(b, i) \in Cells(b, D) <=> i \in D
    BY <1>0, <1>1 DEF Cells, SlotIndex
  <1>3. c.ring = Without(b, D)
    BY DEF D
  <1> QED
    BY <1>1, <1>2, <1>3 DEF Entry, Without, SlotIndex, D

-----------------------------------------------------------------------------
(* The pool *)

PoolOwned(p) == PoolType(p) /\ p.free = (0 .. p.slots - 1) \ p.alive

\* acquire() hands out a slot nobody owns, whether or not the pool grows.
LEMMA AcquireOwned ==
    ASSUME NEW p, PoolOwned(p), NEW content \in Contents, NEW n \in Nat
    PROVE  LET s == NextSlot(p)
               q == Acquire(p, content, n)
           IN s \in Nat /\ s \notin p.alive /\ PoolOwned(q) /\ q.alive = p.alive \cup {s}
  <1> DEFINE s == NextSlot(p)
             r == EnsureSlotCapacity(p, n)
             q == Acquire(p, content, n)
  <1>1. s \in p.free \/ s = p.slots
    BY DEF NextSlot
  <1>2. s \in Nat /\ s \notin p.alive /\ s <= p.slots
    BY <1>1 DEF PoolOwned, PoolType
  <1>3. /\ r.slots = p.slots /\ r.free = p.free /\ r.alive = p.alive
        /\ r.slotCapacity \in Nat /\ r.buffers \in [0 .. p.slots - 1 -> Contents]
    BY DEF EnsureSlotCapacity, Pool, PoolOwned, PoolType, Contents
  <1>4. q = Fill(r, s, content)
    BY DEF Acquire
  <1> HIDE DEF s, r, q
  <1>5. /\ q.slots = IF s = p.slots THEN p.slots + 1 ELSE p.slots
        /\ q.slotCapacity = r.slotCapacity
        /\ q.buffers = [t \in 0 .. q.slots - 1 |->
                          IF t = s THEN content ELSE r.buffers[t]]
        /\ q.free = p.free \ {s}
        /\ q.alive = p.alive \cup {s}
    BY <1>3, <1>4 DEF Fill, Pool
  <1>6. q.slots \in Nat /\ s \in 0 .. q.slots - 1 /\ p.slots <= q.slots
    BY <1>2, <1>5 DEF PoolOwned, PoolType
  <1>7. q.buffers \in [0 .. q.slots - 1 -> Contents]
    BY <1>2, <1>3, <1>5, <1>6 DEF PoolOwned, PoolType
  <1>8. q.free = (0 .. q.slots - 1) \ q.alive
    BY <1>2, <1>5 DEF PoolOwned, PoolType
  <1>9. PoolOwned(q)
    BY <1>2, <1>3, <1>5, <1>6, <1>7, <1>8 DEF PoolOwned, PoolType
  <1> QED
    BY <1>2, <1>5, <1>9 DEF s, q

\* acquire() of bytes that fit hands out a slot nobody owns and leaves the
\* contents of the owned ones alone.
LEMMA AcquireFresh ==
    ASSUME NEW p, PoolOwned(p), NEW content \in Contents, NEW n, n <= p.slotCapacity
    PROVE  LET s == NextSlot(p)
               q == Acquire(p, content, n)
           IN /\ s \in Nat
              /\ s \notin p.alive
              /\ PoolOwned(q)
              /\ q.alive = p.alive \cup {s}
              /\ q.slotCapacity = p.slotCapacity
              /\ q.buffers[s] = content
              /\ \A t \in p.alive : q.buffers[t] = p.buffers[t]
  <1> DEFINE s == NextSlot(p)
             q == Acquire(p, content, n)
  <1>1. s \in p.free \/ s = p.slots
    BY DEF NextSlot
  <1>2. s \in Nat /\ s \notin p.alive /\ s <= p.slots
    BY <1>1 DEF PoolOwned, PoolType
  <1>3. q = Fill(p, s, content)
    BY DEF Acquire, EnsureSlotCapacity
  <1> HIDE DEF s, q
  <1>4. /\ q.slots = IF s = p.slots THEN p.slots + 1 ELSE p.slots
        /\ q.slotCapacity = p.slotCapacity
        /\ q.buffers = [t \in 0 .. q.slots - 1 |->
                          IF t = s THEN content ELSE p.buffers[t]]
        /\ q.free = p.free \ {s}
        /\ q.alive = p.alive \cup {s}
    BY <1>3 DEF Fill, Pool
  <1>5. q.slots \in Nat /\ s \in 0 .. q.slots - 1 /\ p.slots <= q.slots
    BY <1>2, <1>4 DEF PoolOwned, PoolType
  <1>6. q.buffers \in [0 .. q.slots - 1 -> Contents]
    BY <1>2, <1>4, <1>5 DEF PoolOwned, PoolType
  <1>7. q.buffers[s] = content /\ \A t \in p.alive : q.buffers[t] = p.buffers[t]
    BY <1>2, <1>4 DEF PoolOwned, PoolType
  <1>8. q.free = (0 .. q.slots - 1) \ q.alive
    BY <1>2, <1>4 DEF PoolOwned, PoolType
  <1>9. PoolOwned(q)
    BY <1>2, <1>4, <1>5, <1>6, <1>8 DEF PoolOwned, PoolType
  <1> QED
    BY <1>2, <1>4, <1>7, <1>9 DEF s, q

\* release() of owned slots.
LEMMA ReleaseOwned ==
    ASSUME NEW p, PoolOwned(p), NEW R \in SUBSET p.alive
    PROVE  /\ PoolOwned(ReleaseSet(p, R))
           /\ ReleaseSet(p, R).alive = p.alive \ R
           /\ ReleaseSet(p, R).slotCapacity = p.slotCapacity
           /\ ReleaseSet(p, R).buffers = p.buffers
  BY DEF PoolOwned, PoolType, ReleaseSet, Pool

-----------------------------------------------------------------------------
(* The window and its slots, whatever the lengths of the save states *)

\* An entry of the window is a frame entry, and all others are Nil.
LEMMA WindowEntries ==
    ASSUME NEW b, BufferType(b), DenseWindow(b)
    PROVE  /\ Window(b) \subseteq 0 .. Capacity - 1
           /\ \A i \in Window(b) : Entry(b, i) \in FrameEntry
           /\ \A i \in 0 .. Capacity - 1 : Entry(b, i) \in FrameEntry \cup {Nil}
  <1>1. Window(b) \subseteq 0 .. Capacity - 1
    BY CapacityAssumption DEF Window, BufferType
  <1>2. \A i \in 0 .. Capacity - 1 : Entry(b, i) \in FrameEntry \cup {Nil}
    BY CellRange DEF Entry, SlotIndex, BufferType
  <1>3. \A i \in Window(b) : Entry(b, i) # Nil
    BY <1>1, CapacityAssumption DEF Window, BufferType, DenseWindow
  <1> QED
    BY <1>1, <1>2, <1>3

\* A keyframe written at the end of the window, or over a delta of it, takes a
\* slot of its own and leaves every other entry as it was.
LEMMA SoundPut ==
    ASSUME NEW b, NEW c, Sound(b), NEW content \in Contents, NEW n \in Nat,
           NEW k \in 0 .. Capacity - 1,
           \/ k = b.ringSize /\ c.ringSize = b.ringSize + 1
           \/ k \in Window(b) /\ IsDelta(Entry(b, k)) /\ c.ringSize = b.ringSize,
           c.ring = SetEntry(b, k, Keyframe(NextSlot(b.pool), n)),
           c.ringHead = b.ringHead, c.firstLogicalIdx = b.firstLogicalIdx,
           c.pool = Acquire(b.pool, content, n)
    PROVE  /\ Sound(c)
           /\ \A i \in 0 .. Capacity - 1 :
                Entry(c, i) = IF i = k THEN Keyframe(NextSlot(b.pool), n) ELSE Entry(b, i)
  <1> DEFINE s == NextSlot(b.pool)
             e == Keyframe(s, n)
  <1>1. BufferType(b) /\ DenseWindow(b) /\ OwnedSlots(b)
    BY DEF Sound
  <1>2. PoolOwned(b.pool)
    BY <1>1 DEF PoolOwned, BufferType, OwnedSlots
  <1>4. /\ s \in Nat /\ s \notin b.pool.alive
        /\ PoolOwned(c.pool)
        /\ c.pool.alive = b.pool.alive \cup {s}
    BY <1>2, AcquireOwned
  <1>5. e \in FrameEntry /\ IsKeyframe(e) /\ e.slot = s /\ e # Nil /\ ~IsDelta(e)
    BY <1>4 DEF FrameEntry, Keyframes, Keyframe, IsKeyframe, IsDelta, Nil
  <1> HIDE DEF s, e
  <1>6. \A i \in 0 .. Capacity - 1 : Entry(c, i) = IF i = k THEN e ELSE Entry(b, i)
    <2>1. c.ring = SetEntry(b, k, e)
      BY DEF e, s
    <2> QED
      BY <1>1, <2>1, WriteEntry
  <1>7. BufferType(c)
    <2>1. c.ring \in [0 .. Capacity - 1 -> FrameEntry \cup {Nil}]
      BY <1>1, <1>5 DEF BufferType, SetEntry, e, s
    <2>2. c.ringSize \in 0 .. Capacity
      BY <1>1, CapacityAssumption DEF BufferType
    <2> QED
      BY <1>1, <1>4, <2>1, <2>2 DEF BufferType, PoolOwned
  <1>8. DenseWindow(c)
    BY <1>1, <1>5, <1>6 DEF DenseWindow, BufferType, Window
  <1>9. /\ Window(b) \subseteq Window(c) /\ k \in Window(c)
        /\ \A i \in Window(c) : i = k \/ i \in Window(b)
        /\ Window(c) \subseteq 0 .. Capacity - 1
    BY <1>1, CapacityAssumption DEF Window, BufferType
  <1>10. \A i \in Window(b) : IsKeyframe(Entry(b, i)) => i # k /\ Entry(b, i).slot \in b.pool.alive
    BY <1>1 DEF OwnedSlots, SlotsOf, Window, BufferType, IsDelta, IsKeyframe
  <1>11. OwnedSlots(c)
    <2>1. \A i, j \in Window(c) :
            IsKeyframe(Entry(c, i)) /\ IsKeyframe(Entry(c, j))
              /\ Entry(c, i).slot = Entry(c, j).slot => i = j
      BY <1>1, <1>4, <1>5, <1>6, <1>9, <1>10 DEF OwnedSlots
    <2>2. SlotsOf(c, Window(c)) = c.pool.alive
      BY <1>1, <1>4, <1>5, <1>6, <1>9, <1>10 DEF OwnedSlots, SlotsOf
    <2> QED
      BY <1>4, <2>1, <2>2 DEF OwnedSlots, PoolOwned
  <1> QED
    BY <1>6, <1>7, <1>8, <1>11 DEF Sound, e, s

\* A delta appended below capacity against a keyframe j takes no slot.
LEMMA SoundDelta ==
    ASSUME NEW b, Sound(b), b.ringSize < Capacity, NEW f \in Frames, NEW n \in PackedSizes,
           NEW j \in Window(b), IsKeyframe(Entry(b, j)),
           NEW e, e = Delta(j + b.firstLogicalIdx, f, b.pool.buffers[Entry(b, j).slot], n),
           NEW c, c.ring = SetEntry(b, b.ringSize, e), c.ringHead = b.ringHead,
           c.ringSize = b.ringSize + 1, c.firstLogicalIdx = b.firstLogicalIdx, c.pool = b.pool
    PROVE  /\ Sound(c)
           /\ \A i \in 0 .. Capacity - 1 : Entry(c, i) = IF i = b.ringSize THEN e ELSE Entry(b, i)
           /\ IsDelta(e) /\ ~IsKeyframe(e)
           /\ e.keyframeLogical = j + b.firstLogicalIdx /\ e.of = f
           /\ e.base = b.pool.buffers[Entry(b, j).slot]
  <1> DEFINE m == b.ringSize
  <1>1. BufferType(b) /\ DenseWindow(b) /\ OwnedSlots(b)
    BY DEF Sound
  <1>3. m \in 0 .. Capacity - 1 /\ b.firstLogicalIdx \in Nat /\ j \in Nat
    BY <1>1, CapacityAssumption DEF BufferType, Window
  <1>5. Entry(b, j).slot \in b.pool.alive /\ b.pool.buffers[Entry(b, j).slot] \in Contents
    <2>1. Entry(b, j).slot \in b.pool.alive
      BY <1>1 DEF OwnedSlots, SlotsOf
    <2> QED
      BY <1>1, <2>1 DEF BufferType, PoolType
  <1>6. /\ e \in FrameEntry /\ IsDelta(e) /\ ~IsKeyframe(e) /\ e # Nil
        /\ e.keyframeLogical = j + b.firstLogicalIdx /\ e.of = f
        /\ e.base = b.pool.buffers[Entry(b, j).slot]
    BY <1>3, <1>5, PackedAssumption DEF FrameEntry, Deltas, Delta, IsKeyframe, IsDelta, Nil
  <1>7. \A i \in 0 .. Capacity - 1 : Entry(c, i) = IF i = m THEN e ELSE Entry(b, i)
    BY <1>1, <1>3, WriteEntry
  <1>8. BufferType(c)
    <2>1. c.ring \in [0 .. Capacity - 1 -> FrameEntry \cup {Nil}]
      BY <1>1, <1>6 DEF BufferType, SetEntry
    <2>2. c.ringSize \in 0 .. Capacity
      BY <1>3, CapacityAssumption
    <2> QED
      BY <1>1, <2>1, <2>2 DEF BufferType
  <1>9. DenseWindow(c)
    BY <1>1, <1>3, <1>6, <1>7 DEF DenseWindow
  <1>10. /\ Window(c) \subseteq 0 .. Capacity - 1
         /\ \A i \in Window(c) : i = m \/ i \in Window(b)
         /\ Window(b) \subseteq Window(c)
         /\ m \notin Window(b)
    BY <1>3, CapacityAssumption DEF Window
  <1>11. OwnedSlots(c)
    <2>1. \A i, k \in Window(c) :
            IsKeyframe(Entry(c, i)) /\ IsKeyframe(Entry(c, k))
              /\ Entry(c, i).slot = Entry(c, k).slot => i = k
      BY <1>1, <1>6, <1>7, <1>10 DEF OwnedSlots
    <2>2. SlotsOf(c, Window(c)) = SlotsOf(b, Window(b))
      BY <1>6, <1>7, <1>10 DEF SlotsOf
    <2> QED
      BY <1>1, <2>1, <2>2 DEF OwnedSlots
  <1> QED
    BY <1>6, <1>7, <1>8, <1>9, <1>11 DEF Sound

\* Dropping the head renumbers the window and frees the head's slot.
LEMMA SoundHead ==
    ASSUME NEW b, Sound(b), b.ringSize > 0, NEW c, c = DropHead(b)
    PROVE  /\ Sound(c)
           /\ c.ringSize = b.ringSize - 1
           /\ c.firstLogicalIdx = b.firstLogicalIdx + 1
           /\ \A i \in 0 .. b.ringSize - 2 : Entry(c, i) = Entry(b, i + 1)
           /\ c.pool.buffers = b.pool.buffers
           /\ c.pool.slotCapacity = b.pool.slotCapacity
  <1> DEFINE h == Entry(b, 0)
             m == b.ringSize
  <1>1. BufferType(b) /\ DenseWindow(b) /\ OwnedSlots(b)
    BY DEF Sound
  <1>2. /\ c.ring = SetEntry(b, 0, Nil) /\ c.ringHead = CellAt(b.ringHead, 1)
        /\ c.ringSize = m - 1 /\ c.firstLogicalIdx = b.firstLogicalIdx + 1
        /\ c.pool = IF IsKeyframe(h) THEN ReleaseSet(b.pool, {h.slot}) ELSE b.pool
    BY DEF DropHead, Buffer
  <1>3. m \in 1 .. Capacity /\ b.firstLogicalIdx \in Nat
    BY <1>1, CapacityAssumption DEF BufferType
  <1>4. /\ c.ringHead \in 0 .. Capacity - 1
        /\ \A i \in 0 .. Capacity - 1 :
              Entry(c, i) = IF i = Capacity - 1 THEN Nil ELSE Entry(b, i + 1)
    BY <1>1, <1>2, AdvanceHead
  <1>5. \A i \in 0 .. m - 2 : Entry(c, i) = Entry(b, i + 1)
    BY <1>3, <1>4, CapacityAssumption
  <1>6. PoolOwned(b.pool) /\ (IsKeyframe(h) => h.slot \in b.pool.alive)
    BY <1>1, <1>3 DEF PoolOwned, BufferType, OwnedSlots, SlotsOf, Window
  <1>7. /\ PoolOwned(c.pool) /\ c.pool.slotCapacity = b.pool.slotCapacity
        /\ c.pool.buffers = b.pool.buffers
        /\ c.pool.alive = IF IsKeyframe(h) THEN b.pool.alive \ {h.slot} ELSE b.pool.alive
    <2>1. CASE IsKeyframe(h)
      <3>1. {h.slot} \in SUBSET b.pool.alive
        BY <1>6, <2>1
      <3> QED
        BY <1>1, <1>2, <1>6, <2>1, <3>1, ReleaseOwned
    <2>2. CASE ~IsKeyframe(h)
      BY <1>1, <1>2, <1>6, <2>2
    <2> QED
      BY <2>1, <2>2
  <1>8. BufferType(c)
    <2>1. c.ring \in [0 .. Capacity - 1 -> FrameEntry \cup {Nil}]
      BY <1>1, <1>2 DEF BufferType, SetEntry
    <2> QED
      BY <1>2, <1>3, <1>4, <1>7, <2>1, CapacityAssumption DEF BufferType, PoolOwned
  <1>9. DenseWindow(c)
    <2> SUFFICES ASSUME NEW i \in 0 .. Capacity - 1
                 PROVE  Entry(c, i) # Nil <=> i < c.ringSize
      BY DEF DenseWindow
    <2>1. CASE i = Capacity - 1
      BY <1>2, <1>3, <1>4, <2>1, CapacityAssumption
    <2>2. CASE i # Capacity - 1
      <3>1. i + 1 \in 0 .. Capacity - 1 /\ Entry(c, i) = Entry(b, i + 1)
        BY <1>4, <2>2, CapacityAssumption
      <3>2. Entry(b, i + 1) # Nil <=> i + 1 < m
        BY <1>1, <3>1 DEF DenseWindow
      <3> QED
        BY <1>2, <1>3, <3>1, <3>2
    <2> QED
      BY <2>1, <2>2
  <1>10. /\ \A i \in Window(c) : i \in 0 .. m - 2 /\ i + 1 \in Window(b)
         /\ \A i \in Window(b) : i = 0 \/ i - 1 \in Window(c)
    BY <1>2, <1>3 DEF Window
  <1>11. OwnedSlots(c)
    <2>1. ASSUME NEW i \in Window(c), NEW j \in Window(c),
                 IsKeyframe(Entry(c, i)), IsKeyframe(Entry(c, j)),
                 Entry(c, i).slot = Entry(c, j).slot
          PROVE  i = j
      <3>1. i + 1 = j + 1
        BY <1>1, <1>5, <1>10, <2>1 DEF OwnedSlots
      <3> QED
        BY <3>1, <1>10
    <2>2. ASSUME NEW i \in Window(c), IsKeyframe(Entry(c, i))
          PROVE  Entry(c, i).slot \in c.pool.alive
      <3>1. /\ i + 1 \in Window(b) /\ Entry(c, i) = Entry(b, i + 1)
            /\ 0 \in Window(b) /\ i + 1 # 0
        BY <1>3, <1>5, <1>10 DEF Window
      <3>2. Entry(b, i + 1).slot \in b.pool.alive
        BY <1>1, <2>2, <3>1 DEF OwnedSlots, SlotsOf
      <3>3. IsKeyframe(h) => Entry(b, i + 1).slot # h.slot
        BY <1>1, <2>2, <3>1 DEF OwnedSlots
      <3> QED
        BY <1>7, <3>1, <3>2, <3>3
    <2>3. ASSUME NEW s \in c.pool.alive
          PROVE  \E i \in Window(c) : IsKeyframe(Entry(c, i)) /\ Entry(c, i).slot = s
      <3>1. PICK i \in Window(b) : IsKeyframe(Entry(b, i)) /\ Entry(b, i).slot = s
        BY <1>1, <1>7 DEF OwnedSlots, SlotsOf
      <3>2. i # 0
        BY <1>7, <3>1
      <3>3. i - 1 \in Window(c) /\ Entry(c, i - 1) = Entry(b, i)
        BY <1>3, <1>5, <1>10, <3>2 DEF Window
      <3> QED
        BY <3>1, <3>3
    <2>4. SlotsOf(c, Window(c)) = c.pool.alive
      BY <2>2, <2>3 DEF SlotsOf
    <2> QED
      BY <1>7, <2>1, <2>4 DEF OwnedSlots, PoolOwned
  <1> QED
    BY <1>2, <1>5, <1>7, <1>8, <1>9, <1>11 DEF Sound

\* Erasing the newest entries, down to the first m, frees their slots.
LEMMA SoundTruncated ==
    ASSUME NEW b, Sound(b), NEW m \in 0 .. b.ringSize,
           NEW D, D = m .. (b.ringSize - 1),
           NEW c, c.ring = Without(b, D), c.ringHead = b.ringHead, c.ringSize = m,
           c.firstLogicalIdx = b.firstLogicalIdx,
           c.pool = ReleaseSet(b.pool, SlotsOf(b, D))
    PROVE  /\ Sound(c)
           /\ \A i \in 0 .. m - 1 : Entry(c, i) = Entry(b, i)
           /\ c.pool.buffers = b.pool.buffers
           /\ c.pool.slotCapacity = b.pool.slotCapacity
  <1>1. BufferType(b) /\ DenseWindow(b) /\ OwnedSlots(b)
    BY DEF Sound
  <1>2. b.ringSize \in 0 .. Capacity /\ m \in 0 .. Capacity
    BY <1>1, CapacityAssumption DEF BufferType
  <1>4. \A i \in 0 .. Capacity - 1 : Entry(c, i) = IF i \in D THEN Nil ELSE Entry(b, i)
    BY <1>1, <1>2, EraseEntries
  <1>5. \A i \in 0 .. m - 1 : Entry(c, i) = Entry(b, i)
    BY <1>2, <1>4, CapacityAssumption
  <1>6. /\ Window(c) = 0 .. m - 1 /\ Window(c) \subseteq Window(b) /\ D \subseteq Window(b)
        /\ \A i \in Window(b) : i \in D \/ i \in Window(c)
        /\ \A i \in Window(c) : i \notin D
    BY <1>2 DEF Window
  <1>7. PoolOwned(b.pool) /\ SlotsOf(b, D) \in SUBSET b.pool.alive
    BY <1>1, <1>6 DEF PoolOwned, BufferType, OwnedSlots, SlotsOf
  <1>8. /\ PoolOwned(c.pool) /\ c.pool.slotCapacity = b.pool.slotCapacity
        /\ c.pool.buffers = b.pool.buffers
        /\ c.pool.alive = b.pool.alive \ SlotsOf(b, D)
    BY <1>1, <1>7, ReleaseOwned
  <1>9. BufferType(c)
    <2>1. c.ring \in [0 .. Capacity - 1 -> FrameEntry \cup {Nil}]
      BY <1>1 DEF BufferType, Without
    <2> QED
      BY <1>1, <1>2, <1>8, <2>1 DEF BufferType, PoolOwned
  <1>10. DenseWindow(c)
    BY <1>1, <1>2, <1>4 DEF DenseWindow
  <1>11. OwnedSlots(c)
    <2>1. ASSUME NEW i \in Window(c), NEW j \in Window(c),
                 IsKeyframe(Entry(c, i)), IsKeyframe(Entry(c, j)),
                 Entry(c, i).slot = Entry(c, j).slot
          PROVE  i = j
      BY <1>1, <1>5, <1>6, <2>1 DEF OwnedSlots
    <2>2. ASSUME NEW i \in Window(c), IsKeyframe(Entry(c, i))
          PROVE  Entry(c, i).slot \in c.pool.alive
      <3>1. Entry(b, i).slot \in b.pool.alive /\ Entry(c, i) = Entry(b, i)
        BY <1>1, <1>5, <1>6, <2>2 DEF OwnedSlots, SlotsOf
      <3>2. Entry(b, i).slot \notin SlotsOf(b, D)
        BY <1>1, <1>6, <2>2, <3>1 DEF OwnedSlots, SlotsOf
      <3> QED
        BY <1>8, <3>1, <3>2
    <2>3. ASSUME NEW s \in c.pool.alive
          PROVE  \E i \in Window(c) : IsKeyframe(Entry(c, i)) /\ Entry(c, i).slot = s
      <3>1. PICK i \in Window(b) : IsKeyframe(Entry(b, i)) /\ Entry(b, i).slot = s
        BY <1>1, <1>8 DEF OwnedSlots, SlotsOf
      <3>2. i \in Window(c)
        BY <1>6, <1>8, <3>1 DEF SlotsOf
      <3> QED
        BY <1>5, <1>6, <3>1, <3>2
    <2>4. SlotsOf(c, Window(c)) = c.pool.alive
      BY <2>2, <2>3 DEF SlotsOf
    <2> QED
      BY <1>8, <2>1, <2>4 DEF OwnedSlots, PoolOwned
  <1> QED
    BY <1>5, <1>8, <1>9, <1>10, <1>11 DEF Sound

-----------------------------------------------------------------------------
(* Storing a keyframe: an appended one, or a delta promoted in place *)

\* A keyframe written at the end of the window, or over a delta of it, takes a
\* slot of its own and leaves every other entry as it was.
LEMMA PutKeyframe ==
    ASSUME NEW b, NEW c, RingCore(b), NEW f \in Frames, Fits,
           NEW k \in 0 .. Capacity - 1,
           \/ k = b.ringSize /\ c.ringSize = b.ringSize + 1
           \/ k \in Window(b) /\ IsDelta(Entry(b, k)) /\ c.ringSize = b.ringSize,
           c.ring = SetEntry(b, k, Keyframe(NextSlot(b.pool), Size[f])),
           c.ringHead = b.ringHead, c.firstLogicalIdx = b.firstLogicalIdx,
           c.pool = Acquire(b.pool, f, Size[f])
    PROVE  /\ RingCore(c)
           /\ \A i \in 0 .. Capacity - 1 :
                Entry(c, i) = IF i = k THEN Keyframe(NextSlot(b.pool), Size[f]) ELSE Entry(b, i)
           /\ c.pool.buffers[NextSlot(b.pool)] = f
  <1> DEFINE s == NextSlot(b.pool)
             e == Keyframe(s, Size[f])
  <1>1. /\ BufferType(b) /\ DenseWindow(b) /\ OwnedSlots(b) /\ OwnBase(b)
        /\ WholeKeyframes(b) /\ b.pool.slotCapacity = InitialSlotBytes
    BY DEF RingCore, Sound
  <1>2. PoolOwned(b.pool)
    BY <1>1 DEF PoolOwned, BufferType, OwnedSlots
  <1>3. Size[f] \in Nat /\ Size[f] <= b.pool.slotCapacity /\ f \in Contents
    BY <1>1, SizeAssumption DEF Fits, Contents
  <1>4. /\ s \in Nat /\ s \notin b.pool.alive
        /\ PoolOwned(c.pool)
        /\ c.pool.alive = b.pool.alive \cup {s}
        /\ c.pool.slotCapacity = b.pool.slotCapacity
        /\ c.pool.buffers[s] = f
        /\ \A t \in b.pool.alive : c.pool.buffers[t] = b.pool.buffers[t]
    BY <1>2, <1>3, AcquireFresh
  <1>5. e \in FrameEntry /\ IsKeyframe(e) /\ e.slot = s /\ e.length = Size[f] /\ e # Nil
        /\ ~IsDelta(e)
    BY <1>3, <1>4 DEF FrameEntry, Keyframes, Keyframe, IsKeyframe, IsDelta, Nil
  <1> HIDE DEF s, e
  <1>6. /\ Sound(c)
        /\ \A i \in 0 .. Capacity - 1 : Entry(c, i) = IF i = k THEN e ELSE Entry(b, i)
    BY <1>1, <1>3, SoundPut DEF Sound, e, s
  <1>9. /\ Window(b) \subseteq Window(c) /\ k \in Window(c)
        /\ \A i \in Window(c) : i = k \/ i \in Window(b)
        /\ Window(c) \subseteq 0 .. Capacity - 1
    BY <1>1, CapacityAssumption DEF Window, BufferType
  <1>10. \A i \in Window(b) : IsKeyframe(Entry(b, i)) => i # k /\ Entry(b, i).slot \in b.pool.alive
    BY <1>1 DEF OwnedSlots, SlotsOf, Window, BufferType, IsDelta, IsKeyframe
  <1>12. OwnBase(c)
    <2> SUFFICES ASSUME NEW i \in Window(c), IsDelta(Entry(c, i)), KeyframeAt(c, Entry(c, i)) >= 0
                 PROVE  /\ KeyframeAt(c, Entry(c, i)) \in 0 .. i - 1
                        /\ IsKeyframe(Base(c, Entry(c, i)))
                        /\ SameBytes(c, Entry(c, i))
                        /\ Size[Entry(c, i).of] = Base(c, Entry(c, i)).length
      BY DEF OwnBase
    <2>1. i # k /\ i \in Window(b) /\ Entry(c, i) = Entry(b, i)
      BY <1>5, <1>6, <1>9
    <2> DEFINE d == Entry(b, i)
    <2>2. KeyframeAt(c, d) = KeyframeAt(b, d) /\ KeyframeAt(b, d) >= 0
      BY <2>1 DEF KeyframeAt
    <2>3. /\ KeyframeAt(b, d) \in 0 .. i - 1
          /\ IsKeyframe(Base(b, d))
          /\ SameBytes(b, d)
          /\ Size[d.of] = Base(b, d).length
      BY <1>1, <2>1, <2>2 DEF OwnBase
    <2>4. KeyframeAt(b, d) \in Window(b)
      BY <2>1, <2>3, <1>1 DEF Window, BufferType
    <2>5. Base(c, d) = Base(b, d) /\ Base(b, d).slot \in b.pool.alive
      BY <1>6, <1>9, <1>10, <2>2, <2>3, <2>4 DEF Base
    <2> QED
      BY <1>4, <2>1, <2>2, <2>3, <2>5 DEF SameBytes
  <1>13. WholeKeyframes(c)
    BY <1>1, <1>4, <1>5, <1>6, <1>9, <1>10 DEF WholeKeyframes
  <1> QED
    BY <1>1, <1>4, <1>6, <1>12, <1>13 DEF RingCore, e, s

-----------------------------------------------------------------------------
(* Appending a delta *)

\* nearestKeyframeIndex(forFrameIndex:) finds the newest older keyframe.
LEMMA NearestIsNewest ==
    ASSUME NEW b, NEW n \in Nat, NearestKeyframeIndex(b, n) # -1
    PROVE  /\ NearestKeyframeIndex(b, n) \in 0 .. n - 1
           /\ IsKeyframe(Entry(b, NearestKeyframeIndex(b, n)))
           /\ \A k \in 0 .. n - 1 : IsKeyframe(Entry(b, k)) => k <= NearestKeyframeIndex(b, n)
  <1> DEFINE K == KeyframesBelow(b, n)
  <1>1. K # {} /\ K \subseteq 0 .. n - 1
    BY DEF NearestKeyframeIndex, KeyframesBelow
  <1>2. \E j \in K : \A k \in K : k <= j
    <2> DEFINE T == {n - 1 - j : j \in K}
    <2>1. T \subseteq Nat /\ T # {}
      BY <1>1
    <2>2. PICK x \in T : \A y \in T : ~(<<y, x>> \in OpToRel(<, Nat))
      BY <2>1, NatLessThanWellFounded, WFMin
    <2>3. ASSUME NEW y \in T PROVE x <= y
      <3> HIDE DEF T
      <3>1. x \in Nat /\ y \in Nat
        BY <2>1
      <3>2. <<y, x>> \in Nat \X Nat /\ ~(<<y, x>> \in OpToRel(<, Nat))
        BY <2>2, <3>1
      <3>3. ~(y < x)
        BY <3>2 DEF OpToRel
      <3> QED
        BY <3>1, <3>3
    <2>4. PICK j \in K : x = n - 1 - j
      BY <2>2
    <2>5. ASSUME NEW k \in K PROVE k <= j
      <3>1. x <= n - 1 - k
        BY <2>3
      <3>2. k \in 0 .. n - 1 /\ j \in 0 .. n - 1
        BY <1>1
      <3> QED
        BY <2>4, <3>1, <3>2
    <2> QED
      BY <2>4, <2>5
  <1> QED
    BY <1>2 DEF NearestKeyframeIndex, KeyframesBelow

\* A delta of the right length, appended below capacity, keeps the invariant.
LEMMA DeltaAppended ==
    ASSUME NEW b, RingInv(b), b.ringSize < Capacity, NEW f \in Frames, NEW n \in PackedSizes,
           NEW j, j = NearestKeyframeIndex(b, b.ringSize), j # -1,
           Size[f] = Entry(b, j).length,
           NEW c, c = AppendDelta(b, f, n)
    PROVE  RingInv(c) /\ c.ringSize = b.ringSize + 1
  <1> DEFINE m == b.ringSize
             e == Delta(j + b.firstLogicalIdx, f, b.pool.buffers[Entry(b, j).slot], n)
  <1>1. /\ BufferType(b) /\ DenseWindow(b) /\ OwnedSlots(b) /\ OwnBase(b)
        /\ WholeKeyframes(b) /\ b.pool.slotCapacity = InitialSlotBytes /\ NearestBase(b)
    BY DEF RingInv, RingCore, Sound
  <1>2. /\ c.ring = SetEntry(b, m, e) /\ c.ringHead = b.ringHead /\ c.ringSize = m + 1
        /\ c.firstLogicalIdx = b.firstLogicalIdx /\ c.pool = b.pool
    BY DEF AppendDelta, Buffer
  <1>3. m \in 0 .. Capacity - 1 /\ b.firstLogicalIdx \in Nat
    BY <1>1, CapacityAssumption DEF BufferType
  <1>4. /\ j \in 0 .. m - 1 /\ IsKeyframe(Entry(b, j))
        /\ \A k \in 0 .. m - 1 : IsKeyframe(Entry(b, k)) => k <= j
    BY <1>3, NearestIsNewest
  <1>5. j \in Window(b) /\ IsKeyframe(Entry(b, j)) /\ Sound(b)
    BY <1>1, <1>4 DEF Window, Sound
  <1> HIDE DEF e
  <1>6. /\ Sound(c)
        /\ IsDelta(e) /\ ~IsKeyframe(e)
        /\ e.keyframeLogical = j + b.firstLogicalIdx /\ e.of = f
        /\ e.base = b.pool.buffers[Entry(b, j).slot]
    BY <1>2, <1>5, SoundDelta DEF e
  <1>7. \A i \in 0 .. Capacity - 1 : Entry(c, i) = IF i = m THEN e ELSE Entry(b, i)
    BY <1>2, <1>5, SoundDelta DEF e
  <1>10. /\ Window(c) \subseteq 0 .. Capacity - 1
         /\ \A i \in Window(c) : i = m \/ i \in Window(b)
         /\ Window(b) \subseteq Window(c)
         /\ m \notin Window(b)
    BY <1>2, <1>3, CapacityAssumption DEF Window
  <1>12. OwnBase(c)
    <2> SUFFICES ASSUME NEW i \in Window(c), IsDelta(Entry(c, i)), KeyframeAt(c, Entry(c, i)) >= 0
                 PROVE  /\ KeyframeAt(c, Entry(c, i)) \in 0 .. i - 1
                        /\ IsKeyframe(Base(c, Entry(c, i)))
                        /\ SameBytes(c, Entry(c, i))
                        /\ Size[Entry(c, i).of] = Base(c, Entry(c, i)).length
      BY DEF OwnBase
    <2>1. CASE i = m
      <3>1. Entry(c, i) = e /\ KeyframeAt(c, e) = j
        BY <1>2, <1>3, <1>4, <1>6, <1>7, <2>1 DEF KeyframeAt
      <3>2. Base(c, e) = Entry(b, j)
        BY CapacityAssumption, <1>3, <1>4, <1>7, <3>1 DEF Base
      <3> QED
        BY <1>2, <1>4, <1>6, <2>1, <3>1, <3>2 DEF SameBytes
    <2>2. CASE i # m
      <3> DEFINE d == Entry(b, i)
      <3>1. i \in Window(b) /\ Entry(c, i) = d
        BY <1>7, <1>10, <2>2
      <3>2. KeyframeAt(c, d) = KeyframeAt(b, d) /\ KeyframeAt(b, d) >= 0
        BY <1>2, <3>1 DEF KeyframeAt
      <3>3. /\ KeyframeAt(b, d) \in 0 .. i - 1
            /\ IsKeyframe(Base(b, d)) /\ SameBytes(b, d) /\ Size[d.of] = Base(b, d).length
        BY <1>1, <3>1, <3>2 DEF OwnBase
      <3>4. Base(c, d) = Base(b, d)
        BY CapacityAssumption, <1>3, <1>7, <3>1, <3>2, <3>3 DEF Base, Window
      <3> QED
        BY <1>2, <3>1, <3>2, <3>3, <3>4 DEF SameBytes
    <2> QED
      BY <2>1, <2>2
  <1>13. WholeKeyframes(c)
    BY <1>1, <1>2, <1>6, <1>7, <1>10 DEF WholeKeyframes
  <1>14. NearestBase(c)
    <2> SUFFICES ASSUME NEW i \in Window(c), NEW k \in 0 .. i - 1,
                        IsDelta(Entry(c, i)), IsKeyframe(Entry(c, k))
                 PROVE  \/ KeyframeAt(c, Entry(c, i)) >= 0 /\ k <= KeyframeAt(c, Entry(c, i))
                        \/ KeyframeAt(c, Entry(c, i)) < 0 /\ k = 0
      BY DEF NearestBase
    <2>1. k \in 0 .. m - 1 /\ Entry(c, k) = Entry(b, k)
      BY CapacityAssumption, <1>2, <1>3, <1>7 DEF Window
    <2>2. CASE i = m
      <3>1. Entry(c, i) = e /\ KeyframeAt(c, e) = j
        BY <1>2, <1>3, <1>4, <1>6, <1>7, <2>2 DEF KeyframeAt
      <3> QED
        BY <1>4, <2>1, <3>1
    <2>3. CASE i # m
      <3>1. i \in Window(b) /\ Entry(c, i) = Entry(b, i)
        BY <1>7, <1>10, <2>3
      <3> QED
        BY <1>1, <1>2, <2>1, <3>1 DEF NearestBase, KeyframeAt
    <2> QED
      BY <2>2, <2>3
  <1> QED
    BY <1>1, <1>2, <1>6, <1>12, <1>13, <1>14 DEF RingInv, RingCore, Sound

\* A keyframe appended below capacity keeps the invariant.
LEMMA KeyframeAppended ==
    ASSUME NEW b, RingInv(b), b.ringSize < Capacity, NEW f \in Frames, Fits,
           NEW c, c = AppendKeyframe(b, f)
    PROVE  RingInv(c) /\ c.ringSize = b.ringSize + 1
  <1> DEFINE m == b.ringSize
             e == Keyframe(NextSlot(b.pool), Size[f])
  <1>1. BufferType(b) /\ RingCore(b) /\ NearestBase(b)
    BY DEF RingInv, RingCore, Sound
  <1>2. /\ c.ring = SetEntry(b, m, e) /\ c.ringHead = b.ringHead /\ c.ringSize = m + 1
        /\ c.firstLogicalIdx = b.firstLogicalIdx /\ c.pool = Acquire(b.pool, f, Size[f])
    BY DEF AppendKeyframe, Buffer
  <1>3. m \in 0 .. Capacity - 1
    BY <1>1, CapacityAssumption DEF BufferType
  <1>4. /\ RingCore(c)
        /\ \A i \in 0 .. Capacity - 1 : Entry(c, i) = IF i = m THEN e ELSE Entry(b, i)
    BY <1>1, <1>2, <1>3, PutKeyframe
  <1>5. ~IsDelta(e)
    BY DEF IsDelta, Keyframe
  <1> HIDE DEF e
  <1>6. NearestBase(c)
    <2> SUFFICES ASSUME NEW i \in Window(c), NEW k \in 0 .. i - 1,
                        IsDelta(Entry(c, i)), IsKeyframe(Entry(c, k))
                 PROVE  \/ KeyframeAt(c, Entry(c, i)) >= 0 /\ k <= KeyframeAt(c, Entry(c, i))
                        \/ KeyframeAt(c, Entry(c, i)) < 0 /\ k = 0
      BY DEF NearestBase
    <2>1. i \in 0 .. Capacity - 1 /\ i <= m
      BY CapacityAssumption, <1>2, <1>3 DEF Window
    <2>2. i # m /\ i \in Window(b) /\ Entry(c, i) = Entry(b, i)
      BY <1>3, <1>4, <1>5, <2>1 DEF Window
    <2>3. Entry(c, k) = Entry(b, k)
      BY CapacityAssumption, <1>3, <1>4, <2>1, <2>2
    <2> QED
      BY <1>1, <1>2, <2>2, <2>3 DEF NearestBase, KeyframeAt
  <1> QED
    BY <1>2, <1>4, <1>6 DEF RingInv

-----------------------------------------------------------------------------
(* Eviction *)

\* Dropping the head renumbers the window and frees the head's slot.
LEMMA HeadDropped ==
    ASSUME NEW b, RingCore(b), b.ringSize > 0, NEW c, c = DropHead(b)
    PROVE  /\ RingCore(c)
           /\ c.ringSize = b.ringSize - 1
           /\ c.firstLogicalIdx = b.firstLogicalIdx + 1
           /\ \A i \in 0 .. b.ringSize - 2 : Entry(c, i) = Entry(b, i + 1)
           /\ c.pool.buffers = b.pool.buffers
  <1> DEFINE m == b.ringSize
  <1>1. /\ Sound(b) /\ BufferType(b) /\ DenseWindow(b) /\ OwnBase(b)
        /\ WholeKeyframes(b) /\ b.pool.slotCapacity = InitialSlotBytes
    BY DEF RingCore, Sound
  <1>3. m \in 1 .. Capacity /\ b.firstLogicalIdx \in Nat
    BY <1>1, CapacityAssumption DEF BufferType
  <1>2. /\ Sound(c) /\ c.ringSize = m - 1 /\ c.firstLogicalIdx = b.firstLogicalIdx + 1
        /\ c.pool.slotCapacity = b.pool.slotCapacity
    BY <1>1, SoundHead
  <1>5. \A i \in 0 .. m - 2 : Entry(c, i) = Entry(b, i + 1)
    BY <1>1, SoundHead
  <1>7. c.pool.buffers = b.pool.buffers
    BY <1>1, SoundHead
  <1>10. /\ \A i \in Window(c) : i \in 0 .. m - 2 /\ i + 1 \in Window(b)
         /\ \A i \in Window(b) : i = 0 \/ i - 1 \in Window(c)
    BY <1>2, <1>3 DEF Window
  <1>12. OwnBase(c)
    <2> SUFFICES ASSUME NEW i \in Window(c), IsDelta(Entry(c, i)), KeyframeAt(c, Entry(c, i)) >= 0
                 PROVE  /\ KeyframeAt(c, Entry(c, i)) \in 0 .. i - 1
                        /\ IsKeyframe(Base(c, Entry(c, i)))
                        /\ SameBytes(c, Entry(c, i))
                        /\ Size[Entry(c, i).of] = Base(c, Entry(c, i)).length
      BY DEF OwnBase
    <2> DEFINE d == Entry(b, i + 1)
    <2>1. i \in 0 .. m - 2 /\ i + 1 \in Window(b) /\ Entry(c, i) = d
      BY <1>5, <1>10
    <2>2. d \in FrameEntry /\ IsDelta(d)
      BY <1>1, <2>1, WindowEntries
    <2>3. d.keyframeLogical \in Nat
      BY <2>2 DEF FrameEntry, Keyframes, Deltas, IsDelta
    <2>4. KeyframeAt(c, d) = KeyframeAt(b, d) - 1 /\ KeyframeAt(b, d) \in Int
          /\ KeyframeAt(b, d) >= 1
      BY <1>2, <1>3, <2>1, <2>3 DEF KeyframeAt
    <2>5. /\ KeyframeAt(b, d) \in 0 .. i
          /\ IsKeyframe(Base(b, d)) /\ SameBytes(b, d) /\ Size[d.of] = Base(b, d).length
      BY <1>1, <2>1, <2>2, <2>4 DEF OwnBase
    <2>6. Base(c, d) = Base(b, d)
      <3>1. KeyframeAt(c, d) \in 0 .. m - 2 /\ KeyframeAt(c, d) + 1 = KeyframeAt(b, d)
        BY <1>3, <2>1, <2>4, <2>5
      <3> QED
        BY <1>5, <3>1 DEF Base
    <2> QED
      BY <1>7, <2>1, <2>4, <2>5, <2>6 DEF SameBytes
  <1>13. WholeKeyframes(c)
    BY <1>1, <1>5, <1>7, <1>10 DEF WholeKeyframes
  <1> QED
    BY <1>1, <1>2, <1>5, <1>7, <1>12, <1>13 DEF RingCore, Sound

\* evictHead() keeps the invariant: the one entry it may promote is encoded
\* against the head, so the bytes it promotes are the ones that were pushed.
LEMMA Evicted ==
    ASSUME NEW b, RingInv(b), b.ringSize > 0, Fits, NEW c, c = EvictHead(b)
    PROVE  RingInv(c) /\ c.ringSize = b.ringSize - 1
  <1>1. /\ BufferType(b) /\ DenseWindow(b) /\ OwnedSlots(b) /\ OwnBase(b)
        /\ RingCore(b) /\ NearestBase(b)
    BY DEF RingInv, RingCore, Sound
  <1>2. b.ringSize \in 1 .. Capacity /\ b.firstLogicalIdx \in Nat
    BY <1>1, CapacityAssumption DEF BufferType
  <1>3. ASSUME NEW i \in Window(b), IsDelta(Entry(b, i))
        PROVE  KeyframeAt(b, Entry(b, i)) \in Int /\ Entry(b, i).of \in Frames
               /\ Entry(b, i).keyframeLogical \in Nat
    <2>1. Entry(b, i) \in FrameEntry
      BY <1>1, WindowEntries
    <2>2. Entry(b, i) \in Deltas
      BY <1>3, <2>1 DEF FrameEntry, Keyframes, Deltas, IsDelta
    <2> QED
      BY <1>2, <2>2 DEF Deltas, KeyframeAt
  <1>4. CASE Promotes(b)
    <2> DEFINE e == Entry(b, 1)
               f == e.of
               a == PromoteSecond(b)
               k == Keyframe(NextSlot(b.pool), Size[f])
    <2>1. /\ IsKeyframe(Entry(b, 0)) /\ b.ringSize > 1 /\ IsDelta(e) /\ Resolves(b, e)
      BY <1>4 DEF Promotes
    <2>2. 1 \in Window(b) /\ 1 \in 0 .. Capacity - 1
      BY <1>2, <2>1, CapacityAssumption DEF Window
    <2>3. f \in Frames /\ KeyframeAt(b, e) >= 0
      BY <1>3, <2>1, <2>2 DEF Resolves
    <2>4. KeyframeAt(b, e) \in 0 .. 1 - 1 /\ SameBytes(b, e) /\ Size[f] = Base(b, e).length
      BY <1>1, <2>1, <2>2, <2>3 DEF OwnBase
    <2>5. MaterializedLength(b, e) = Size[f]
      BY <2>3, <2>4, SizeAssumption DEF MaterializedLength
    <2>6. Materialize(b, 1) = f
      BY <2>1, <2>4 DEF Materialize, IsKeyframe, IsDelta
    <2>7. /\ a.ring = SetEntry(b, 1, k) /\ a.ringHead = b.ringHead /\ a.ringSize = b.ringSize
          /\ a.firstLogicalIdx = b.firstLogicalIdx /\ a.pool = Acquire(b.pool, f, Size[f])
      BY <2>5, <2>6 DEF PromoteSecond, Buffer
    <2> HIDE DEF a, k
    <2>8. /\ RingCore(a)
          /\ \A i \in 0 .. Capacity - 1 : Entry(a, i) = IF i = 1 THEN k ELSE Entry(b, i)
      BY <1>1, <2>1, <2>2, <2>3, <2>7, PutKeyframe DEF k
    <2>9. c = DropHead(a)
      BY <1>4 DEF EvictHead, a
    <2>10. /\ RingCore(c) /\ c.ringSize = b.ringSize - 1
           /\ c.firstLogicalIdx = b.firstLogicalIdx + 1
           /\ \A i \in 0 .. b.ringSize - 2 : Entry(c, i) = Entry(a, i + 1)
      BY <2>1, <2>7, <2>8, <2>9, HeadDropped
    <2>11. \A i \in 0 .. b.ringSize - 2 : Entry(c, i) = IF i = 0 THEN k ELSE Entry(b, i + 1)
      BY <1>2, <2>8, <2>10, CapacityAssumption
    <2>12. NearestBase(c)
      <3> SUFFICES ASSUME NEW i \in Window(c), NEW j \in 0 .. i - 1,
                          IsDelta(Entry(c, i)), IsKeyframe(Entry(c, j)), j # 0
                   PROVE  /\ KeyframeAt(c, Entry(c, i)) \in Int
                          /\ KeyframeAt(c, Entry(c, i)) >= 0 /\ j <= KeyframeAt(c, Entry(c, i))
        <4>1. ASSUME NEW i \in Window(c), IsDelta(Entry(c, i))
              PROVE  KeyframeAt(c, Entry(c, i)) \in Int
          <5>1. i # 0 /\ i + 1 \in Window(b) /\ Entry(c, i) = Entry(b, i + 1)
            BY <1>2, <2>10, <2>11, <4>1 DEF Window, k, Keyframe, IsDelta
          <5> QED
            BY <1>2, <1>3, <2>10, <4>1, <5>1 DEF KeyframeAt
        <4> QED
          BY <4>1 DEF NearestBase
      <3>1. /\ i + 1 \in Window(b) /\ j + 1 \in 0 .. (i + 1) - 1
            /\ Entry(c, i) = Entry(b, i + 1) /\ Entry(c, j) = Entry(b, j + 1)
        BY <1>2, <2>10, <2>11 DEF Window
      <3>2. /\ KeyframeAt(b, Entry(b, i + 1)) \in Int
            /\ KeyframeAt(c, Entry(b, i + 1)) = KeyframeAt(b, Entry(b, i + 1)) - 1
        BY <1>2, <1>3, <2>10, <3>1 DEF KeyframeAt
      <3>3. KeyframeAt(b, Entry(b, i + 1)) >= 0 /\ j + 1 <= KeyframeAt(b, Entry(b, i + 1))
        BY <1>1, <3>1 DEF NearestBase
      <3> QED
        BY <3>1, <3>2, <3>3
    <2> QED
      BY <2>10, <2>12 DEF RingInv
  <1>5. CASE ~Promotes(b)
    <2>1. c = DropHead(b)
      BY <1>5 DEF EvictHead
    <2>2. /\ RingCore(c) /\ c.ringSize = b.ringSize - 1
          /\ c.firstLogicalIdx = b.firstLogicalIdx + 1
          /\ \A i \in 0 .. b.ringSize - 2 : Entry(c, i) = Entry(b, i + 1)
      BY <1>1, <2>1, HeadDropped
    <2>3. NearestBase(c)
      <3> SUFFICES ASSUME NEW i \in Window(c), NEW j \in 0 .. i - 1,
                          IsDelta(Entry(c, i)), IsKeyframe(Entry(c, j))
                   PROVE  KeyframeAt(c, Entry(c, i)) >= 0 /\ j <= KeyframeAt(c, Entry(c, i))
        BY DEF NearestBase
      <3>1. /\ i + 1 \in Window(b) /\ j + 1 \in 0 .. (i + 1) - 1
            /\ Entry(c, i) = Entry(b, i + 1) /\ Entry(c, j) = Entry(b, j + 1)
        BY <1>2, <2>2 DEF Window
      <3>2. /\ KeyframeAt(b, Entry(b, i + 1)) \in Int
            /\ KeyframeAt(c, Entry(b, i + 1)) = KeyframeAt(b, Entry(b, i + 1)) - 1
        BY <1>2, <1>3, <2>2, <3>1 DEF KeyframeAt
      <3>3. KeyframeAt(b, Entry(b, i + 1)) >= 0 /\ j + 1 <= KeyframeAt(b, Entry(b, i + 1))
        BY <1>1, <3>1 DEF NearestBase
      <3> QED
        BY <3>1, <3>2, <3>3
    <2> QED
      BY <2>2, <2>3 DEF RingInv
  <1> QED
    BY <1>4, <1>5

-----------------------------------------------------------------------------
(* Taking frames back *)

\* Erasing the newest entries, down to the first m, keeps the invariant.
LEMMA Truncated ==
    ASSUME NEW b, RingInv(b), NEW m \in 0 .. b.ringSize,
           NEW D, D = m .. (b.ringSize - 1),
           NEW c, c.ring = Without(b, D), c.ringHead = b.ringHead, c.ringSize = m,
           c.firstLogicalIdx = b.firstLogicalIdx,
           c.pool = ReleaseSet(b.pool, SlotsOf(b, D))
    PROVE  /\ RingInv(c)
           /\ \A i \in 0 .. m - 1 : Entry(c, i) = Entry(b, i)
  <1>1. /\ BufferType(b) /\ DenseWindow(b) /\ OwnedSlots(b) /\ OwnBase(b)
        /\ WholeKeyframes(b) /\ b.pool.slotCapacity = InitialSlotBytes /\ NearestBase(b)
    BY DEF RingInv, RingCore, Sound
  <1>2. b.ringSize \in 0 .. Capacity /\ m \in 0 .. Capacity
    BY <1>1, CapacityAssumption DEF BufferType
  <1>4. /\ Sound(c) /\ c.pool.buffers = b.pool.buffers
        /\ c.pool.slotCapacity = b.pool.slotCapacity
    BY <1>1, SoundTruncated DEF Sound
  <1>5. \A i \in 0 .. m - 1 : Entry(c, i) = Entry(b, i)
    BY <1>1, SoundTruncated DEF Sound
  <1>6. /\ Window(c) = 0 .. m - 1 /\ Window(c) \subseteq Window(b) /\ D \subseteq Window(b)
        /\ \A i \in Window(b) : i \in D \/ i \in Window(c)
        /\ \A i \in Window(c) : i \notin D
    BY <1>2 DEF Window
  <1>12. OwnBase(c)
    <2> SUFFICES ASSUME NEW i \in Window(c), IsDelta(Entry(c, i)), KeyframeAt(c, Entry(c, i)) >= 0
                 PROVE  /\ KeyframeAt(c, Entry(c, i)) \in 0 .. i - 1
                        /\ IsKeyframe(Base(c, Entry(c, i)))
                        /\ SameBytes(c, Entry(c, i))
                        /\ Size[Entry(c, i).of] = Base(c, Entry(c, i)).length
      BY DEF OwnBase
    <2> DEFINE d == Entry(b, i)
    <2>1. i \in Window(b) /\ i \in 0 .. m - 1 /\ Entry(c, i) = d
      BY <1>5, <1>6
    <2>2. KeyframeAt(c, d) = KeyframeAt(b, d) /\ KeyframeAt(b, d) >= 0
      BY <2>1 DEF KeyframeAt
    <2>3. /\ KeyframeAt(b, d) \in 0 .. i - 1
          /\ IsKeyframe(Base(b, d)) /\ SameBytes(b, d) /\ Size[d.of] = Base(b, d).length
      BY <1>1, <2>1, <2>2 DEF OwnBase
    <2>4. Base(c, d) = Base(b, d)
      BY <1>2, <1>5, <2>1, <2>2, <2>3 DEF Base
    <2> QED
      BY <1>4, <2>1, <2>2, <2>3, <2>4 DEF SameBytes
  <1>13. WholeKeyframes(c)
    BY <1>1, <1>5, <1>6, <1>4 DEF WholeKeyframes
  <1>14. NearestBase(c)
    <2> SUFFICES ASSUME NEW i \in Window(c), NEW j \in 0 .. i - 1,
                        IsDelta(Entry(c, i)), IsKeyframe(Entry(c, j))
                 PROVE  \/ KeyframeAt(c, Entry(c, i)) >= 0 /\ j <= KeyframeAt(c, Entry(c, i))
                        \/ KeyframeAt(c, Entry(c, i)) < 0 /\ j = 0
      BY DEF NearestBase
    <2>1. i \in Window(b) /\ Entry(c, i) = Entry(b, i) /\ Entry(c, j) = Entry(b, j)
      BY <1>2, <1>5, <1>6
    <2> QED
      BY <1>1, <2>1 DEF NearestBase, KeyframeAt
  <1> QED
    BY <1>1, <1>4, <1>5, <1>12, <1>13, <1>14 DEF RingInv, RingCore, Sound

\* An empty ring over a pool with no owned slot is sound, and satisfies the
\* invariant when the slots have the size they were created with.
LEMMA EmptyRing ==
    ASSUME NEW c, c.ring = [i \in 0 .. Capacity - 1 |-> Nil], c.ringHead = 0, c.ringSize = 0,
           c.firstLogicalIdx = 0, PoolOwned(c.pool), c.pool.alive = {}
    PROVE  /\ Sound(c)
           /\ c.pool.slotCapacity = InitialSlotBytes => RingInv(c)
  <1>1. BufferType(c)
    BY CapacityAssumption DEF BufferType, PoolOwned
  <1>2. \A i \in 0 .. Capacity - 1 : Entry(c, i) = Nil
    BY <1>1, CellRange DEF Entry, SlotIndex, BufferType
  <1>3. Window(c) = {}
    BY DEF Window
  <1>4. DenseWindow(c)
    BY <1>2 DEF DenseWindow
  <1>5. OwnedSlots(c)
    BY <1>3 DEF OwnedSlots, SlotsOf, PoolOwned
  <1> QED
    BY <1>1, <1>3, <1>4, <1>5 DEF RingInv, RingCore, Sound, OwnBase, WholeKeyframes, NearestBase

\* clear() empties the ring.
LEMMA ClearedRing ==
    ASSUME NEW b, Sound(b), NEW c, c = Cleared(b)
    PROVE  /\ Sound(c) /\ c.ringSize = 0
           /\ b.pool.slotCapacity = InitialSlotBytes => RingInv(c)
  <1> DEFINE D == 0 .. b.ringSize - 1
  <1>1. BufferType(b) /\ DenseWindow(b) /\ OwnedSlots(b)
    BY DEF Sound
  <1>2. /\ c.ring = Without(b, D) /\ c.ringHead = 0 /\ c.ringSize = 0 /\ c.firstLogicalIdx = 0
        /\ c.pool = ReleaseSet(b.pool, SlotsOf(b, D))
    BY DEF Cleared, Buffer
  <1>3. SlotsOf(b, D) = b.pool.alive /\ PoolOwned(b.pool)
    BY <1>1 DEF OwnedSlots, Window, PoolOwned, BufferType
  <1>4. /\ PoolOwned(c.pool) /\ c.pool.alive = {} /\ c.pool.slotCapacity = b.pool.slotCapacity
    <2>1. b.pool.alive \in SUBSET b.pool.alive
      OBVIOUS
    <2> QED
      BY <1>1, <1>2, <1>3, <2>1, ReleaseOwned
  <1>5. c.ring = [i \in 0 .. Capacity - 1 |-> Nil]
    <2>1. ASSUME NEW x \in 0 .. Capacity - 1
          PROVE  x \in Cells(b, D) \/ b.ring[x] = Nil
      <3>1. b.ringHead \in 0 .. Capacity - 1 /\ b.ringSize \in 0 .. Capacity
        BY <1>1 DEF BufferType
      <3>2. PICK i \in 0 .. Capacity - 1 : CellAt(b.ringHead, i) = x
        BY <3>1, CellOnto
      <3>3. CASE i < b.ringSize
        BY <3>1, <3>2, <3>3 DEF Cells, SlotIndex
      <3>4. CASE ~(i < b.ringSize)
        BY <1>1, <3>2, <3>4 DEF DenseWindow, Entry, SlotIndex
      <3> QED
        BY <3>3, <3>4
    <2> QED
      BY <1>2, <2>1 DEF Without
  <1> QED
    BY <1>2, <1>4, <1>5, EmptyRing

-----------------------------------------------------------------------------
(* What no length of a save state can break *)

\* An entry of the window is a keyframe with a slot and a length, or a delta of
\* a save state against bytes of the pool.
LEMMA EntryKinds ==
    ASSUME NEW b, Sound(b), NEW i \in Window(b), NEW e, e = Entry(b, i)
    PROVE  /\ i \in 0 .. Capacity - 1
           /\ \/ e \in Keyframes /\ IsKeyframe(e) /\ ~IsDelta(e) /\ e.slot \in b.pool.alive
              \/ e \in Deltas /\ IsDelta(e) /\ ~IsKeyframe(e)
  <1>1. BufferType(b) /\ DenseWindow(b) /\ OwnedSlots(b)
    BY DEF Sound
  <1>2. i \in 0 .. Capacity - 1 /\ e \in FrameEntry
    BY <1>1, WindowEntries
  <1>3. CASE e \in Keyframes
    <2>1. IsKeyframe(e) /\ ~IsDelta(e)
      BY <1>3 DEF Keyframes, IsKeyframe, IsDelta
    <2>2. e.slot \in b.pool.alive
      BY <1>1, <2>1 DEF OwnedSlots, SlotsOf
    <2> QED
      BY <1>2, <1>3, <2>1, <2>2
  <1>4. CASE e \in Deltas
    BY <1>2, <1>4 DEF Deltas, IsKeyframe, IsDelta
  <1> QED
    BY <1>2, <1>3, <1>4 DEF FrameEntry

\* No keyframe outgrows the slots, and so they were never grown.
Fitting(b) ==
    /\ b.pool.slotCapacity = InitialSlotBytes
    /\ \A i \in Window(b) : IsKeyframe(Entry(b, i)) => Entry(b, i).length <= InitialSlotBytes

\* What evictHead() promotes are bytes of some kind and of some length, which
\* is the length of the delta or of its keyframe.
LEMMA PromotedBytes ==
    ASSUME NEW b, Sound(b), Promotes(b), NEW e, e = Entry(b, 1)
    PROVE  /\ 1 \in Window(b) /\ 1 \in 0 .. Capacity - 1 /\ IsDelta(e)
           /\ Materialize(b, 1) \in Contents
           /\ MaterializedLength(b, e) \in Nat
           /\ Fits /\ Fitting(b) => MaterializedLength(b, e) <= InitialSlotBytes
  <1>1. /\ b.ringSize > 1 /\ IsDelta(e) /\ Resolves(b, e)
    BY DEF Promotes
  <1>2. b.ringSize \in 0 .. Capacity
    BY DEF Sound, BufferType
  <1>3. 1 \in Window(b)
    BY <1>1, <1>2, CapacityAssumption DEF Window
  <1>4. 1 \in 0 .. Capacity - 1 /\ e \in Deltas /\ ~IsKeyframe(e)
    BY <1>1, <1>3, EntryKinds
  <1>5. e.of \in Frames /\ Size[e.of] \in Nat
    BY <1>4, SizeAssumption DEF Deltas
  <1> DEFINE k == KeyframeAt(b, e)
  <1>6. k \in Window(b) /\ IsKeyframe(Entry(b, k))
    BY <1>1 DEF Resolves, Window
  <1>7. Entry(b, k) \in Keyframes
    BY <1>6, EntryKinds DEF IsKeyframe, IsDelta
  <1>8. Base(b, e).length \in Nat
    BY <1>7 DEF Base, Keyframes
  <1>9. Materialize(b, 1) \in Contents
    BY <1>1, <1>4, <1>5 DEF Materialize, Contents
  <1>10. Fits /\ Fitting(b) => Size[e.of] <= InitialSlotBytes /\ Base(b, e).length <= InitialSlotBytes
    BY <1>5, <1>6 DEF Fits, Fitting, Base
  <1> QED
    BY <1>1, <1>3, <1>4, <1>5, <1>8, <1>9, <1>10 DEF MaterializedLength

\* acquire() of bytes that fit leaves the size of the slots alone.
LEMMA AcquireFits ==
    ASSUME NEW p, NEW content, NEW n, n <= p.slotCapacity
    PROVE  Acquire(p, content, n).slotCapacity = p.slotCapacity
  BY DEF Acquire, EnsureSlotCapacity, Fill, Pool

\* evictHead() whatever it promotes.
LEMMA SoundEvicted ==
    ASSUME NEW b, Sound(b), b.ringSize > 0, NEW c, c = EvictHead(b)
    PROVE  /\ Sound(c) /\ c.ringSize = b.ringSize - 1
           /\ Fits /\ Fitting(b) => Fitting(c)
  <1>1. b.ringSize \in 1 .. Capacity
    BY CapacityAssumption DEF Sound, BufferType
  <1>2. PICK a : /\ c = DropHead(a) /\ Sound(a) /\ a.ringSize = b.ringSize
                 /\ Fits /\ Fitting(b) => Fitting(a)
    <2>1. CASE Promotes(b)
      <3> DEFINE e == Entry(b, 1)
                 n == MaterializedLength(b, e)
                 x == Materialize(b, 1)
                 p == PromoteSecond(b)
                 k == Keyframe(NextSlot(b.pool), n)
      <3>1. /\ 1 \in Window(b) /\ 1 \in 0 .. Capacity - 1 /\ IsDelta(e)
            /\ x \in Contents /\ n \in Nat
            /\ Fits /\ Fitting(b) => n <= InitialSlotBytes
        BY <2>1, PromotedBytes
      <3>2. /\ p.ring = SetEntry(b, 1, k)
            /\ p.ringHead = b.ringHead /\ p.ringSize = b.ringSize
            /\ p.firstLogicalIdx = b.firstLogicalIdx /\ p.pool = Acquire(b.pool, x, n)
        BY DEF PromoteSecond, Buffer
      <3>3. c = DropHead(p)
        BY <2>1 DEF EvictHead
      <3>4. k.length = n
        BY DEF Keyframe
      <3> HIDE DEF p, x, n
      <3>5. /\ Sound(p)
            /\ \A i \in 0 .. Capacity - 1 : Entry(p, i) = IF i = 1 THEN k ELSE Entry(b, i)
        BY <3>1, <3>2, SoundPut
      <3> HIDE DEF k
      <3>6. Fits /\ Fitting(b) => Fitting(p)
        <4> SUFFICES ASSUME Fits, Fitting(b) PROVE Fitting(p)
          OBVIOUS
        <4>1. p.pool.slotCapacity = InitialSlotBytes
          BY <3>1, <3>2, AcquireFits DEF Fitting
        <4>2. ASSUME NEW i \in Window(p), IsKeyframe(Entry(p, i))
              PROVE  Entry(p, i).length <= InitialSlotBytes
          <5>1. i \in 0 .. Capacity - 1 /\ i \in Window(b)
            BY <3>2, <3>5, EntryKinds DEF Window
          <5>2. CASE i = 1
            BY <3>1, <3>4, <3>5, <5>1, <5>2
          <5>3. CASE i # 1
            BY <3>5, <4>2, <5>1, <5>3 DEF Fitting
          <5> QED
            BY <5>2, <5>3
        <4> QED
          BY <4>1, <4>2 DEF Fitting
      <3> QED
        BY <3>2, <3>3, <3>5, <3>6
    <2>2. CASE ~Promotes(b)
      BY <2>2 DEF EvictHead
    <2> QED
      BY <2>1, <2>2
  <1>3. /\ Sound(c) /\ c.ringSize = b.ringSize - 1
        /\ \A i \in 0 .. b.ringSize - 2 : Entry(c, i) = Entry(a, i + 1)
        /\ c.pool.slotCapacity = a.pool.slotCapacity
    BY <1>1, <1>2, SoundHead
  <1>4. ASSUME Fits, Fitting(b) PROVE Fitting(c)
    <2>1. Fitting(a)
      BY <1>2, <1>4
    <2>2. \A i \in Window(c) : i \in 0 .. b.ringSize - 2 /\ i + 1 \in Window(a)
      BY <1>1, <1>2, <1>3 DEF Window
    <2> QED
      BY <1>3, <2>1, <2>2 DEF Fitting
  <1> QED
    BY <1>3, <1>4

\* Making room for a push.
LEMMA SoundRoom ==
    ASSUME NEW b, Sound(b), NEW r, r = MadeRoom(b)
    PROVE  /\ Sound(r) /\ r.ringSize \in 0 .. Capacity - 1 /\ r.ringSize <= b.ringSize
           /\ Fits /\ Fitting(b) => Fitting(r)
  <1>1. b.ringSize \in 0 .. Capacity
    BY DEF Sound, BufferType
  <1>2. CASE b.ringSize = Capacity
    <2>1. r = EvictHead(b) /\ b.ringSize > 0
      BY <1>2, CapacityAssumption DEF MadeRoom
    <2>2. /\ Sound(r) /\ r.ringSize = b.ringSize - 1
          /\ Fits /\ Fitting(b) => Fitting(r)
      BY <2>1, SoundEvicted
    <2> QED
      BY <1>2, <2>2, CapacityAssumption
  <1>3. CASE b.ringSize # Capacity
    BY <1>1, <1>3, CapacityAssumption DEF MadeRoom
  <1> QED
    BY <1>2, <1>3

\* Storing a save state, of whatever length.
LEMMA SoundAppended ==
    ASSUME NEW b, Sound(b), b.ringSize \in 0 .. Capacity - 1, NEW f \in Frames, NEW n \in PackedSizes,
           NEW scheduled, NEW c, c = Appended(b, scheduled, f, n)
    PROVE  /\ Sound(c) /\ c.ringSize = b.ringSize + 1
           /\ Fits /\ Fitting(b) => Fitting(c)
  <1> DEFINE m == b.ringSize
             j == NearestKeyframeIndex(b, m)
  <1>1. f \in Contents /\ Size[f] \in Nat /\ m \notin Window(b) /\ m < Capacity /\ m \in Nat
    BY SizeAssumption, CapacityAssumption DEF Contents, Window
  <1>2. CASE StoredWhole(b, scheduled)
    <2> DEFINE k == Keyframe(NextSlot(b.pool), Size[f])
    <2>1. /\ c.ring = SetEntry(b, m, k) /\ c.ringHead = b.ringHead /\ c.ringSize = m + 1
          /\ c.firstLogicalIdx = b.firstLogicalIdx /\ c.pool = Acquire(b.pool, f, Size[f])
      BY <1>2 DEF Appended, AppendKeyframe, Buffer
    <2>2. k.length = Size[f]
      BY DEF Keyframe
    <2>3. /\ Sound(c)
          /\ \A i \in 0 .. Capacity - 1 : Entry(c, i) = IF i = m THEN k ELSE Entry(b, i)
      BY <1>1, <2>1, SoundPut
    <2> HIDE DEF k
    <2>4. ASSUME Fits, Fitting(b) PROVE Fitting(c)
      <3>1. Size[f] <= InitialSlotBytes
        BY <2>4 DEF Fits
      <3>2. c.pool.slotCapacity = InitialSlotBytes
        BY <2>1, <2>4, <3>1, AcquireFits DEF Fitting
      <3>3. ASSUME NEW i \in Window(c), IsKeyframe(Entry(c, i))
            PROVE  Entry(c, i).length <= InitialSlotBytes
        <4>1. i \in 0 .. Capacity - 1 /\ (i = m \/ i \in Window(b))
          BY <1>1, <2>1, <2>3, EntryKinds DEF Window
        <4>2. CASE i = m
          BY <2>2, <2>3, <3>1, <4>1, <4>2
        <4>3. CASE i # m
          BY <2>3, <2>4, <3>3, <4>1, <4>3 DEF Fitting
        <4> QED
          BY <4>2, <4>3
      <3> QED
        BY <3>2, <3>3 DEF Fitting
    <2> QED
      BY <2>1, <2>3, <2>4
  <1>3. CASE ~StoredWhole(b, scheduled)
    <2> DEFINE e == Delta(j + b.firstLogicalIdx, f, b.pool.buffers[Entry(b, j).slot], n)
    <2>1. /\ c.ring = SetEntry(b, m, e) /\ c.ringHead = b.ringHead /\ c.ringSize = m + 1
          /\ c.firstLogicalIdx = b.firstLogicalIdx /\ c.pool = b.pool
      BY <1>3 DEF Appended, AppendDelta, Buffer
    <2>2. j # -1
      BY <1>3 DEF StoredWhole
    <2>3. j \in 0 .. m - 1 /\ IsKeyframe(Entry(b, j))
      BY <1>1, <2>2, NearestIsNewest
    <2>4. j \in Window(b)
      BY <2>3 DEF Window
    <2> HIDE DEF e, j
    <2>5. /\ Sound(c) /\ ~IsKeyframe(e)
          /\ \A i \in 0 .. Capacity - 1 : Entry(c, i) = IF i = m THEN e ELSE Entry(b, i)
      BY <1>1, <2>1, <2>3, <2>4, SoundDelta DEF e
    <2>6. ASSUME Fits, Fitting(b) PROVE Fitting(c)
      <3>1. ASSUME NEW i \in Window(c), IsKeyframe(Entry(c, i))
            PROVE  Entry(c, i).length <= InitialSlotBytes
        <4>1. i \in 0 .. Capacity - 1 /\ (i = m \/ i \in Window(b))
          BY <1>1, <2>1, <2>5, EntryKinds DEF Window
        <4>2. i # m
          BY <2>5, <3>1, <4>1
        <4> QED
          BY <2>5, <2>6, <3>1, <4>1, <4>2 DEF Fitting
      <3> QED
        BY <2>1, <2>6, <3>1 DEF Fitting
    <2> QED
      BY <2>1, <2>5, <2>6
  <1> QED
    BY <1>2, <1>3

\* dropLast(n), of more entries than there are included.
LEMMA SoundDropped ==
    ASSUME NEW b, Sound(b), NEW n \in Nat, NEW c, c = DropLastOf(b, n)
    PROVE  /\ Sound(c)
           /\ c.ringSize = b.ringSize - DropCount(b, n) /\ c.ringSize \in 0 .. b.ringSize
           /\ DropCount(b, n) \in 0 .. b.ringSize
           /\ \A i \in Window(c) : Entry(c, i) = Entry(b, i)
           /\ c.firstLogicalIdx = b.firstLogicalIdx
           /\ Fitting(b) => Fitting(c)
  <1> DEFINE k == DropCount(b, n)
             m == b.ringSize - k
             D == m .. (b.ringSize - 1)
  <1>1. b.ringSize \in 0 .. Capacity
    BY DEF Sound, BufferType
  <1>2. k \in 0 .. b.ringSize
    BY <1>1, CapacityAssumption DEF DropCount
  <1>3. m \in 0 .. b.ringSize
    BY <1>1, <1>2
  <1>4. /\ c.ring = Without(b, D) /\ c.ringHead = b.ringHead /\ c.ringSize = m
        /\ c.firstLogicalIdx = b.firstLogicalIdx
        /\ c.pool = ReleaseSet(b.pool, SlotsOf(b, D))
    BY DEF DropLastOf, Buffer
  <1> HIDE DEF m
  <1>5. /\ Sound(c) /\ \A i \in 0 .. m - 1 : Entry(c, i) = Entry(b, i)
        /\ c.pool.slotCapacity = b.pool.slotCapacity
    BY <1>3, <1>4, SoundTruncated
  <1>6. /\ Window(c) = 0 .. m - 1
        /\ \A i \in Window(c) : i \in Window(b)
    BY <1>1, <1>3, <1>4 DEF Window
  <1>7. Fitting(b) => Fitting(c)
    BY <1>5, <1>6 DEF Fitting
  <1>8. c.ringSize = b.ringSize - k
    BY <1>4 DEF m
  <1> HIDE DEF k
  <1>9. c.ringSize \in 0 .. b.ringSize
    BY <1>3, <1>4
  <1> QED
    BY <1>2, <1>4, <1>5, <1>6, <1>7, <1>8, <1>9 DEF k

-----------------------------------------------------------------------------
(* The specification *)

\* The ring is created with a pool of free slots.
LEMMA Initially == ASSUME Init PROVE IInv
  <1>1. InitialSlots \in Nat
    BY CapacityAssumption, IntervalAssumption DEF InitialSlots
  <1>2. PoolOwned(NewPool(InitialSlots)) /\ NewPool(InitialSlots).alive = {}
        /\ NewPool(InitialSlots).slotCapacity = InitialSlotBytes
    BY <1>1, SlotBytesAssumption DEF PoolOwned, PoolType, NewPool, Pool, Contents
  <1>3. RingInv(NewBuffer)
    BY <1>2, EmptyRing DEF NewBuffer, Buffer
  <1>4. pushedSoFar = 0 /\ forceKeyframeNext = FALSE /\ rb = NewBuffer
    BY DEF Init
  <1>5. pushedSoFar \in 0 .. MaxPushes
    BY <1>4, BoundAssumption
  <1>6. RingInv(rb)
    BY <1>3, <1>4
  <1> QED
    BY <1>4, <1>5, <1>6, Zenon DEF IInv

\* The part of the invariant that needs no assumption on the lengths.
SoundInv ==
    /\ Sound(rb)
    /\ pushedSoFar \in 0 .. MaxPushes
    /\ forceKeyframeNext \in BOOLEAN

\* push() of any save state, announced or not, keeps the ring sound.
LEMMA SoundPush ==
    ASSUME SoundInv, NEW f \in Frames, NEW n \in PackedSizes, PushFrame(f, n)
    PROVE  SoundInv'
  <1> DEFINE r == MadeRoom(rb)
  <1>1. rb' = Appended(r, Scheduled, f, n) /\ Sound(rb)
    BY Zenon DEF SoundInv, PushFrame
  <1>2. Sound(r) /\ r.ringSize \in 0 .. Capacity - 1
    BY <1>1, SoundRoom
  <1> HIDE DEF r
  <1>3. Sound(rb')
    BY <1>1, <1>2, SoundAppended
  <1>4. pushedSoFar' \in 0 .. MaxPushes
    BY BoundAssumption DEF PushFrame, SoundInv
  <1>5. forceKeyframeNext' \in BOOLEAN
    BY Zenon DEF PushFrame
  <1> QED
    BY <1>3, <1>4, <1>5, Zenon DEF SoundInv

\* clear() of a sound ring.
LEMMA SoundClear ==
    ASSUME SoundInv, Clear
    PROVE  /\ SoundInv' /\ rb'.ringSize = 0
           /\ rb.pool.slotCapacity = InitialSlotBytes => RingInv(rb')
  <1>1. rb' = Cleared(rb) /\ pushedSoFar' = 0 /\ forceKeyframeNext' = FALSE /\ Sound(rb)
    BY Zenon DEF Clear, SoundInv
  <1>2. /\ Sound(rb') /\ rb'.ringSize = 0
        /\ rb.pool.slotCapacity = InitialSlotBytes => RingInv(rb')
    BY <1>1, ClearedRing
  <1>3. pushedSoFar' \in 0 .. MaxPushes
    BY <1>1, BoundAssumption
  <1> QED
    BY <1>1, <1>2, <1>3, Zenon DEF SoundInv

\* Every operation keeps the ring sound, whatever is pushed.
LEMMA SoundNext == ASSUME SoundInv, [Next]_vars PROVE SoundInv'
  <1>1. ASSUME NEW f \in Frames, NEW n \in PackedSizes, Push(f, n) PROVE SoundInv'
    <2>1. PushFrame(f, n)
      BY <1>1, Zenon DEF Push
    <2> QED
      BY <2>1, SoundPush
  <1>2. ASSUME NEW n \in 1 .. Capacity, DropLast(n) PROVE SoundInv'
    <2>1. rb' = DropLastOf(rb, n) /\ n \in Nat
      BY <1>2 DEF DropLast
    <2>2. Sound(rb')
      BY <2>1, SoundDropped DEF SoundInv
    <2> QED
      BY <1>2, <2>2 DEF DropLast, SoundInv
  <1>3. CASE ForceKeyframeOnNextPush
    BY <1>3 DEF ForceKeyframeOnNextPush, SoundInv
  <1>4. CASE Clear
    BY <1>4, SoundClear
  <1>5. CASE UNCHANGED vars
    BY <1>5 DEF vars, SoundInv
  <1> QED
    BY <1>1, <1>2, <1>3, <1>4, <1>5 DEF Next

\* The ring is sound throughout, whatever the lengths of the save states.
LEMMA AlwaysSound == Spec => []SoundInv
  <1>1. Init => SoundInv
    <2>1. IInv => SoundInv
      BY DEF IInv, SoundInv, RingInv, RingCore
    <2> QED
      BY <2>1, Initially
  <1>2. SoundInv /\ [Next]_vars => SoundInv'
    BY SoundNext
  <1> QED
    BY <1>1, <1>2, PTL DEF Spec

\* Making room for a push keeps the invariant and leaves room.
LEMMA RoomMade ==
    ASSUME NEW b, RingInv(b), Fits
    PROVE  RingInv(MadeRoom(b)) /\ MadeRoom(b).ringSize < Capacity
           /\ MadeRoom(b).ringSize \in Nat
  <1>1. b.ringSize \in 0 .. Capacity
    BY DEF RingInv, RingCore, Sound, BufferType
  <1>2. CASE b.ringSize = Capacity
    <2>1. MadeRoom(b) = EvictHead(b) /\ b.ringSize > 0
      BY <1>2, CapacityAssumption DEF MadeRoom
    <2>2. RingInv(EvictHead(b)) /\ EvictHead(b).ringSize = b.ringSize - 1
      BY <2>1, Evicted
    <2> QED
      BY <1>2, <2>1, <2>2, CapacityAssumption
  <1>3. CASE b.ringSize # Capacity
    BY <1>1, <1>3, CapacityAssumption DEF MadeRoom
  <1> QED
    BY <1>2, <1>3

\* push() under the size contract keeps the invariant.
LEMMA PushKeeps ==
    ASSUME IInv, Fits, NEW f \in Frames, NEW n \in PackedSizes, Push(f, n)
    PROVE  IInv' /\ rb'.ringSize = MadeRoom(rb).ringSize + 1
  <1> DEFINE b == MadeRoom(rb)
             j == NearestKeyframeIndex(b, b.ringSize)
  <1>1. RingInv(b) /\ b.ringSize < Capacity
    BY RoomMade DEF IInv
  <1>2. rb' = Appended(b, Scheduled, f, n) /\ SizeCoherent(b, Scheduled, f)
    BY Zenon DEF Push, PushFrame
  <1>5. pushedSoFar' \in 0 .. MaxPushes
    BY BoundAssumption DEF Push, PushFrame, IInv
  <1>6. forceKeyframeNext' \in BOOLEAN
    BY Zenon DEF Push, PushFrame
  <1> HIDE DEF b
  <1>3. CASE StoredWhole(b, Scheduled)
    <2>1. rb' = AppendKeyframe(b, f)
      BY <1>2, <1>3 DEF Appended
    <2>2. RingInv(rb') /\ rb'.ringSize = b.ringSize + 1
      BY <1>1, <2>1, KeyframeAppended
    <2> QED
      BY <1>5, <1>6, <2>2, Zenon DEF IInv, b
  <1>4. CASE ~StoredWhole(b, Scheduled)
    <2>1. rb' = AppendDelta(b, f, n) /\ j # -1 /\ Size[f] = Entry(b, j).length
      BY <1>2, <1>4 DEF Appended, StoredWhole, SizeCoherent
    <2> HIDE DEF j
    <2>2. RingInv(rb') /\ rb'.ringSize = b.ringSize + 1
      BY <1>1, <2>1, DeltaAppended DEF j
    <2> QED
      BY <1>5, <1>6, <2>2, Zenon DEF IInv, b
  <1> QED
    BY <1>3, <1>4

\* dropLast() keeps the invariant.
LEMMA DropLastKeeps ==
    ASSUME IInv, NEW n \in 1 .. Capacity, DropLast(n)
    PROVE  IInv'
  <1> DEFINE k == DropCount(rb, n)
             m == rb.ringSize - k
  <1>1. rb.ringSize \in 0 .. Capacity /\ RingInv(rb)
    BY DEF IInv, RingInv, RingCore, Sound, BufferType
  <1>2. k \in 0 .. rb.ringSize
    BY <1>1, CapacityAssumption DEF DropCount
  <1>3. m \in 0 .. rb.ringSize
    BY <1>1, <1>2
  <1>4. /\ rb'.ring = Without(rb, m .. (rb.ringSize - 1)) /\ rb'.ringHead = rb.ringHead
        /\ rb'.ringSize = m /\ rb'.firstLogicalIdx = rb.firstLogicalIdx
        /\ rb'.pool = ReleaseSet(rb.pool, SlotsOf(rb, m .. (rb.ringSize - 1)))
    BY DEF DropLast, DropLastOf, Buffer
  <1> HIDE DEF m
  <1>5. RingInv(rb')
    BY <1>1, <1>3, <1>4, Truncated
  <1> QED
    BY <1>5 DEF IInv, DropLast

\* Every operation of the class keeps the invariant.
LEMMA NextKeeps == ASSUME IInv, Fits, [Next]_vars PROVE IInv'
  <1>1. ASSUME NEW f \in Frames, NEW n \in PackedSizes, Push(f, n) PROVE IInv'
    BY <1>1, PushKeeps
  <1>2. ASSUME NEW n \in 1 .. Capacity, DropLast(n) PROVE IInv'
    BY <1>2, DropLastKeeps
  <1>3. CASE ForceKeyframeOnNextPush
    BY <1>3 DEF ForceKeyframeOnNextPush, IInv
  <1>4. CASE Clear
    <2>1. rb' = Cleared(rb) /\ pushedSoFar' = 0 /\ forceKeyframeNext' = FALSE
      BY <1>4 DEF Clear
    <2>2. RingInv(rb')
      BY <2>1, ClearedRing DEF IInv, RingInv, RingCore
    <2>3. pushedSoFar' \in 0 .. MaxPushes
      BY <2>1, BoundAssumption
    <2> QED
      BY <2>1, <2>2, <2>3, Zenon DEF IInv
  <1>5. CASE UNCHANGED vars
    BY <1>5 DEF vars, IInv
  <1> QED
    BY <1>1, <1>2, <1>3, <1>4, <1>5 DEF Next

\* The invariant holds throughout, as long as save states fit the slots.
LEMMA Invariant == ASSUME Fits PROVE Spec => []IInv
  <1>1. Init => IInv
    BY Initially
  <1>2. IInv /\ [Next]_vars => IInv'
    BY NextKeeps
  <1> QED
    BY <1>1, <1>2, PTL DEF Spec

\* What the two decoders return for an entry.
LEMMA Decoded ==
    ASSUME NEW b, RingInv(b), NEW i \in Window(b)
    PROVE  /\ WithMaterialized(b, i) = Materialize(b, i)
           /\ IsKeyframe(Entry(b, i)) => WithMaterialized(b, i) \in Frames
           /\ IsDelta(Entry(b, i)) /\ KeyframeAt(b, Entry(b, i)) >= 0
                => WithMaterialized(b, i) = Entry(b, i).of /\ Entry(b, i).of \in Frames
           /\ IsDelta(Entry(b, i)) /\ KeyframeAt(b, Entry(b, i)) < 0
                => WithMaterialized(b, i) = Lost
           /\ IsKeyframe(Entry(b, i)) \/ IsDelta(Entry(b, i))
           /\ IsDelta(Entry(b, i)) => KeyframeAt(b, Entry(b, i)) \in Int
  <1> DEFINE e == Entry(b, i)
  <1>1. BufferType(b) /\ OwnBase(b) /\ WholeKeyframes(b) /\ DenseWindow(b)
    BY DEF RingInv, RingCore, Sound
  <1>2. i \in 0 .. Capacity - 1 /\ i < b.ringSize /\ b.ringSize \in 0 .. Capacity
    BY <1>1, CapacityAssumption DEF BufferType, Window
  <1>3. e \in FrameEntry
    <2>1. e # Nil
      BY <1>1, <1>2 DEF DenseWindow
    <2>2. SlotIndex(b, i) \in 0 .. Capacity - 1
      BY <1>1, <1>2, CellRange DEF SlotIndex, BufferType
    <2> QED
      BY <1>1, <2>1, <2>2 DEF Entry, BufferType
  <1>4. CASE e \in Keyframes
    <2>1. IsKeyframe(e) /\ ~IsDelta(e)
      BY <1>4 DEF Keyframes, IsKeyframe, IsDelta
    <2> QED
      BY <1>1, <2>1 DEF WithMaterialized, Materialize, WholeKeyframes
  <1>5. CASE e \in Deltas
    <2>1. IsDelta(e) /\ ~IsKeyframe(e) /\ e.of \in Frames /\ e.keyframeLogical \in Nat
      BY <1>5 DEF Deltas, IsKeyframe, IsDelta
    <2>2. KeyframeAt(b, e) \in Int
      BY <1>1, <2>1 DEF KeyframeAt, BufferType
    <2>3. CASE KeyframeAt(b, e) < 0
      <3>1. ~Resolves(b, e)
        BY <2>2, <2>3, <1>2 DEF Resolves
      <3>2. WithMaterialized(b, i) = Lost /\ Materialize(b, i) = Lost
        BY <2>1, <3>1 DEF WithMaterialized, Materialize
      <3> QED
        BY <2>1, <2>2, <2>3, <3>2
    <2>4. CASE KeyframeAt(b, e) >= 0
      <3>1. /\ KeyframeAt(b, e) \in 0 .. i - 1
            /\ IsKeyframe(Base(b, e))
            /\ SameBytes(b, e)
            /\ Size[e.of] = Base(b, e).length
        BY <1>1, <2>1, <2>4 DEF OwnBase
      <3>2. Resolves(b, e)
        BY <1>2, <3>1 DEF Resolves, Base
      <3>3. Size[e.of] <= Base(b, e).length
        BY <2>1, <3>1, SizeAssumption
      <3>4. WithMaterialized(b, i) = e.of /\ Materialize(b, i) = e.of
        BY <2>1, <3>1, <3>2, <3>3 DEF WithMaterialized, Materialize
      <3> QED
        BY <2>1, <2>2, <2>4, <3>4
    <2> QED
      BY <2>2, <2>3, <2>4
  <1> QED
    BY <1>3, <1>4, <1>5 DEF FrameEntry

\* Every ring variable keeps its type.
THEOREM TypeCorrect == Spec => []TypeOK
  <1>1. SoundInv => TypeOK
    BY DEF SoundInv, Sound, TypeOK
  <1> QED
    BY <1>1, AlwaysSound, PTL

\* Whatever the order of pushes, drops and clears, the circular window is
\* dense and the cells outside it are empty.
THEOREM DenseTheorem == Spec => []WindowDense
  <1>1. SoundInv => WindowDense
    BY DEF SoundInv, Sound, WindowDense
  <1> QED
    BY <1>1, AlwaysSound, PTL

\* Slots of the pool are owned by exactly one retained keyframe, never leaked
\* and never released twice.
THEOREM OwnershipTheorem == Spec => []SlotOwnership
  <1>1. SoundInv => SlotOwnership
    BY DEF SoundInv, Sound, SlotOwnership
  <1> QED
    BY <1>1, AlwaysSound, PTL

\* No retained delta is ever decoded against a keyframe other than its own,
\* although logical ids are reused.
THEOREM BaseTheorem == ASSUME Fits PROVE Spec => []DeltaNamesItsBase
  <1>1. IInv => DeltaNamesItsBase
    BY DEF IInv, RingInv, RingCore, DeltaNamesItsBase
  <1> QED
    BY <1>1, Invariant, PTL

\* Both decoders agree and return a pushed save state or report it lost.
THEOREM ReadBackTheorem == ASSUME Fits PROVE Spec => []ReadsBackPushedState
  <1>1. IInv => ReadsBackPushedState
    <2> SUFFICES ASSUME IInv, NEW i \in Window(rb)
                 PROVE  /\ WithMaterialized(rb, i) \in Frames \cup {Lost}
                        /\ Materialize(rb, i) = WithMaterialized(rb, i)
      BY DEF ReadsBackPushedState, ReadsBack
    <2>1. RingInv(rb)
      BY DEF IInv
    <2> QED
      BY <2>1, Decoded
  <1> QED
    BY <1>1, Invariant, PTL

\* A lost frame has no keyframe before it but, at most, the promoted head.
THEOREM OldestLostTheorem == ASSUME Fits PROVE Spec => []LostFramesAreOldest
  <1>1. IInv => LostFramesAreOldest
    <2> SUFFICES ASSUME IInv, NEW i \in Window(rb), WithMaterialized(rb, i) = Lost,
                        NEW j \in KeyframesBelow(rb, i)
                 PROVE  j = 0
      BY DEF LostFramesAreOldest
    <2>1. RingInv(rb) /\ NearestBase(rb)
      BY DEF IInv, RingInv
    <2>2. Lost \notin Frames
      BY FramesAssumption
    <2>3. IsDelta(Entry(rb, i)) /\ KeyframeAt(rb, Entry(rb, i)) < 0
      BY <2>1, <2>2, Decoded
    <2>4. j \in 0 .. i - 1 /\ IsKeyframe(Entry(rb, j))
      BY DEF KeyframesBelow
    <2>5. KeyframeAt(rb, Entry(rb, i)) \in Int
      BY <2>1, <2>3, Decoded
    <2> QED
      BY <2>1, <2>3, <2>4, <2>5 DEF NearestBase
  <1> QED
    BY <1>1, Invariant, PTL

\* A frame that was appended decodes to a save state: it is a keyframe, or a
\* delta that names a keyframe of the ring.
LEMMA AppendedReads ==
    ASSUME NEW b, RingInv(b), b.ringSize < Capacity, NEW f \in Frames, NEW n \in PackedSizes,
           NEW scheduled, SizeCoherent(b, scheduled, f), Fits,
           NEW c, c = Appended(b, scheduled, f, n), RingInv(c), c.ringSize = b.ringSize + 1
    PROVE  WithMaterialized(c, c.ringSize - 1) \in Frames
  <1> DEFINE m == b.ringSize
             j == NearestKeyframeIndex(b, m)
  <1>1. BufferType(b) /\ m \in 0 .. Capacity - 1 /\ b.firstLogicalIdx \in Nat
    BY CapacityAssumption DEF RingInv, RingCore, Sound, BufferType
  <1>2. m \in Window(c) /\ c.ringSize - 1 = m
    BY <1>1, CapacityAssumption DEF Window
  <1> SUFFICES \/ IsKeyframe(Entry(c, m))
               \/ IsDelta(Entry(c, m)) /\ KeyframeAt(c, Entry(c, m)) >= 0
    BY <1>2, Decoded
  <1>3. CASE StoredWhole(b, scheduled)
    <2> DEFINE e == Keyframe(NextSlot(b.pool), Size[f])
    <2>1. c.ring = SetEntry(b, m, e) /\ c.ringHead = b.ringHead
      BY <1>3 DEF Appended, AppendKeyframe, Buffer
    <2>2. IsKeyframe(e)
      BY DEF IsKeyframe, Keyframe
    <2> HIDE DEF e
    <2>3. Entry(c, m) = e
      BY <1>1, <2>1, WriteEntry
    <2> QED
      BY <2>2, <2>3
  <1>4. CASE ~StoredWhole(b, scheduled)
    <2> DEFINE e == Delta(j + b.firstLogicalIdx, f, b.pool.buffers[Entry(b, j).slot], n)
    <2>1. /\ c.ring = SetEntry(b, m, e) /\ c.ringHead = b.ringHead
          /\ c.firstLogicalIdx = b.firstLogicalIdx
      BY <1>4 DEF Appended, AppendDelta, Buffer
    <2>2. j # -1
      BY <1>4 DEF StoredWhole
    <2>3. j \in 0 .. m - 1
      BY <1>1, <2>2, NearestIsNewest
    <2>4. IsDelta(e) /\ e.keyframeLogical = j + b.firstLogicalIdx
      BY DEF IsDelta, Delta
    <2> HIDE DEF e
    <2>5. Entry(c, m) = e
      BY <1>1, <2>1, WriteEntry
    <2>6. KeyframeAt(c, e) >= 0
      BY <1>1, <2>1, <2>3, <2>4 DEF KeyframeAt
    <2> QED
      BY <2>4, <2>5, <2>6
  <1> QED
    BY <1>3, <1>4

\* Whatever eviction and promotion made of the older frames, the frame that a
\* push has just stored can be taken back.
THEOREM NewestTheorem == ASSUME Fits PROVE Spec => NewestIsReadable
  <1> DEFINE Newest == WithMaterialized(rb', rb'.ringSize - 1) \in Frames
             Pushed == pushedSoFar' = pushedSoFar + 1
  <1>1. IInv /\ [Next]_vars => [Pushed => Newest]_vars
    <2> SUFFICES ASSUME IInv, Next, Pushed PROVE Newest
      OBVIOUS
    <2>1. pushedSoFar \in Nat
      BY BoundAssumption DEF IInv
    <2>2. PICK f \in Frames, n \in PackedSizes : Push(f, n)
      BY <2>1 DEF Next, DropLast, ForceKeyframeOnNextPush, Clear
    <2> DEFINE b == MadeRoom(rb)
    <2>3. RingInv(b) /\ b.ringSize < Capacity
      BY RoomMade DEF IInv
    <2>4. rb' = Appended(b, Scheduled, f, n) /\ SizeCoherent(b, Scheduled, f)
      BY <2>2, Zenon DEF Push, PushFrame
    <2>5. IInv' /\ rb'.ringSize = b.ringSize + 1
      BY <2>2, PushKeeps
    <2>6. RingInv(rb')
      BY <2>5 DEF IInv
    <2> HIDE DEF b
    <2> QED
      BY <2>3, <2>4, <2>5, <2>6, AppendedReads
  <1> QED
    BY <1>1, Invariant, PTL DEF Spec, NewestIsReadable

-----------------------------------------------------------------------------
(* The history of a ring *)

\* Every retained entry is a keyframe or a delta and stands for a save state.
LEMMA OriginalPushed ==
    ASSUME NEW b, RingInv(b), NEW i \in Window(b)
    PROVE  /\ Original(b, i) \in Frames
           /\ IsKeyframe(Entry(b, i)) \/ (IsDelta(Entry(b, i)) /\ ~IsKeyframe(Entry(b, i)))
           /\ IsDelta(Entry(b, i)) => Original(b, i) = Entry(b, i).of
           /\ IsKeyframe(Entry(b, i)) =>
                /\ Original(b, i) = b.pool.buffers[Entry(b, i).slot]
                /\ Entry(b, i).slot \in b.pool.alive
  <1> DEFINE e == Entry(b, i)
  <1>1. BufferType(b) /\ DenseWindow(b) /\ WholeKeyframes(b) /\ OwnedSlots(b)
    BY DEF RingInv, RingCore, Sound
  <1>2. e \in FrameEntry
    BY <1>1, WindowEntries
  <1>3. CASE e \in Keyframes
    <2>1. IsKeyframe(e) /\ ~IsDelta(e)
      BY <1>3 DEF Keyframes, IsKeyframe, IsDelta
    <2>2. b.pool.buffers[e.slot] \in Frames
      BY <1>1, <2>1 DEF WholeKeyframes
    <2>3. e.slot \in b.pool.alive
      BY <1>1, <2>1 DEF OwnedSlots, SlotsOf
    <2>4. Original(b, i) = b.pool.buffers[e.slot]
      BY <2>1 DEF Original
    <2>5. Original(b, i) \in Frames
      BY <2>2, <2>4
    <2> QED
      BY <2>1, <2>3, <2>4, <2>5
  <1>4. CASE e \in Deltas
    <2>1. IsDelta(e) /\ ~IsKeyframe(e) /\ e.of \in Frames
      BY <1>4 DEF Deltas, IsKeyframe, IsDelta
    <2> QED
      BY <2>1 DEF Original
  <1> QED
    BY <1>2, <1>3, <1>4 DEF FrameEntry

\* The history is a sequence of save states, one for each retained entry.
LEMMA HistorySeq ==
    ASSUME NEW b, RingInv(b)
    PROVE  /\ History(b) \in Seq(Frames)
           /\ Len(History(b)) = b.ringSize
           /\ b.ringSize \in 0 .. Capacity
           /\ \A i \in 1 .. b.ringSize : History(b)[i] = Original(b, i - 1)
  <1>1. b.ringSize \in 0 .. Capacity
    BY DEF RingInv, RingCore, Sound, BufferType
  <1>2. ASSUME NEW i \in 1 .. b.ringSize PROVE Original(b, i - 1) \in Frames
    <2>1. i - 1 \in Window(b)
      BY <1>1 DEF Window
    <2> QED
      BY <2>1, OriginalPushed
  <1>3. History(b) \in [1 .. b.ringSize -> Frames]
    BY <1>2 DEF History
  <1>4. b.ringSize \in Nat
    BY <1>1, CapacityAssumption
  <1>5. History(b) \in Seq(Frames) /\ Len(History(b)) = b.ringSize
    BY <1>3, <1>4
  <1> QED
    BY <1>1, <1>5 DEF History

\* An entry more at the end of the ring is an element more of the history.
LEMMA HistoryGrows ==
    ASSUME NEW b, NEW c, RingInv(b), RingInv(c), c.ringSize = b.ringSize + 1,
           NEW f \in Frames, Original(c, b.ringSize) = f,
           \A i \in Window(b) : Original(c, i) = Original(b, i)
    PROVE  History(c) = Append(History(b), f)
  <1> DEFINE H == History(b)
             G == History(c)
             n == b.ringSize
  <1>1. /\ H \in Seq(Frames) /\ Len(H) = n /\ n \in 0 .. Capacity
        /\ \A i \in 1 .. n : H[i] = Original(b, i - 1)
    BY HistorySeq
  <1>2. /\ G \in Seq(Frames) /\ Len(G) = n + 1
        /\ \A i \in 1 .. n + 1 : G[i] = Original(c, i - 1)
    BY HistorySeq
  <1>3. /\ Append(H, f) \in Seq(Frames) /\ Len(Append(H, f)) = n + 1
        /\ \A i \in 1 .. n : Append(H, f)[i] = H[i]
        /\ Append(H, f)[n + 1] = f
    BY <1>1, AppendProperties
  <1>4. ASSUME NEW i \in 1 .. n + 1 PROVE G[i] = Append(H, f)[i]
    <2>1. CASE i = n + 1
      BY <1>1, <1>2, <1>3, <2>1
    <2>2. CASE i # n + 1
      <3>1. i \in 1 .. n /\ i - 1 \in Window(b)
        BY <1>1, <2>2 DEF Window
      <3> HIDE DEF H, G
      <3> QED
        BY <1>1, <1>2, <1>3, <3>1
    <2> QED
      BY <2>1, <2>2
  <1> HIDE DEF H, G, n
  <1>5. G = Append(H, f)
    BY <1>2, <1>3, <1>4, SeqEqual
  <1> QED
    BY <1>5 DEF G, H

\* Renumbering the entries by one forgets the oldest element of the history.
LEMMA HistoryShifts ==
    ASSUME NEW b, NEW c, RingInv(b), RingInv(c), b.ringSize > 0, c.ringSize = b.ringSize - 1,
           \A i \in Window(c) : Original(c, i) = Original(b, i + 1)
    PROVE  History(c) = Tail(History(b))
  <1> DEFINE H == History(b)
             G == History(c)
             n == b.ringSize
  <1>1. /\ H \in Seq(Frames) /\ Len(H) = n /\ n \in 1 .. Capacity
        /\ \A i \in 1 .. n : H[i] = Original(b, i - 1)
    BY HistorySeq
  <1>2. /\ G \in Seq(Frames) /\ Len(G) = n - 1
        /\ \A i \in 1 .. n - 1 : G[i] = Original(c, i - 1)
    BY HistorySeq
  <1>3. H # << >>
    BY <1>1, EmptySeq
  <1>4. /\ Tail(H) \in Seq(Frames) /\ Len(Tail(H)) = n - 1
        /\ \A i \in 1 .. n - 1 : Tail(H)[i] = H[i + 1]
    BY <1>1, <1>3, HeadTailProperties
  <1>5. ASSUME NEW i \in 1 .. n - 1 PROVE G[i] = Tail(H)[i]
    <2>1. i - 1 \in Window(c) /\ i + 1 \in 1 .. n /\ (i - 1) + 1 = (i + 1) - 1
      BY <1>1 DEF Window
    <2> HIDE DEF H, G
    <2> QED
      BY <1>1, <1>2, <1>4, <2>1
  <1> HIDE DEF H, G, n
  <1>6. G = Tail(H)
    BY <1>2, <1>4, <1>5, SeqEqual
  <1> QED
    BY <1>6 DEF G, H

\* Keeping only the oldest entries keeps the front of the history.
LEMMA HistoryShrinks ==
    ASSUME NEW b, NEW c, RingInv(b), RingInv(c), NEW k \in 0 .. b.ringSize,
           c.ringSize = b.ringSize - k,
           \A i \in Window(c) : Original(c, i) = Original(b, i)
    PROVE  History(c) = SubSeq(History(b), 1, Len(History(b)) - k)
  <1> DEFINE H == History(b)
             G == History(c)
             m == b.ringSize - k
  <1>1. /\ H \in Seq(Frames) /\ Len(H) = b.ringSize /\ b.ringSize \in 0 .. Capacity
        /\ \A i \in 1 .. b.ringSize : H[i] = Original(b, i - 1)
    BY HistorySeq
  <1>2. /\ G \in Seq(Frames) /\ Len(G) = m
        /\ \A i \in 1 .. m : G[i] = Original(c, i - 1)
    BY HistorySeq
  <1>3. m \in Nat /\ \A i \in 1 .. m : i \in 1 .. b.ringSize /\ i - 1 \in Window(c)
    BY <1>1 DEF Window
  <1>4. \A i \in 1 .. m : H[i] \in Frames
    BY <1>1, <1>3, ElementOfSeq
  <1> HIDE DEF H, G, m
  <1>5. /\ SubSeq(H, 1, m) \in Seq(Frames) /\ Len(SubSeq(H, 1, m)) = m
        /\ \A i \in 1 .. m : SubSeq(H, 1, m)[i] = H[i]
    <2>1. /\ SubSeq(H, 1, m) \in Seq(Frames)
          /\ Len(SubSeq(H, 1, m)) = IF 1 <= m THEN m - 1 + 1 ELSE 0
          /\ \A i \in 1 .. m - 1 + 1 : SubSeq(H, 1, m)[i] = H[1 + i - 1]
      BY <1>3, <1>4, SubSeqProperties
    <2> QED
      BY <1>3, <2>1
  <1>6. \A i \in 1 .. m : G[i] = SubSeq(H, 1, m)[i]
    BY <1>1, <1>2, <1>3, <1>5
  <1>7. G = SubSeq(H, 1, m)
    BY <1>2, <1>5, <1>6, SeqEqual
  <1> QED
    BY <1>1, <1>7 DEF G, H, m

-----------------------------------------------------------------------------
(* What each method does to the save states the entries stand for *)

\* A keyframe put at the end of the window, or over a delta of it, stands for
\* the save state it was filled with; the other entries stand for what they did.
LEMMA PutOriginal ==
    ASSUME NEW b, NEW c, RingInv(b), NEW f \in Frames, Fits,
           NEW k \in 0 .. Capacity - 1,
           \/ k = b.ringSize /\ c.ringSize = b.ringSize + 1
           \/ k \in Window(b) /\ IsDelta(Entry(b, k)) /\ c.ringSize = b.ringSize,
           c.ring = SetEntry(b, k, Keyframe(NextSlot(b.pool), Size[f])),
           c.ringHead = b.ringHead, c.firstLogicalIdx = b.firstLogicalIdx,
           c.pool = Acquire(b.pool, f, Size[f])
    PROVE  /\ RingCore(c)
           /\ Original(c, k) = f
           /\ \A i \in Window(b) : i # k => Original(c, i) = Original(b, i)
  <1> DEFINE s == NextSlot(b.pool)
             e == Keyframe(s, Size[f])
  <1>1. RingCore(b) /\ BufferType(b) /\ OwnedSlots(b) /\ DenseWindow(b)
        /\ b.pool.slotCapacity = InitialSlotBytes
    BY DEF RingInv, RingCore, Sound
  <1>2. /\ RingCore(c)
        /\ \A i \in 0 .. Capacity - 1 : Entry(c, i) = IF i = k THEN e ELSE Entry(b, i)
        /\ c.pool.buffers[s] = f
    BY <1>1, PutKeyframe
  <1>3. PoolOwned(b.pool) /\ f \in Contents /\ Size[f] <= b.pool.slotCapacity
    BY <1>1, SizeAssumption DEF PoolOwned, BufferType, OwnedSlots, Contents, Fits
  <1>4. \A t \in b.pool.alive : c.pool.buffers[t] = b.pool.buffers[t]
    BY <1>3, AcquireFresh
  <1>5. IsKeyframe(e) /\ e.slot = s
    BY DEF IsKeyframe, Keyframe
  <1> HIDE DEF s, e
  <1>6. Original(c, k) = f
    BY <1>2, <1>5 DEF Original
  <1>7. ASSUME NEW i \in Window(b), i # k PROVE Original(c, i) = Original(b, i)
    <2>1. i \in 0 .. Capacity - 1
      BY <1>1, WindowEntries
    <2>2. Entry(c, i) = Entry(b, i)
      BY <1>2, <1>7, <2>1
    <2>3. CASE IsKeyframe(Entry(b, i))
      <3>1. Entry(b, i).slot \in b.pool.alive
        BY <2>3, OriginalPushed
      <3> QED
        BY <1>4, <2>2, <2>3, <3>1 DEF Original
    <2>4. CASE ~IsKeyframe(Entry(b, i))
      BY <2>2, <2>4 DEF Original
    <2> QED
      BY <2>3, <2>4
  <1> QED
    BY <1>2, <1>6, <1>7

\* evictHead() forgets the oldest save state, and the entry it promotes keeps
\* standing for its own: what is copied is the decoded delta.
LEMMA EvictedHistory ==
    ASSUME NEW b, RingInv(b), b.ringSize > 0, Fits, NEW c, c = EvictHead(b)
    PROVE  RingInv(c) /\ c.ringSize = b.ringSize - 1 /\ History(c) = Tail(History(b))
  <1>1. RingInv(c) /\ c.ringSize = b.ringSize - 1
    BY Evicted
  <1>2. BufferType(b) /\ DenseWindow(b) /\ OwnBase(b) /\ RingCore(b)
    BY DEF RingInv, RingCore, Sound
  <1>3. b.ringSize \in 1 .. Capacity
    BY <1>2, CapacityAssumption DEF BufferType
  <1>4. PICK a : /\ c = DropHead(a) /\ RingCore(a) /\ a.ringSize = b.ringSize
                 /\ \A i \in Window(b) : Original(a, i) = Original(b, i)
    <2>1. CASE Promotes(b)
      <3> DEFINE e == Entry(b, 1)
                 f == e.of
                 p == PromoteSecond(b)
      <3>1. b.ringSize > 1 /\ IsDelta(e) /\ Resolves(b, e)
        BY <2>1 DEF Promotes
      <3>2. 1 \in Window(b) /\ 1 \in 0 .. Capacity - 1
        BY <1>3, <3>1, CapacityAssumption DEF Window
      <3>3. f \in Frames /\ Original(b, 1) = f
        BY <3>1, <3>2, OriginalPushed
      <3>4. KeyframeAt(b, e) >= 0
        BY <3>1 DEF Resolves
      <3>5. SameBytes(b, e) /\ Size[f] = Base(b, e).length
        BY <1>2, <3>1, <3>2, <3>4 DEF OwnBase
      <3>6. MaterializedLength(b, e) = Size[f]
        BY <3>3, <3>5, SizeAssumption DEF MaterializedLength
      <3>7. Materialize(b, 1) = f
        BY <3>1, <3>5 DEF Materialize, IsKeyframe, IsDelta
      <3>8. /\ p.ring = SetEntry(b, 1, Keyframe(NextSlot(b.pool), Size[f]))
            /\ p.ringHead = b.ringHead /\ p.ringSize = b.ringSize
            /\ p.firstLogicalIdx = b.firstLogicalIdx /\ p.pool = Acquire(b.pool, f, Size[f])
        BY <3>6, <3>7 DEF PromoteSecond, Buffer
      <3>9. c = DropHead(p)
        BY <2>1 DEF EvictHead
      <3> HIDE DEF p
      <3>10. /\ RingCore(p) /\ Original(p, 1) = f
             /\ \A i \in Window(b) : i # 1 => Original(p, i) = Original(b, i)
        BY <3>1, <3>2, <3>3, <3>8, PutOriginal
      <3>11. \A i \in Window(b) : Original(p, i) = Original(b, i)
        BY <3>3, <3>10
      <3> QED
        BY <3>8, <3>9, <3>10, <3>11
    <2>2. CASE ~Promotes(b)
      <3>1. c = DropHead(b)
        BY <2>2 DEF EvictHead
      <3> QED
        BY <1>2, <3>1
    <2> QED
      BY <2>1, <2>2
  <1>5. /\ \A i \in 0 .. b.ringSize - 2 : Entry(c, i) = Entry(a, i + 1)
        /\ c.pool.buffers = a.pool.buffers
    BY <1>3, <1>4, HeadDropped
  <1>6. ASSUME NEW i \in Window(c) PROVE Original(c, i) = Original(b, i + 1)
    <2>1. i \in 0 .. b.ringSize - 2 /\ i + 1 \in Window(b)
      BY <1>1, <1>3 DEF Window
    <2>2. Original(c, i) = Original(a, i + 1)
      BY <1>5, <2>1 DEF Original
    <2> QED
      BY <1>4, <2>1, <2>2
  <1> QED
    BY <1>1, <1>6, HistoryShifts

\* Making room forgets the oldest save state of a full ring and nothing else.
LEMMA RoomHistory ==
    ASSUME NEW b, RingInv(b), Fits, NEW r, r = MadeRoom(b)
    PROVE  /\ RingInv(r) /\ r.ringSize < Capacity
           /\ History(r) = IF b.ringSize = Capacity THEN Tail(History(b)) ELSE History(b)
  <1>1. RingInv(r) /\ r.ringSize < Capacity
    BY RoomMade
  <1>2. CASE b.ringSize = Capacity
    <2>1. r = EvictHead(b) /\ b.ringSize > 0
      BY <1>2, CapacityAssumption DEF MadeRoom
    <2> QED
      BY <1>1, <1>2, <2>1, EvictedHistory
  <1>3. CASE b.ringSize # Capacity
    BY <1>1, <1>3 DEF MadeRoom
  <1> QED
    BY <1>2, <1>3

\* What is appended, whole or as a delta, stands for the save state pushed.
LEMMA AppendedHistory ==
    ASSUME NEW b, RingInv(b), b.ringSize < Capacity, Fits,
           NEW f \in Frames, NEW n \in PackedSizes, NEW scheduled,
           SizeCoherent(b, scheduled, f), NEW c, c = Appended(b, scheduled, f, n)
    PROVE  RingInv(c) /\ History(c) = Append(History(b), f)
  <1> DEFINE m == b.ringSize
             j == NearestKeyframeIndex(b, m)
  <1>1. BufferType(b) /\ DenseWindow(b) /\ m \in 0 .. Capacity - 1
    BY CapacityAssumption DEF RingInv, RingCore, Sound, BufferType
  <1>2. CASE StoredWhole(b, scheduled)
    <2>1. c = AppendKeyframe(b, f)
      BY <1>2 DEF Appended
    <2>2. RingInv(c) /\ c.ringSize = m + 1
      BY <2>1, KeyframeAppended
    <2>3. /\ c.ring = SetEntry(b, m, Keyframe(NextSlot(b.pool), Size[f]))
          /\ c.ringHead = b.ringHead /\ c.ringSize = m + 1
          /\ c.firstLogicalIdx = b.firstLogicalIdx /\ c.pool = Acquire(b.pool, f, Size[f])
      BY <2>1 DEF AppendKeyframe, Buffer
    <2>4. Original(c, m) = f /\ \A i \in Window(b) : i # m => Original(c, i) = Original(b, i)
      BY <1>1, <2>3, PutOriginal
    <2>5. m \notin Window(b)
      BY <1>1 DEF Window
    <2> QED
      BY <2>2, <2>4, <2>5, HistoryGrows
  <1>3. CASE ~StoredWhole(b, scheduled)
    <2> DEFINE e == Delta(j + b.firstLogicalIdx, f, b.pool.buffers[Entry(b, j).slot], n)
    <2>1. c = AppendDelta(b, f, n) /\ j # -1 /\ Size[f] = Entry(b, j).length
      BY <1>3 DEF Appended, StoredWhole, SizeCoherent
    <2>2. RingInv(c) /\ c.ringSize = m + 1
      BY <2>1, DeltaAppended
    <2>3. c.ring = SetEntry(b, m, e) /\ c.ringHead = b.ringHead /\ c.pool = b.pool
      BY <2>1 DEF AppendDelta, Buffer
    <2>4. ~IsKeyframe(e) /\ e.of = f
      BY DEF IsKeyframe, Delta
    <2> HIDE DEF e
    <2>5. \A i \in 0 .. Capacity - 1 : Entry(c, i) = IF i = m THEN e ELSE Entry(b, i)
      BY <1>1, <2>3, WriteEntry
    <2>6. Original(c, m) = f
      BY <1>1, <2>4, <2>5 DEF Original
    <2>7. ASSUME NEW i \in Window(b) PROVE Original(c, i) = Original(b, i)
      <3>1. i \in 0 .. Capacity - 1 /\ i # m
        BY <1>1, CapacityAssumption DEF Window
      <3>2. Entry(c, i) = Entry(b, i)
        BY <2>5, <3>1
      <3> QED
        BY <2>3, <3>2 DEF Original
    <2> QED
      BY <2>2, <2>6, <2>7, HistoryGrows
  <1> QED
    BY <1>2, <1>3

\* dropLast() keeps what the remaining entries stand for.
LEMMA DroppedHistory ==
    ASSUME NEW b, RingInv(b), NEW n \in 1 .. Capacity, NEW k, k = DropCount(b, n),
           NEW c, c = DropLastOf(b, n)
    PROVE  /\ k \in 0 .. b.ringSize
           /\ b.ringSize > 0 => k > 0
           /\ RingInv(c)
           /\ History(c) = SubSeq(History(b), 1, Len(History(b)) - k)
  <1> DEFINE m == b.ringSize - k
             D == m .. (b.ringSize - 1)
  <1>1. b.ringSize \in 0 .. Capacity
    BY DEF RingInv, RingCore, Sound, BufferType
  <1>2. k \in 0 .. b.ringSize /\ (b.ringSize > 0 => k > 0)
    BY <1>1, CapacityAssumption DEF DropCount
  <1>3. m \in 0 .. b.ringSize
    BY <1>1, <1>2
  <1>4. /\ c.ring = Without(b, D) /\ c.ringHead = b.ringHead /\ c.ringSize = m
        /\ c.firstLogicalIdx = b.firstLogicalIdx
        /\ c.pool = ReleaseSet(b.pool, SlotsOf(b, D))
    BY DEF DropLastOf, Buffer
  <1> HIDE DEF m
  <1>5. RingInv(c) /\ \A i \in 0 .. m - 1 : Entry(c, i) = Entry(b, i)
    BY <1>3, <1>4, Truncated
  <1>6. c.pool.buffers = b.pool.buffers
    BY <1>4 DEF ReleaseSet, Pool
  <1>7. \A i \in Window(c) : Original(c, i) = Original(b, i)
    BY <1>4, <1>5, <1>6 DEF Original, Window
  <1>8. c.ringSize = b.ringSize - k
    BY <1>4 DEF m
  <1> QED
    BY <1>2, <1>5, <1>7, <1>8, HistoryShrinks

\* A ring of no entries has no history.
LEMMA NoHistory ==
    ASSUME NEW b, b.ringSize = 0
    PROVE  History(b) = << >>
  <1>1. DOMAIN History(b) = {}
    BY DEF History
  <1>2. << >> \in Seq(Frames) /\ Len(<< >>) = 0
    BY EmptySeq
  <1>3. History(b) \in Seq(Frames) /\ Len(History(b)) = 0
    <2>1. History(b) \in [1 .. 0 -> Frames]
      BY DEF History
    <2> QED
      BY <2>1
  <1> QED
    BY <1>2, <1>3, SeqEqual

-----------------------------------------------------------------------------
(* The refinement *)

\* A new ring is an empty window.
LEMMA StartsEmpty == ASSUME Init PROVE Promise!Init
  <1>1. rb.ringSize = 0
    BY DEF Init, NewBuffer, Buffer
  <1> QED
    BY <1>1, NoHistory DEF Promise!Init

\* push() is the window's Push, whether it evicts, promotes or neither.
LEMMA PushIsPush ==
    ASSUME IInv, Fits, NEW f \in Frames, NEW n \in PackedSizes, Push(f, n)
    PROVE  Promise!Push(f)
  <1> DEFINE r == MadeRoom(rb)
  <1>1. RingInv(rb)
    BY DEF IInv
  <1>2. rb' = Appended(r, Scheduled, f, n) /\ SizeCoherent(r, Scheduled, f)
    BY Zenon DEF Push, PushFrame
  <1>3. /\ RingInv(r) /\ r.ringSize < Capacity
        /\ History(r) = IF rb.ringSize = Capacity THEN Tail(History(rb)) ELSE History(rb)
    BY <1>1, RoomHistory
  <1> HIDE DEF r
  <1>4. History(rb') = Append(History(r), f)
    BY <1>2, <1>3, AppendedHistory
  <1>5. Len(History(rb)) = rb.ringSize
    BY <1>1, HistorySeq
  <1>6. History(rb') = Append(IF Len(History(rb)) = Capacity THEN Tail(History(rb))
                              ELSE History(rb), f)
    BY <1>3, <1>4, <1>5
  <1> QED
    BY <1>6 DEF Promise!Push, History, Original, Entry, SlotIndex

\* dropLast() takes back the newest save states, or there are none.
LEMMA DropIsDrop ==
    ASSUME IInv, NEW n \in 1 .. Capacity, DropLast(n)
    PROVE  \/ \E k \in 1 .. Len(History(rb)) : Promise!DropLast(k)
           \/ UNCHANGED History(rb)
  <1> DEFINE k == DropCount(rb, n)
  <1>1. RingInv(rb) /\ rb' = DropLastOf(rb, n)
    BY DEF IInv, DropLast
  <1>2. Len(History(rb)) = rb.ringSize /\ rb.ringSize \in 0 .. Capacity
    BY <1>1, HistorySeq
  <1>3. /\ k \in 0 .. rb.ringSize
        /\ rb.ringSize > 0 => k > 0
        /\ RingInv(rb')
        /\ History(rb') = SubSeq(History(rb), 1, Len(History(rb)) - k)
    BY <1>1, DroppedHistory
  <1> HIDE DEF k
  <1>4. CASE rb.ringSize > 0
    <2>1. k \in 1 .. Len(History(rb))
      BY <1>2, <1>3, <1>4
    <2>2. Promise!DropLast(k)
      BY <1>3 DEF Promise!DropLast, History, Original, Entry, SlotIndex
    <2> QED
      BY <2>1, <2>2
  <1>5. CASE rb.ringSize = 0
    <2>1. rb'.ringSize = 0
      <3>1. k = 0
        BY <1>3, <1>5
      <3> QED
        BY <1>1, <1>5, <3>1 DEF DropLastOf, Buffer, k
    <2>2. History(rb) = << >> /\ History(rb') = << >>
      BY <1>5, <2>1, NoHistory
    <2> QED
      BY <2>2 DEF History, Original, Entry, SlotIndex
  <1> QED
    BY <1>2, <1>4, <1>5

\* Every step of the ring is a step of the window or leaves it alone.
LEMMA StepsAreSteps ==
    ASSUME IInv, Fits, [Next]_vars
    PROVE  [Promise!Next]_(History(rb))
  <1>1. ASSUME NEW f \in Frames, NEW n \in PackedSizes, Push(f, n)
        PROVE  Promise!Next
    <2>1. Promise!Push(f)
      BY <1>1, PushIsPush
    <2> QED
      BY <2>1 DEF Promise!Next
  <1>2. ASSUME NEW n \in 1 .. Capacity, DropLast(n)
        PROVE  [Promise!Next]_(History(rb))
    <2>1. \/ \E k \in 1 .. Len(History(rb)) : Promise!DropLast(k)
          \/ UNCHANGED History(rb)
      BY <1>2, DropIsDrop
    <2> QED
      BY <2>1 DEF Promise!Next
  <1>3. CASE ForceKeyframeOnNextPush
    BY <1>3 DEF ForceKeyframeOnNextPush, History, Original, Entry, SlotIndex
  <1>4. CASE Clear
    <2>1. rb'.ringSize = 0
      BY <1>4 DEF Clear, Cleared, Buffer
    <2>2. History(rb') = << >>
      BY <2>1, NoHistory
    <2>3. Promise!Clear
      BY <2>2 DEF Promise!Clear, History, Original, Entry, SlotIndex
    <2> QED
      BY <2>3 DEF Promise!Next
  <1>5. CASE UNCHANGED vars
    BY <1>5 DEF vars, History, Original, Entry, SlotIndex
  <1> QED
    BY <1>1, <1>2, <1>3, <1>4, <1>5 DEF Next

\* Circular indexing, promotion and slot recycling never show: the ring is the
\* sequence of the last Capacity save states pushed.
THEOREM WindowTheorem == ASSUME Fits PROVE Spec => ImplementsWindow
  <1>1. Init => Promise!Init
    BY StartsEmpty
  <1>2. IInv /\ [Next]_vars => [Promise!Next]_(History(rb))
    BY StepsAreSteps
  <1> QED
    BY <1>1, <1>2, Invariant, PTL DEF Spec, ImplementsWindow, Promise!Spec

-----------------------------------------------------------------------------
(* The pool *)

SmallPool(b) == b.pool.slots <= PoolLimit

\* With no free slot every slot is owned by a keyframe of its own, so there are
\* no more slots than places where a keyframe may be.
LEMMA ExhaustedPool ==
    ASSUME NEW b, Sound(b), b.pool.free = {}, NEW S, S \subseteq 0 .. Capacity - 1,
           \A i \in Window(b) : IsKeyframe(Entry(b, i)) => i \in S
    PROVE  b.pool.slots <= Cardinality(S)
  <1> DEFINE T == 0 .. b.pool.slots - 1
             Owner(s, i) == i \in Window(b) /\ IsKeyframe(Entry(b, i)) /\ Entry(b, i).slot = s
             g == [s \in T |-> CHOOSE i : Owner(s, i)]
  <1>1. OwnedSlots(b) /\ b.pool.slots \in Nat /\ b.pool.alive \subseteq T
    BY DEF Sound, BufferType, PoolType
  <1>2. b.pool.alive = T
    BY <1>1 DEF OwnedSlots
  <1>3. ASSUME NEW s \in T PROVE Owner(s, g[s])
    <2>1. \E i : Owner(s, i)
      BY <1>1, <1>2 DEF OwnedSlots, SlotsOf
    <2> HIDE DEF Owner
    <2> QED
      BY <2>1
  <1>4. g \in Injection(T, S)
    <2>1. g \in [T -> S]
      BY <1>3
    <2>2. ASSUME NEW s \in T, NEW t \in T, g[s] = g[t] PROVE s = t
      <3>1. Owner(s, g[s]) /\ Owner(t, g[t])
        BY <1>3
      <3> HIDE DEF g
      <3> QED
        BY <2>2, <3>1
    <2> HIDE DEF g
    <2> QED
      BY <2>1, <2>2 DEF Injection, IsInjective
  <1>5. IsFiniteSet(S)
    <2>1. IsFiniteSet(0 .. Capacity - 1)
      BY CapacityAssumption, FS_Interval
    <2> QED
      BY <2>1, FS_Subset
  <1>6. Cardinality(T) <= Cardinality(S)
    <2> HIDE DEF g, T
    <2> QED
      BY <1>4, <1>5, FS_Injection
  <1>7. Cardinality(T) = b.pool.slots
    BY <1>1, FS_Interval
  <1> QED
    BY <1>6, <1>7

\* acquire() adds a slot only when every other place of the ring already has a
\* keyframe, and so never past the limit.
LEMMA AcquireLimited ==
    ASSUME NEW b, Sound(b), SmallPool(b), NEW x \in 0 .. Capacity - 1,
           x \in Window(b) => ~IsKeyframe(Entry(b, x)), NEW content, NEW n
    PROVE  Acquire(b.pool, content, n).slots <= PoolLimit
  <1> DEFINE p == b.pool
             q == EnsureSlotCapacity(p, n)
             S == (0 .. Capacity - 1) \ {x}
  <1>1. /\ p.slots \in Nat /\ p.free \subseteq 0 .. p.slots - 1
        /\ BufferType(b) /\ DenseWindow(b)
    BY DEF Sound, BufferType, PoolType
  <1>2. q.slots = p.slots /\ q.free = p.free
    BY DEF EnsureSlotCapacity, Pool
  <1>3. Acquire(p, content, n).slots = IF NextSlot(p) = p.slots THEN p.slots + 1 ELSE p.slots
    BY <1>2 DEF Acquire, Fill, Pool
  <1>4. CASE p.free # {}
    <2>1. NextSlot(p) \in p.free
      BY <1>4 DEF NextSlot
    <2>2. NextSlot(p) # p.slots
      BY <1>1, <2>1
    <2> QED
      BY <1>3, <2>2 DEF SmallPool
  <1>5. CASE p.free = {}
    <2>1. \A i \in Window(b) : IsKeyframe(Entry(b, i)) => i \in S
      BY <1>1, WindowEntries
    <2>2. S \subseteq 0 .. Capacity - 1
      OBVIOUS
    <2>3. Cardinality(S) = Capacity - 1
      <3>1. IsFiniteSet(0 .. Capacity - 1) /\ Cardinality(0 .. Capacity - 1) = Capacity
        BY CapacityAssumption, FS_Interval
      <3> QED
        BY <3>1, FS_RemoveElement
    <2> HIDE DEF S
    <2>4. p.slots <= Cardinality(S)
      BY <1>5, <2>1, <2>2, ExhaustedPool
    <2>5. p.slots + 1 <= Capacity
      BY <1>1, <2>3, <2>4, CapacityAssumption
    <2>6. InitialSlots \in Nat
      BY CapacityAssumption, IntervalAssumption DEF InitialSlots
    <2>7. Capacity <= PoolLimit /\ PoolLimit \in Int
      BY <2>6, CapacityAssumption DEF PoolLimit
    <2> HIDE DEF p
    <2> QED
      BY <1>1, <1>3, <2>5, <2>7, CapacityAssumption DEF p
  <1> QED
    BY <1>4, <1>5

\* evictHead() keeps the pool within its limit: the entry it promotes is a
\* delta, which owns no slot.
LEMMA EvictLimited ==
    ASSUME NEW b, Sound(b), SmallPool(b), b.ringSize > 0
    PROVE  SmallPool(EvictHead(b))
  <1>1. \A a : SmallPool(a) => SmallPool(DropHead(a))
    BY DEF SmallPool, DropHead, Buffer, ReleaseSet, Pool
  <1>2. CASE Promotes(b)
    <2>1. b.ringSize > 1 /\ IsDelta(Entry(b, 1))
      BY <1>2 DEF Promotes
    <2>2. 1 \in 0 .. Capacity - 1
      BY <2>1, CapacityAssumption DEF Sound, BufferType
    <2>3. ~IsKeyframe(Entry(b, 1))
      BY <2>1 DEF IsDelta, IsKeyframe
    <2>4. SmallPool(PromoteSecond(b))
      BY <2>2, <2>3, AcquireLimited DEF SmallPool, PromoteSecond, Buffer
    <2> QED
      BY <1>1, <1>2, <2>4 DEF EvictHead
  <1>3. CASE ~Promotes(b)
    BY <1>1, <1>3 DEF EvictHead
  <1> QED
    BY <1>2, <1>3

\* push() keeps the pool within its limit.
LEMMA PushLimited ==
    ASSUME SoundInv, SmallPool(rb), NEW f \in Frames, NEW n \in PackedSizes, Push(f, n)
    PROVE  SmallPool(rb')
  <1> DEFINE r == MadeRoom(rb)
  <1>1. Sound(rb) /\ rb' = Appended(r, Scheduled, f, n)
    BY Zenon DEF SoundInv, Push, PushFrame
  <1>2. Sound(r) /\ r.ringSize \in 0 .. Capacity - 1
    BY <1>1, SoundRoom
  <1>3. SmallPool(r)
    <2>1. CASE rb.ringSize = Capacity
      BY <1>1, <2>1, EvictLimited, CapacityAssumption DEF MadeRoom
    <2>2. CASE rb.ringSize # Capacity
      BY <2>2 DEF MadeRoom
    <2> QED
      BY <2>1, <2>2
  <1> HIDE DEF r
  <1>4. CASE StoredWhole(r, Scheduled)
    <2>1. rb' = AppendKeyframe(r, f)
      BY <1>1, <1>4 DEF Appended
    <2>2. r.ringSize \in 0 .. Capacity - 1 /\ r.ringSize \notin Window(r)
      BY <1>2, CapacityAssumption DEF Window
    <2>3. Acquire(r.pool, f, Size[f]).slots <= PoolLimit
      BY <1>2, <1>3, <2>2, AcquireLimited
    <2> QED
      BY <2>1, <2>3 DEF SmallPool, AppendKeyframe, Buffer
  <1>5. CASE ~StoredWhole(r, Scheduled)
    <2>1. rb' = AppendDelta(r, f, n)
      BY <1>1, <1>5 DEF Appended
    <2> QED
      BY <1>3, <2>1 DEF SmallPool, AppendDelta, Buffer
  <1> QED
    BY <1>4, <1>5

\* However keyframes, promotions and drops follow each other, the pool never
\* holds more slots than the ring has entries, or than it was created with,
\* whatever the lengths of the save states.
THEOREM PoolTheorem == Spec => []PoolBounded
  <1>1. Init => SmallPool(rb)
    <2>1. InitialSlots \in Nat
      BY CapacityAssumption, IntervalAssumption DEF InitialSlots
    <2>2. InitialSlots <= PoolLimit
      BY <2>1, CapacityAssumption DEF PoolLimit
    <2> QED
      BY <2>2 DEF Init, NewBuffer, Buffer, NewPool, Pool, SmallPool
  <1>2. SoundInv /\ SmallPool(rb) /\ [Next]_vars => SmallPool(rb)'
    <2> SUFFICES ASSUME SoundInv, SmallPool(rb), [Next]_vars PROVE SmallPool(rb')
      BY DEF SmallPool
    <2>1. ASSUME NEW f \in Frames, NEW n \in PackedSizes, Push(f, n) PROVE SmallPool(rb')
      BY <2>1, PushLimited
    <2>2. ASSUME NEW n \in 1 .. Capacity, DropLast(n) PROVE SmallPool(rb')
      BY <2>2 DEF DropLast, DropLastOf, SmallPool, Buffer, ReleaseSet, Pool
    <2>3. CASE ForceKeyframeOnNextPush
      BY <2>3 DEF ForceKeyframeOnNextPush, SmallPool
    <2>4. CASE Clear
      BY <2>4 DEF Clear, Cleared, SmallPool, Buffer, ReleaseSet, Pool
    <2>5. CASE UNCHANGED vars
      BY <2>5 DEF vars, SmallPool
    <2> QED
      BY <2>1, <2>2, <2>3, <2>4, <2>5 DEF Next
  <1>3. SmallPool(rb) => PoolBounded
    BY DEF SmallPool, PoolBounded
  <1> QED
    BY <1>1, <1>2, <1>3, AlwaysSound, PTL DEF Spec

-----------------------------------------------------------------------------
(* The byte count *)

\* The bytes that the entries at the positions of I hold, one by one.
Held(b, I) == {p \in I \X (Nat \ {0}) : p[2] <= EntryBytes(Entry(b, p[1]))}

\* Every entry at a position of I has a size.
Sized(b, I) == \A i \in I : EntryBytes(Entry(b, i)) \in Nat

\* The fold that adds up the entries at the positions of I.
FoldsBytes(b, I, g) ==
    g = [s \in SUBSET I |->
            IF s = {} THEN 0
            ELSE LET i == CHOOSE i \in s : TRUE
                 IN  EntryBytes(Entry(b, i)) + g[s \ {i}]]

\* A sum over positions is the value of such a fold, if there is one.
LEMMA BytesFold ==
    ASSUME NEW b, NEW I, NEW h, FoldsBytes(b, I, h)
    PROVE  \E g : FoldsBytes(b, I, g) /\ BytesOf(b, I) = g[I]
  BY DEF FoldsBytes, BytesOf, MapThenSumSet, MapThenFoldSet

\* Among sets of positions there is one that none of the others is a part of.
LEMMA SmallestSet ==
    ASSUME NEW I, IsFiniteSet(I), NEW B \in SUBSET SUBSET I, B # {}
    PROVE  \E s \in B : \A t \in B : t \subseteq s => t = s
  <1>1. FiniteSubsetsOf(I) = SUBSET I
    BY FS_FiniteSubsetsOfFinite
  <1>2. IsWellFoundedOn(StrictSubsetOrdering(I), SUBSET I)
    BY <1>1, FS_StrictSubsetOrderingWellFounded
  <1>3. PICK s \in B : \A t \in B : ~(<<t, s>> \in StrictSubsetOrdering(I))
    BY <1>2, WFMin
  <1>4. ASSUME NEW t \in B, t \subseteq s, t # s PROVE FALSE
    <2>1. <<t, s>> \in (SUBSET I) \X (SUBSET I)
      OBVIOUS
    <2>2. <<t, s>>[1] = t /\ <<t, s>>[2] = s
      OBVIOUS
    <2>3. <<t, s>> \in StrictSubsetOrdering(I)
      BY <1>4, <2>1, <2>2 DEF StrictSubsetOrdering
    <2> QED
      BY <1>3, <2>3
  <1> QED
    BY <1>4

\* An entry holds as many bytes as its size says.
LEMMA HeldOne ==
    ASSUME NEW b, NEW i, EntryBytes(Entry(b, i)) \in Nat
    PROVE  IsFiniteSet(Held(b, {i})) /\ Cardinality(Held(b, {i})) = EntryBytes(Entry(b, i))
  <1> DEFINE n == EntryBytes(Entry(b, i))
             f == [k \in 1 .. n |-> <<i, k>>]
  <1>1. Held(b, {i}) = {<<i, k>> : k \in 1 .. n}
    <2>1. ASSUME NEW p \in Held(b, {i}) PROVE p \in {<<i, k>> : k \in 1 .. n}
      <3>1. p \in {i} \X (Nat \ {0}) /\ p[2] <= EntryBytes(Entry(b, p[1]))
        BY DEF Held
      <3>2. p = <<i, p[2]>> /\ p[1] = i /\ p[2] \in Nat \ {0}
        BY <3>1
      <3>3. p[2] \in 1 .. n
        BY <3>1, <3>2
      <3> QED
        BY <3>2, <3>3
    <2>2. ASSUME NEW k \in 1 .. n PROVE <<i, k>> \in Held(b, {i})
      BY DEF Held
    <2> HIDE DEF n
    <2> QED
      BY <2>1, <2>2
  <1>2. n \in Nat
    OBVIOUS
  <1> HIDE DEF n
  <1>3. f \in Bijection(1 .. n, Held(b, {i}))
    <2>1. f \in [1 .. n -> Held(b, {i})]
      BY <1>1
    <2>2. \A k, m \in 1 .. n : f[k] = f[m] => k = m
      OBVIOUS
    <2>3. \A p \in Held(b, {i}) : \E k \in 1 .. n : f[k] = p
      BY <1>1
    <2> HIDE DEF f
    <2> QED
      BY <2>1, <2>2, <2>3 DEF Bijection, Injection, Surjection, IsInjective
  <1>4. ExistsBijection(1 .. n, Held(b, {i}))
    BY <1>3 DEF ExistsBijection
  <1>5. IsFiniteSet(1 .. n) /\ Cardinality(1 .. n) = n
    BY <1>2, FS_Interval
  <1>6. IsFiniteSet(Held(b, {i})) /\ Cardinality(Held(b, {i})) = n
    BY <1>4, <1>5, FS_Bijection
  <1> QED
    BY <1>6 DEF n

\* The bytes of disjoint sets of positions are disjoint.
LEMMA HeldSplit ==
    ASSUME NEW b, NEW S, NEW T, S \cap T = {},
           IsFiniteSet(Held(b, S)), IsFiniteSet(Held(b, T))
    PROVE  /\ IsFiniteSet(Held(b, S \cup T))
           /\ Cardinality(Held(b, S \cup T)) = Cardinality(Held(b, S)) + Cardinality(Held(b, T))
  <1>1. Held(b, S \cup T) = Held(b, S) \cup Held(b, T)
    BY DEF Held
  <1>2. Held(b, S) \cap Held(b, T) = {}
    BY DEF Held
  <1>3. Cardinality(Held(b, S) \cap Held(b, T)) = 0
    BY <1>2, FS_EmptySet
  <1>4. Cardinality(Held(b, S)) \in Nat /\ Cardinality(Held(b, T)) \in Nat
    BY FS_CardinalityType
  <1>5. /\ IsFiniteSet(Held(b, S) \cup Held(b, T))
        /\ Cardinality(Held(b, S) \cup Held(b, T)) =
             Cardinality(Held(b, S)) + Cardinality(Held(b, T))
               - Cardinality(Held(b, S) \cap Held(b, T))
    BY FS_Union
  <1>6. /\ IsFiniteSet(Held(b, S \cup T))
        /\ Cardinality(Held(b, S \cup T)) =
             Cardinality(Held(b, S)) + Cardinality(Held(b, T)) - 0
    BY <1>1, <1>3, <1>5
  <1> QED
    BY <1>4, <1>6

\* No position, no byte.
LEMMA HeldNone == ASSUME NEW b PROVE IsFiniteSet(Held(b, {})) /\ Cardinality(Held(b, {})) = 0
  <1>1. Held(b, {}) = {}
    BY DEF Held
  <1> QED
    BY <1>1, FS_EmptySet

\* Finitely many sized entries hold finitely many bytes.
LEMMA HeldFinite ==
    ASSUME NEW b, NEW I, IsFiniteSet(I), Sized(b, I)
    PROVE  \A s \in SUBSET I : IsFiniteSet(Held(b, s))
  <1> DEFINE B == {s \in SUBSET I : ~IsFiniteSet(Held(b, s))}
  <1> SUFFICES B = {}
    OBVIOUS
  <1> SUFFICES ASSUME B # {} PROVE FALSE
    OBVIOUS
  <1>1. PICK s \in B : \A t \in B : t \subseteq s => t = s
    <2>1. B \in SUBSET SUBSET I
      OBVIOUS
    <2> HIDE DEF B
    <2> QED
      BY <2>1, SmallestSet
  <1>2. s # {}
    BY <1>1, HeldNone
  <1>3. PICK i \in s : TRUE
    BY <1>2
  <1>4. IsFiniteSet(Held(b, s \ {i}))
    BY <1>1, <1>3
  <1>5. IsFiniteSet(Held(b, {i}))
    BY <1>1, <1>3, HeldOne DEF Sized
  <1>6. s = {i} \cup (s \ {i}) /\ {i} \cap (s \ {i}) = {}
    BY <1>3
  <1>7. IsFiniteSet(Held(b, {i} \cup (s \ {i})))
    BY <1>4, <1>5, <1>6, HeldSplit
  <1> QED
    BY <1>1, <1>6, <1>7

\* The sum of the sizes of finitely many entries is the number of their bytes.
LEMMA BytesHeld ==
    ASSUME NEW b, NEW I, IsFiniteSet(I), Sized(b, I)
    PROVE  BytesOf(b, I) = Cardinality(Held(b, I)) /\ IsFiniteSet(Held(b, I))
  <1> DEFINE H(s) == Cardinality(Held(b, s))
             h == [s \in SUBSET I |-> H(s)]
  <1>1. \A s \in SUBSET I : IsFiniteSet(Held(b, s))
    BY HeldFinite
  <1>2. ASSUME NEW s \in SUBSET I, NEW i \in s
        PROVE  H(s) = EntryBytes(Entry(b, i)) + H(s \ {i})
    <2>1. s = {i} \cup (s \ {i}) /\ {i} \cap (s \ {i}) = {}
      OBVIOUS
    <2>2. IsFiniteSet(Held(b, {i})) /\ H({i}) = EntryBytes(Entry(b, i))
      BY HeldOne DEF Sized
    <2>3. IsFiniteSet(Held(b, s \ {i}))
      BY <1>1
    <2>4. H({i} \cup (s \ {i})) = H({i}) + H(s \ {i})
      BY <2>1, <2>2, <2>3, HeldSplit
    <2> QED
      BY <2>1, <2>2, <2>4
  <1>3. H({}) = 0
    BY HeldNone
  <1> HIDE DEF H
  <1>4. FoldsBytes(b, I, h)
    <2>1. ASSUME NEW s \in SUBSET I
          PROVE  H(s) = IF s = {} THEN 0
                        ELSE LET i == CHOOSE i \in s : TRUE
                             IN  EntryBytes(Entry(b, i)) + h[s \ {i}]
      <3>1. CASE s = {}
        BY <1>3, <3>1
      <3>2. CASE s # {}
        <4> DEFINE i == CHOOSE i \in s : TRUE
        <4>1. i \in s
          BY <3>2
        <4> HIDE DEF i
        <4>2. h[s \ {i}] = H(s \ {i})
          OBVIOUS
        <4>3. H(s) = EntryBytes(Entry(b, i)) + h[s \ {i}]
          BY <1>2, <4>1, <4>2
        <4> QED
          BY <3>2, <4>3 DEF i
      <3> QED
        BY <3>1, <3>2
    <2> QED
      BY <2>1, Zenon DEF FoldsBytes
  <1>5. PICK g : FoldsBytes(b, I, g) /\ BytesOf(b, I) = g[I]
    BY <1>4, BytesFold
  <1>6. ASSUME NEW s \in SUBSET I
        PROVE  g[s] = IF s = {} THEN 0
                      ELSE LET i == CHOOSE i \in s : TRUE
                           IN  EntryBytes(Entry(b, i)) + g[s \ {i}]
    BY <1>5, Zenon DEF FoldsBytes
  <1> DEFINE B == {s \in SUBSET I : g[s] # H(s)}
  <1>7. B = {}
    <2> SUFFICES ASSUME B # {} PROVE FALSE
      OBVIOUS
    <2>1. PICK s \in B : \A t \in B : t \subseteq s => t = s
      <3>1. B \in SUBSET SUBSET I
        OBVIOUS
      <3> HIDE DEF B
      <3> QED
        BY <3>1, SmallestSet
    <2>2. s # {}
      BY <1>3, <1>6, <2>1
    <2> DEFINE i == CHOOSE i \in s : TRUE
    <2>3. i \in s
      BY <2>2
    <2>4. g[s] = EntryBytes(Entry(b, i)) + g[s \ {i}]
      BY <1>6, <2>1, <2>2
    <2> HIDE DEF i
    <2>5. g[s \ {i}] = H(s \ {i})
      BY <2>1, <2>3
    <2> QED
      BY <1>2, <2>1, <2>3, <2>4, <2>5
  <1>8. g[I] = H(I)
    BY <1>7
  <1> QED
    BY <1>1, <1>5, <1>8 DEF H

\* Nothing adds up to nothing.
LEMMA BytesNone == ASSUME NEW b PROVE BytesOf(b, {}) = 0
  <1>1. Sized(b, {})
    BY DEF Sized
  <1>2. IsFiniteSet({})
    BY FS_EmptySet
  <1> QED
    BY <1>1, <1>2, BytesHeld, HeldNone

\* The sizes of two disjoint sets of entries add up.
LEMMA BytesSplit ==
    ASSUME NEW b, NEW I, NEW J, IsFiniteSet(I), IsFiniteSet(J), I \cap J = {}, Sized(b, I \cup J)
    PROVE  /\ BytesOf(b, I \cup J) = BytesOf(b, I) + BytesOf(b, J)
           /\ BytesOf(b, I) \in Nat /\ BytesOf(b, J) \in Nat
  <1>1. IsFiniteSet(I \cup J)
    BY FS_Union
  <1>2. Sized(b, I) /\ Sized(b, J)
    BY DEF Sized
  <1>3. BytesOf(b, I \cup J) = Cardinality(Held(b, I \cup J))
    BY <1>1, BytesHeld
  <1>4. /\ BytesOf(b, I) = Cardinality(Held(b, I)) /\ IsFiniteSet(Held(b, I))
        /\ BytesOf(b, J) = Cardinality(Held(b, J)) /\ IsFiniteSet(Held(b, J))
    BY <1>2, BytesHeld
  <1>5. BytesOf(b, I) \in Nat /\ BytesOf(b, J) \in Nat
    BY <1>4, FS_CardinalityType
  <1>6. Cardinality(Held(b, I \cup J)) = Cardinality(Held(b, I)) + Cardinality(Held(b, J))
    BY <1>4, HeldSplit
  <1> QED
    BY <1>3, <1>4, <1>5, <1>6

\* One more entry adds its size.
LEMMA BytesMore ==
    ASSUME NEW b, NEW I, NEW x, IsFiniteSet(I), x \notin I, Sized(b, I \cup {x})
    PROVE  /\ BytesOf(b, I \cup {x}) = BytesOf(b, I) + EntryBytes(Entry(b, x))
           /\ BytesOf(b, I) \in Nat /\ EntryBytes(Entry(b, x)) \in Nat
  <1>1. IsFiniteSet({x})
    BY FS_Singleton
  <1>2. EntryBytes(Entry(b, x)) \in Nat /\ Sized(b, {x})
    BY DEF Sized
  <1>3. BytesOf(b, {x}) = EntryBytes(Entry(b, x))
    BY <1>1, <1>2, BytesHeld, HeldOne
  <1>4. I \cap {x} = {}
    OBVIOUS
  <1> QED
    BY <1>1, <1>2, <1>3, <1>4, BytesSplit

\* Entries that stay keep their sum.
LEMMA BytesSame ==
    ASSUME NEW b, NEW c, NEW I, IsFiniteSet(I), Sized(b, I),
           \A i \in I : Entry(c, i) = Entry(b, i)
    PROVE  BytesOf(c, I) = BytesOf(b, I)
  <1>1. Sized(c, I)
    BY DEF Sized
  <1>2. Held(c, I) = Held(b, I)
    BY DEF Held
  <1> QED
    BY <1>1, <1>2, BytesHeld

\* Entries that are renumbered keep their sum.
LEMMA BytesShift ==
    ASSUME NEW b, NEW c, NEW n \in Nat, Sized(b, 1 .. n),
           \A i \in 0 .. n - 1 : Entry(c, i) = Entry(b, i + 1)
    PROVE  BytesOf(c, 0 .. n - 1) = BytesOf(b, 1 .. n)
  <1> DEFINE S == Held(c, 0 .. n - 1)
             T == Held(b, 1 .. n)
             f == [p \in S |-> <<p[1] + 1, p[2]>>]
  <1>1. Sized(c, 0 .. n - 1)
    BY DEF Sized
  <1>2. IsFiniteSet(0 .. n - 1) /\ IsFiniteSet(1 .. n)
    BY FS_Interval
  <1>3. /\ BytesOf(c, 0 .. n - 1) = Cardinality(S) /\ IsFiniteSet(S)
        /\ BytesOf(b, 1 .. n) = Cardinality(T)
    BY <1>1, <1>2, BytesHeld
  <1>4. ASSUME NEW i \in 0 .. n - 1, NEW k
        PROVE  <<i, k>> \in S <=> <<i + 1, k>> \in T
    BY DEF Held
  <1>5. /\ \A p \in S : p[1] \in 0 .. n - 1 /\ p = <<p[1], p[2]>>
        /\ \A p \in T : p[1] \in 1 .. n /\ p = <<p[1], p[2]>>
    BY DEF Held
  <1> HIDE DEF S, T
  <1>6. f \in [S -> T]
    <2>1. ASSUME NEW p \in S PROVE <<p[1] + 1, p[2]>> \in T
      BY <1>4, <1>5
    <2> QED
      BY <2>1
  <1>7. \A p, q \in S : f[p] = f[q] => p = q
    <2> SUFFICES ASSUME NEW p \in S, NEW q \in S, f[p] = f[q] PROVE p = q
      OBVIOUS
    <2>1. p[1] + 1 = q[1] + 1 /\ p[2] = q[2]
      OBVIOUS
    <2>2. p[1] = q[1]
      BY <1>5, <2>1
    <2> QED
      BY <1>5, <2>1, <2>2
  <1>8. \A q \in T : \E p \in S : f[p] = q
    <2> SUFFICES ASSUME NEW q \in T PROVE \E p \in S : f[p] = q
      OBVIOUS
    <2>1. q[1] \in 1 .. n /\ q = <<q[1], q[2]>>
      BY <1>5
    <2>2. q[1] - 1 \in 0 .. n - 1 /\ (q[1] - 1) + 1 = q[1]
      BY <2>1
    <2>3. <<q[1] - 1, q[2]>> \in S
      BY <1>4, <2>1, <2>2
    <2>4. f[<<q[1] - 1, q[2]>>] = <<(q[1] - 1) + 1, q[2]>>
      BY <2>3
    <2> QED
      BY <2>1, <2>2, <2>3, <2>4
  <1> HIDE DEF f
  <1>9. ExistsBijection(S, T)
    BY <1>6, <1>7, <1>8 DEF ExistsBijection, Bijection, Injection, Surjection, IsInjective
  <1> QED
    BY <1>3, <1>9, FS_Bijection

\* The byte count of a buffer is the size of its entries.
Accounted(b) == b.bytes = BytesOf(b, Window(b))

\* The entries of a sound ring have sizes, and there are finitely many.
LEMMA WindowSized ==
    ASSUME NEW b, Sound(b)
    PROVE  Sized(b, Window(b)) /\ IsFiniteSet(Window(b)) /\ b.ringSize \in 0 .. Capacity
  <1>1. b.ringSize \in 0 .. Capacity
    BY DEF Sound, BufferType
  <1>2. IsFiniteSet(Window(b))
    BY <1>1, FS_Interval DEF Window
  <1>3. ASSUME NEW i \in Window(b) PROVE EntryBytes(Entry(b, i)) \in Nat
    BY EntryKinds DEF EntryBytes, Keyframes, Deltas
  <1> QED
    BY <1>1, <1>2, <1>3 DEF Sized

\* An appended entry is added to the count.
LEMMA AccountedAtEnd ==
    ASSUME NEW b, NEW c, Sound(b), Accounted(b), Sound(c), c.ringSize = b.ringSize + 1,
           NEW e, Entry(c, b.ringSize) = e, c.bytes = b.bytes + EntryBytes(e),
           \A i \in Window(b) : Entry(c, i) = Entry(b, i)
    PROVE  Accounted(c)
  <1> DEFINE m == b.ringSize
  <1>1. Window(c) = Window(b) \cup {m} /\ m \notin Window(b)
    <2>1. m \in Nat
      BY WindowSized
    <2> QED
      BY <2>1 DEF Window
  <1>2. BytesOf(c, Window(b)) = BytesOf(b, Window(b))
    BY WindowSized, BytesSame
  <1>3. Sized(c, Window(b) \cup {m})
    BY <1>1, WindowSized
  <1>4. BytesOf(c, Window(b) \cup {m}) = BytesOf(c, Window(b)) + EntryBytes(Entry(c, m))
    BY <1>1, <1>3, WindowSized, BytesMore
  <1> QED
    BY <1>1, <1>2, <1>4 DEF Accounted

\* A replaced entry is counted at its new size.
LEMMA AccountedInPlace ==
    ASSUME NEW b, NEW c, Sound(b), Accounted(b), Sound(c), c.ringSize = b.ringSize,
           NEW k \in Window(b), NEW e, Entry(b, k) = e, NEW n, EntryBytes(Entry(c, k)) = n,
           c.bytes = b.bytes - EntryBytes(e) + n,
           \A i \in Window(b) : i # k => Entry(c, i) = Entry(b, i)
    PROVE  Accounted(c)
  <1> DEFINE R == Window(b) \ {k}
  <1>1. Window(c) = Window(b)
    BY DEF Window
  <1>2. Window(b) = R \cup {k} /\ k \notin R
    OBVIOUS
  <1>3. IsFiniteSet(R)
    BY WindowSized, FS_Difference
  <1>4. Sized(b, R \cup {k}) /\ Sized(c, R \cup {k})
    BY <1>1, <1>2, WindowSized
  <1> HIDE DEF R
  <1>5. Sized(b, R) /\ \A i \in R : Entry(c, i) = Entry(b, i)
    BY <1>2, <1>4 DEF Sized
  <1>6. BytesOf(c, R) = BytesOf(b, R)
    BY <1>3, <1>5, BytesSame
  <1>7. /\ BytesOf(b, R \cup {k}) = BytesOf(b, R) + EntryBytes(e)
        /\ BytesOf(b, R) \in Nat /\ EntryBytes(e) \in Nat
    BY <1>2, <1>3, <1>4, BytesMore
  <1>8. /\ BytesOf(c, R \cup {k}) = BytesOf(c, R) + n
        /\ n \in Nat
    BY <1>2, <1>3, <1>4, BytesMore
  <1>9. b.bytes = BytesOf(b, R \cup {k})
    BY <1>2 DEF Accounted
  <1>10. c.bytes = BytesOf(c, R \cup {k})
    BY <1>6, <1>7, <1>8, <1>9
  <1> QED
    BY <1>1, <1>2, <1>10 DEF Accounted

\* evictHead() counts the promoted frame in place of its delta, and forgets
\* the head.
LEMMA AccountedEvicted ==
    ASSUME NEW b, Sound(b), Accounted(b), b.ringSize > 0, NEW c, c = EvictHead(b)
    PROVE  Accounted(c)
  <1>1. PICK a : c = DropHead(a) /\ Sound(a) /\ Accounted(a) /\ a.ringSize = b.ringSize
    <2>1. CASE Promotes(b)
      <3> DEFINE e == Entry(b, 1)
                 n == MaterializedLength(b, e)
                 x == Materialize(b, 1)
                 p == PromoteSecond(b)
                 k == Keyframe(NextSlot(b.pool), n)
      <3>1. 1 \in Window(b) /\ 1 \in 0 .. Capacity - 1 /\ IsDelta(e) /\ x \in Contents /\ n \in Nat
        BY <2>1, PromotedBytes
      <3>2. /\ p.ring = SetEntry(b, 1, k)
            /\ p.ringHead = b.ringHead /\ p.ringSize = b.ringSize
            /\ p.firstLogicalIdx = b.firstLogicalIdx /\ p.pool = Acquire(b.pool, x, n)
            /\ p.bytes = b.bytes - e.packed + n
        BY DEF PromoteSecond, Buffer
      <3>3. c = DropHead(p)
        BY <2>1 DEF EvictHead
      <3>4. EntryBytes(k) = n /\ EntryBytes(e) = e.packed
        BY <3>1 DEF Keyframe, EntryBytes, IsKeyframe, IsDelta
      <3> HIDE DEF p, x, n
      <3>5. /\ Sound(p)
            /\ \A i \in 0 .. Capacity - 1 : Entry(p, i) = IF i = 1 THEN k ELSE Entry(b, i)
        BY <3>1, <3>2, SoundPut
      <3> HIDE DEF k, e
      <3>6. EntryBytes(Entry(p, 1)) = n
        BY <3>1, <3>4, <3>5
      <3>7. \A i \in Window(b) : i # 1 => Entry(p, i) = Entry(b, i)
        BY <3>5, EntryKinds
      <3>8. p.bytes = b.bytes - EntryBytes(e) + n
        BY <3>2, <3>4
      <3>9. Entry(b, 1) = e
        BY DEF e
      <3>10. Accounted(p)
        BY <3>1, <3>2, <3>5, <3>6, <3>7, <3>8, <3>9, AccountedInPlace
      <3> QED
        BY <3>2, <3>3, <3>5, <3>10
    <2>2. CASE ~Promotes(b)
      BY <2>2 DEF EvictHead
    <2> QED
      BY <2>1, <2>2
  <1> DEFINE m == a.ringSize
             w == m - 1
  <1>2. m \in Nat /\ m > 0 /\ w \in Nat
    BY <1>1, WindowSized
  <1>3. /\ Sound(c) /\ c.ringSize = w
        /\ \A i \in 0 .. m - 2 : Entry(c, i) = Entry(a, i + 1)
    BY <1>1, SoundHead
  <1>4. c.bytes = a.bytes - EntryBytes(Entry(a, 0))
    BY <1>1 DEF DropHead, Buffer
  <1>5. Window(a) = (1 .. w) \cup {0} /\ 0 \notin 1 .. w /\ Window(c) = 0 .. w - 1
    BY <1>2, <1>3 DEF Window
  <1>6. m - 2 = w - 1
    BY <1>2
  <1> HIDE DEF w, m
  <1>7. Sized(a, (1 .. w) \cup {0}) /\ IsFiniteSet(1 .. w)
    <2>1. Sized(a, Window(a))
      BY <1>1, WindowSized
    <2>2. IsFiniteSet(1 .. w)
      BY <1>2, FS_Interval
    <2> QED
      BY <1>5, <2>1, <2>2
  <1>8. /\ BytesOf(a, (1 .. w) \cup {0}) = BytesOf(a, 1 .. w) + EntryBytes(Entry(a, 0))
        /\ BytesOf(a, 1 .. w) \in Nat /\ EntryBytes(Entry(a, 0)) \in Nat
    BY <1>5, <1>7, BytesMore
  <1>9. BytesOf(c, 0 .. w - 1) = BytesOf(a, 1 .. w)
    <2>1. Sized(a, 1 .. w)
      BY <1>7 DEF Sized
    <2> QED
      BY <1>2, <1>3, <1>6, <2>1, BytesShift
  <1>10. a.bytes = BytesOf(a, (1 .. w) \cup {0})
    BY <1>1, <1>5 DEF Accounted
  <1>11. c.bytes = BytesOf(c, 0 .. w - 1)
    BY <1>4, <1>8, <1>9, <1>10
  <1> QED
    BY <1>5, <1>11 DEF Accounted

\* A stored save state is counted at the length it is stored with.
LEMMA AccountedAppended ==
    ASSUME NEW b, Sound(b), Accounted(b), b.ringSize \in 0 .. Capacity - 1,
           NEW f \in Frames, NEW n \in PackedSizes,
           NEW scheduled, NEW c, c = Appended(b, scheduled, f, n)
    PROVE  Accounted(c)
  <1> DEFINE m == b.ringSize
             j == NearestKeyframeIndex(b, m)
  <1>1. f \in Contents /\ Size[f] \in Nat /\ m \notin Window(b) /\ m < Capacity /\ m \in Nat
    BY SizeAssumption, CapacityAssumption DEF Contents, Window
  <1>2. \A i \in Window(b) : i \in 0 .. Capacity - 1 /\ i # m
    BY <1>1, EntryKinds
  <1>3. CASE StoredWhole(b, scheduled)
    <2> DEFINE k == Keyframe(NextSlot(b.pool), Size[f])
    <2>1. /\ c.ring = SetEntry(b, m, k) /\ c.ringHead = b.ringHead /\ c.ringSize = m + 1
          /\ c.firstLogicalIdx = b.firstLogicalIdx /\ c.pool = Acquire(b.pool, f, Size[f])
          /\ c.bytes = b.bytes + Size[f]
      BY <1>3 DEF Appended, AppendKeyframe, Buffer
    <2>2. EntryBytes(k) = Size[f]
      BY DEF Keyframe, EntryBytes, IsKeyframe
    <2>3. /\ Sound(c)
          /\ \A i \in 0 .. Capacity - 1 : Entry(c, i) = IF i = m THEN k ELSE Entry(b, i)
      BY <1>1, <2>1, SoundPut
    <2> HIDE DEF k
    <2>4. Entry(c, m) = k /\ \A i \in Window(b) : Entry(c, i) = Entry(b, i)
      BY <1>1, <1>2, <2>3
    <2> QED
      BY <2>1, <2>2, <2>3, <2>4, AccountedAtEnd
  <1>4. CASE ~StoredWhole(b, scheduled)
    <2> DEFINE e == Delta(j + b.firstLogicalIdx, f, b.pool.buffers[Entry(b, j).slot], n)
    <2>1. /\ c.ring = SetEntry(b, m, e) /\ c.ringHead = b.ringHead /\ c.ringSize = m + 1
          /\ c.firstLogicalIdx = b.firstLogicalIdx /\ c.pool = b.pool
          /\ c.bytes = b.bytes + n
      BY <1>4 DEF Appended, AppendDelta, Buffer
    <2>2. j # -1
      BY <1>4 DEF StoredWhole
    <2>3. j \in 0 .. m - 1 /\ IsKeyframe(Entry(b, j))
      BY <1>1, <2>2, NearestIsNewest
    <2>4. j \in Window(b)
      BY <2>3 DEF Window
    <2>5. EntryBytes(e) = n
      BY DEF Delta, EntryBytes, IsKeyframe
    <2> HIDE DEF j
    <2>6. /\ Sound(c)
          /\ \A i \in 0 .. Capacity - 1 : Entry(c, i) = IF i = m THEN e ELSE Entry(b, i)
      BY <1>1, <2>1, <2>3, <2>4, SoundDelta
    <2> HIDE DEF e
    <2>7. Entry(c, m) = e /\ \A i \in Window(b) : Entry(c, i) = Entry(b, i)
      BY <1>1, <1>2, <2>6
    <2> QED
      BY <2>1, <2>5, <2>6, <2>7, AccountedAtEnd
  <1> QED
    BY <1>3, <1>4

\* dropLast(n) takes the sizes of the dropped entries off the count.
LEMMA AccountedDropped ==
    ASSUME NEW b, Sound(b), Accounted(b), NEW n \in Nat, NEW c, c = DropLastOf(b, n)
    PROVE  Accounted(c)
  <1> DEFINE m == b.ringSize - DropCount(b, n)
             D == m .. (b.ringSize - 1)
  <1>1. /\ Sound(c) /\ c.ringSize = m /\ m \in 0 .. b.ringSize
        /\ \A i \in Window(c) : Entry(c, i) = Entry(b, i)
    BY SoundDropped
  <1>2. c.bytes = b.bytes - BytesOf(b, D)
    BY DEF DropLastOf, Buffer
  <1> HIDE DEF m
  <1>3. b.ringSize \in Nat /\ m \in Nat
    BY <1>1, WindowSized
  <1>4. Window(b) = Window(c) \cup D /\ Window(c) \cap D = {}
    BY <1>1, <1>3 DEF Window
  <1>5. IsFiniteSet(Window(c)) /\ IsFiniteSet(D)
    BY <1>1, <1>3, WindowSized, FS_Interval
  <1> HIDE DEF D
  <1>6. Sized(b, Window(c) \cup D)
    BY <1>4, WindowSized
  <1>7. /\ BytesOf(b, Window(b)) = BytesOf(b, Window(c)) + BytesOf(b, D)
        /\ BytesOf(b, Window(c)) \in Nat /\ BytesOf(b, D) \in Nat
    BY <1>4, <1>5, <1>6, BytesSplit
  <1>8. BytesOf(c, Window(c)) = BytesOf(b, Window(c))
    <2>1. Sized(b, Window(c))
      BY <1>6 DEF Sized
    <2> QED
      BY <1>1, <1>5, <2>1, BytesSame
  <1>9. b.bytes = BytesOf(b, Window(b))
    BY DEF Accounted
  <1>10. c.bytes = BytesOf(c, Window(c))
    BY <1>2, <1>7, <1>8, <1>9
  <1> QED
    BY <1>10 DEF Accounted

\* An empty ring counts nothing.
LEMMA AccountedEmpty ==
    ASSUME NEW b, b.ringSize = 0, b.bytes = 0
    PROVE  Accounted(b)
  <1>1. Window(b) = {}
    BY DEF Window
  <1> QED
    BY <1>1, BytesNone DEF Accounted

\* push() keeps the count.
LEMMA AccountedPush ==
    ASSUME SoundInv, Accounted(rb), NEW f \in Frames, NEW n \in PackedSizes, PushFrame(f, n)
    PROVE  Accounted(rb')
  <1> DEFINE r == MadeRoom(rb)
  <1>1. Sound(rb) /\ rb' = Appended(r, Scheduled, f, n)
    BY Zenon DEF SoundInv, PushFrame
  <1>2. Sound(r) /\ r.ringSize \in 0 .. Capacity - 1
    BY <1>1, SoundRoom
  <1>3. Accounted(r)
    <2>1. CASE rb.ringSize = Capacity
      <3>1. r = EvictHead(rb) /\ rb.ringSize > 0
        BY <2>1, CapacityAssumption DEF MadeRoom
      <3> QED
        BY <1>1, <3>1, AccountedEvicted
    <2>2. CASE rb.ringSize # Capacity
      BY <2>2 DEF MadeRoom
    <2> QED
      BY <2>1, <2>2
  <1> HIDE DEF r
  <1> QED
    BY <1>1, <1>2, <1>3, AccountedAppended

\* However frames are pushed, promoted, evicted and dropped, byteSize is the
\* size of the entries that are retained, whatever the lengths of the save states.
THEOREM BytesTheorem == Spec => []ByteAccounting
  <1>1. Init => Accounted(rb)
    BY AccountedEmpty DEF Init, NewBuffer, Buffer
  <1>2. SoundInv /\ Accounted(rb) /\ [Next]_vars => Accounted(rb)'
    <2> SUFFICES ASSUME SoundInv, Accounted(rb), [Next]_vars PROVE Accounted(rb')
      BY DEF Accounted
    <2>1. ASSUME NEW f \in Frames, NEW n \in PackedSizes, Push(f, n) PROVE Accounted(rb')
      <3>1. PushFrame(f, n)
        BY <2>1, Zenon DEF Push
      <3> QED
        BY <3>1, AccountedPush
    <2>2. ASSUME NEW n \in 1 .. Capacity, DropLast(n) PROVE Accounted(rb')
      <3>1. rb' = DropLastOf(rb, n) /\ n \in Nat /\ Sound(rb)
        BY <2>2 DEF DropLast, SoundInv
      <3> QED
        BY <3>1, AccountedDropped
    <2>3. CASE ForceKeyframeOnNextPush
      BY <2>3 DEF ForceKeyframeOnNextPush
    <2>4. CASE Clear
      <3>1. rb'.ringSize = 0 /\ rb'.bytes = 0
        BY <2>4 DEF Clear, Cleared, Buffer
      <3> QED
        BY <3>1, AccountedEmpty
    <2>5. CASE UNCHANGED vars
      BY <2>5 DEF vars
    <2> QED
      BY <2>1, <2>2, <2>3, <2>4, <2>5 DEF Next
  <1>3. Accounted(rb) => ByteAccounting
    BY DEF Accounted, ByteAccounting
  <1> QED
    BY <1>1, <1>2, <1>3, AlwaysSound, PTL DEF Spec

-----------------------------------------------------------------------------
(* Places in a crash dump *)

\* A later element of a finite set of positions has a higher rank.
LEMMA RankIncreases ==
    ASSUME NEW n \in Nat, NEW S, S \subseteq 0 .. n - 1
    PROVE  /\ IsFiniteSet(S) /\ Cardinality(S) \in 0 .. n
           /\ \A i \in S : Rank(S, i) \in 0 .. Cardinality(S) - 1
           /\ \A i, j \in S : i < j => Rank(S, i) < Rank(S, j)
  <1> DEFINE Below(i) == {j \in S : j < i}
  <1>1. IsFiniteSet(0 .. n - 1) /\ Cardinality(0 .. n - 1) = n
    BY FS_Interval
  <1>2. IsFiniteSet(S) /\ Cardinality(S) <= n
    BY <1>1, FS_Subset
  <1>3. Cardinality(S) \in Nat
    BY <1>2, FS_CardinalityType
  <1>4. ASSUME NEW i \in S
        PROVE  /\ IsFiniteSet(Below(i)) /\ Cardinality(Below(i)) \in Nat
               /\ IsFiniteSet(Below(i) \cup {i})
               /\ Cardinality(Below(i) \cup {i}) = Cardinality(Below(i)) + 1
    <2>1. Below(i) \in SUBSET S /\ i \notin Below(i)
      OBVIOUS
    <2> HIDE DEF Below
    <2>2. IsFiniteSet(Below(i))
      BY <1>2, <2>1, FS_Subset
    <2>3. Cardinality(Below(i)) \in Nat
      BY <2>2, FS_CardinalityType
    <2> QED
      BY <2>1, <2>2, <2>3, FS_AddElement
  <1>5. ASSUME NEW i \in S PROVE Rank(S, i) \in 0 .. Cardinality(S) - 1
    <2>1. Below(i) \cup {i} \in SUBSET S
      OBVIOUS
    <2> HIDE DEF Below
    <2>2. Cardinality(Below(i) \cup {i}) <= Cardinality(S)
      BY <1>2, <2>1, FS_Subset
    <2>3. Rank(S, i) = Cardinality(Below(i))
      BY DEF Rank, Below
    <2> QED
      BY <1>3, <1>4, <2>2, <2>3
  <1>6. ASSUME NEW i \in S, NEW j \in S, i < j PROVE Rank(S, i) < Rank(S, j)
    <2>1. Below(i) \cup {i} \in SUBSET Below(j)
      <3>1. i \in Int /\ j \in Int /\ \A k \in S : k \in Int
        OBVIOUS
      <3>2. \A k \in S : k < i => k < j
        BY <1>6, <3>1
      <3> QED
        BY <1>6, <3>2
    <2> HIDE DEF Below
    <2>2. Cardinality(Below(i) \cup {i}) <= Cardinality(Below(j))
      BY <1>4, <2>1, FS_Subset
    <2>3. Rank(S, i) = Cardinality(Below(i)) /\ Rank(S, j) = Cardinality(Below(j))
      BY DEF Rank, Below
    <2>4. /\ Cardinality(Below(i) \cup {i}) = Cardinality(Below(i)) + 1
          /\ Cardinality(Below(i)) \in Nat /\ Cardinality(Below(j)) \in Nat
      BY <1>4
    <2> QED
      BY <2>2, <2>3, <2>4
  <1> QED
    BY <1>2, <1>3, <1>5, <1>6

\* Ranks number a finite set of positions without gap, so that AtRank finds the
\* element of every rank and of that rank only.
LEMMA RankInverse ==
    ASSUME NEW n \in Nat, NEW S, S \subseteq 0 .. n - 1
    PROVE  /\ \A i \in S : AtRank(S, Rank(S, i)) = i
           /\ \A k \in 0 .. Cardinality(S) - 1 :
                AtRank(S, k) \in S /\ Rank(S, AtRank(S, k)) = k
  <1> DEFINE T == 0 .. Cardinality(S) - 1
             g == [i \in S |-> Rank(S, i)]
  <1>1. /\ IsFiniteSet(S) /\ Cardinality(S) \in Nat
        /\ \A i \in S : Rank(S, i) \in T
        /\ \A i, j \in S : i < j => Rank(S, i) < Rank(S, j)
    <2>1. /\ IsFiniteSet(S) /\ Cardinality(S) \in 0 .. n
          /\ \A i \in S : Rank(S, i) \in 0 .. Cardinality(S) - 1
          /\ \A i, j \in S : i < j => Rank(S, i) < Rank(S, j)
      BY RankIncreases
    <2>2. Cardinality(S) \in Nat
      BY <2>1
    <2> QED
      BY <2>1, <2>2
  <1>2. ASSUME NEW i \in S, NEW j \in S, Rank(S, i) = Rank(S, j) PROVE i = j
    <2>1. i \in Int /\ j \in Int /\ Rank(S, i) \in Int
      BY <1>1
    <2>2. ~(i < j) /\ ~(j < i)
      BY <1>1, <1>2, <2>1
    <2> QED
      BY <2>1, <2>2
  <1>3. IsFiniteSet(T) /\ Cardinality(T) = Cardinality(S)
    <2>1. IsFiniteSet(T) /\ Cardinality(T) = IF 0 > Cardinality(S) - 1 THEN 0
                                             ELSE Cardinality(S) - 1 - 0 + 1
      BY <1>1, FS_Interval
    <2> HIDE DEF T
    <2> QED
      BY <1>1, <2>1
  <1> HIDE DEF T
  <1>4. g \in Injection(S, T)
    <2>1. g \in [S -> T]
      BY <1>1
    <2> QED
      BY <1>2, <2>1 DEF Injection, IsInjective
  <1> HIDE DEF g
  <1>5. g \in Surjection(S, T)
    BY <1>3, <1>4, FS_Injection
  <1>6. ASSUME NEW k \in T PROVE AtRank(S, k) \in S /\ Rank(S, AtRank(S, k)) = k
    <2>1. \E i \in S : g[i] = k
      BY <1>5 DEF Surjection
    <2>2. \E i \in S : Rank(S, i) = k
      BY <2>1 DEF g
    <2> QED
      BY <2>2 DEF AtRank
  <1>7. ASSUME NEW i \in S PROVE AtRank(S, Rank(S, i)) = i
    <2>1. Rank(S, i) \in T
      BY <1>1
    <2>2. AtRank(S, Rank(S, i)) \in S /\ Rank(S, AtRank(S, Rank(S, i))) = Rank(S, i)
      BY <1>6, <2>1
    <2> QED
      BY <1>2, <2>2
  <1> QED
    BY <1>6, <1>7 DEF T

-----------------------------------------------------------------------------
(* The ring a crash dump is loaded into *)

\* The frames a dump keeps are the ones that can be read.
LEMMA ReadableSerialized ==
    ASSUME NEW b, RingInv(b)
    PROVE  Serialized(b) = Readable(b)
  <1> SUFFICES ASSUME NEW i \in Window(b)
               PROVE  i \in Serialized(b) <=> WithMaterialized(b, i) # Lost
    BY DEF Serialized, Readable, Window
  <1>1. /\ OwnBase(b) /\ b.ringSize \in Nat /\ i \in 0 .. b.ringSize - 1
        /\ Lost \notin Frames
    BY CapacityAssumption, FramesAssumption DEF RingInv, RingCore, Sound, BufferType, Window
  <1>2. CASE IsKeyframe(Entry(b, i))
    BY <1>1, <1>2, Decoded DEF Serialized
  <1>3. CASE IsDelta(Entry(b, i))
    <2> DEFINE a == KeyframeAt(b, Entry(b, i))
    <2>1. a \in Int /\ ~IsKeyframe(Entry(b, i))
      BY <1>3, Decoded DEF IsKeyframe, IsDelta
    <2>2. CASE a >= 0
      <3>1. WithMaterialized(b, i) # Lost
        BY <1>1, <1>3, <2>2, Decoded
      <3>2. a \in 0 .. i - 1 /\ IsKeyframe(Entry(b, a))
        BY <1>1, <1>3, <2>2 DEF OwnBase, Base
      <3>3. Resolves(b, Entry(b, i)) /\ a < i
        BY <1>1, <3>2 DEF Resolves
      <3> QED
        BY <1>1, <3>1, <3>3 DEF Serialized
    <2>3. CASE a < 0
      <3>1. WithMaterialized(b, i) = Lost
        BY <1>3, <2>3, Decoded
      <3>2. ~Resolves(b, Entry(b, i))
        BY <1>1, <2>1, <2>3 DEF Resolves
      <3> QED
        BY <2>1, <3>1, <3>2 DEF Serialized
    <2> QED
      BY <2>1, <2>2, <2>3
  <1> QED
    BY <1>2, <1>3, Decoded

\* What is written of a frame: a keyframe with its bytes, or a delta whose
\* keyframe is written before it.
LEMMA SerializedEntry ==
    ASSUME NEW b, Sound(b), NEW S, S = Serialized(b), NEW K, K = RestoredKeyframes(b)
    PROVE  /\ S \subseteq Window(b) /\ Window(b) \subseteq 0 .. Capacity - 1
           /\ K \subseteq S
           /\ \A i \in K : /\ IsKeyframe(Entry(b, i)) /\ ~IsDelta(Entry(b, i))
                           /\ Entry(b, i).length \in Nat
                           /\ b.pool.buffers[Entry(b, i).slot] \in Contents
           /\ \A i \in S \ K : /\ Entry(b, i) \in Deltas
                               /\ IsDelta(Entry(b, i)) /\ ~IsKeyframe(Entry(b, i))
                               /\ KeyframeAt(b, Entry(b, i)) \in K
                               /\ KeyframeAt(b, Entry(b, i)) < i
  <1>1. BufferType(b) /\ DenseWindow(b) /\ OwnedSlots(b)
    BY DEF Sound
  <1>2. S \subseteq Window(b) /\ Window(b) \subseteq 0 .. Capacity - 1
    BY <1>1, WindowEntries DEF Serialized, Window
  <1>3. K \subseteq S /\ \A i \in K : IsKeyframe(Entry(b, i))
    BY DEF RestoredKeyframes
  <1>4. ASSUME NEW i \in K
        PROVE  /\ IsKeyframe(Entry(b, i)) /\ ~IsDelta(Entry(b, i))
               /\ Entry(b, i).length \in Nat
               /\ b.pool.buffers[Entry(b, i).slot] \in Contents
    <2>1. i \in Window(b) /\ IsKeyframe(Entry(b, i))
      BY <1>2, <1>3
    <2>2. ~IsDelta(Entry(b, i))
      BY <2>1 DEF IsKeyframe, IsDelta
    <2>3. Entry(b, i) \in Keyframes /\ Entry(b, i).slot \in b.pool.alive
      BY <2>1, <2>2, EntryKinds
    <2>4. /\ b.pool.buffers \in [0 .. b.pool.slots - 1 -> Contents]
          /\ b.pool.alive \subseteq 0 .. b.pool.slots - 1
      BY <1>1 DEF BufferType, PoolType
    <2> QED
      BY <2>1, <2>2, <2>3, <2>4 DEF Keyframes
  <1>5. ASSUME NEW i \in S \ K
        PROVE  /\ Entry(b, i) \in Deltas
               /\ IsDelta(Entry(b, i)) /\ ~IsKeyframe(Entry(b, i))
               /\ KeyframeAt(b, Entry(b, i)) \in K
               /\ KeyframeAt(b, Entry(b, i)) < i
    <2> DEFINE e == Entry(b, i)
               a == KeyframeAt(b, e)
    <2>1. i \in Window(b) /\ ~IsKeyframe(e) /\ Resolves(b, e) /\ a < i
      BY <1>2, <1>5 DEF RestoredKeyframes, Serialized
    <2>2. e \in Deltas /\ IsDelta(e)
      BY <2>1, EntryKinds
    <2>3. a \in 0 .. b.ringSize - 1 /\ IsKeyframe(Entry(b, a))
      BY <2>1 DEF Resolves
    <2>4. a \in K
      BY <2>3 DEF Serialized, RestoredKeyframes
    <2> QED
      BY <2>1, <2>2, <2>4
  <1> QED
    BY <1>2, <1>3, <1>4, <1>5

\* In a ring of known save states a written keyframe holds the whole of one,
\* and the keyframe of a written delta holds the bytes the delta needs.
LEMMA SerializedBase ==
    ASSUME NEW b, RingInv(b), NEW S, S = Serialized(b), NEW K, K = RestoredKeyframes(b)
    PROVE  /\ \A i \in K : /\ b.pool.buffers[Entry(b, i).slot] \in Frames
                           /\ Entry(b, i).length = Size[b.pool.buffers[Entry(b, i).slot]]
           /\ \A i \in S \ K :
                LET e == Entry(b, i)
                    a == KeyframeAt(b, e)
                IN /\ b.pool.buffers[Entry(b, a).slot] = e.base
                   /\ Size[e.of] = Entry(b, a).length
                   /\ \A k \in K : k < i => k <= a
  <1>1. OwnBase(b) /\ WholeKeyframes(b) /\ NearestBase(b) /\ Sound(b)
    BY DEF RingInv, RingCore
  <1>2. /\ S \subseteq Window(b) /\ Window(b) \subseteq 0 .. Capacity - 1
        /\ K \subseteq S
        /\ \A i \in K : IsKeyframe(Entry(b, i))
        /\ \A i \in S \ K : /\ IsDelta(Entry(b, i))
                            /\ KeyframeAt(b, Entry(b, i)) \in K
                            /\ KeyframeAt(b, Entry(b, i)) < i
    BY <1>1, SerializedEntry
  <1>3. ASSUME NEW i \in K
        PROVE  /\ b.pool.buffers[Entry(b, i).slot] \in Frames
               /\ Entry(b, i).length = Size[b.pool.buffers[Entry(b, i).slot]]
    BY <1>1, <1>2 DEF WholeKeyframes
  <1>4. ASSUME NEW i \in S \ K, NEW e, e = Entry(b, i), NEW a, a = KeyframeAt(b, e)
        PROVE  /\ b.pool.buffers[Entry(b, a).slot] = e.base
               /\ Size[e.of] = Entry(b, a).length
               /\ \A k \in K : k < i => k <= a
    <2>1. i \in Window(b) /\ IsDelta(e) /\ a \in K /\ a < i
      BY <1>2, <1>4
    <2>2. a >= 0
      BY <1>2, <2>1
    <2>3. SameBytes(b, e) /\ Size[e.of] = Base(b, e).length
      BY <1>1, <1>4, <2>1, <2>2 DEF OwnBase
    <2>4. ASSUME NEW k \in K, k < i PROVE k <= a
      <3>1. k \in 0 .. i - 1 /\ IsKeyframe(Entry(b, k))
        BY <1>2, <2>1, <2>4 DEF Window
      <3> QED
        BY <1>1, <1>4, <2>1, <2>2, <3>1 DEF NearestBase
    <2> QED
      BY <1>4, <2>3, <2>4 DEF SameBytes, Base
  <1>5. \A i \in S \ K :
                LET e == Entry(b, i)
                    a == KeyframeAt(b, e)
                IN /\ b.pool.buffers[Entry(b, a).slot] = e.base
                   /\ Size[e.of] = Entry(b, a).length
                   /\ \A k \in K : k < i => k <= a
    BY <1>4
  <1> QED
    BY <1>3, <1>5

\* In a ring of known save states none of which outgrows a slot, no keyframe
\* does.
LEMMA RingFitting == ASSUME NEW b, RingInv(b), Fits PROVE Fitting(b)
  BY SizeAssumption DEF RingInv, RingCore, WholeKeyframes, Fits, Fitting

\* A finite set of lengths has a largest one.
LEMMA LargestLength ==
    ASSUME NEW L \in SUBSET Nat, IsFiniteSet(L), L # {}
    PROVE  Max(L) \in Nat
  <1> DEFINE HasMax(X) == \E y \in X : \A x \in X : y >= x
             Bad(n) == \E X \in SUBSET L : X # {} /\ Cardinality(X) = n /\ ~HasMax(X)
             T == {n \in Nat : Bad(n)}
  <1>1. T = {}
    <2> SUFFICES ASSUME T # {} PROVE FALSE
      OBVIOUS
    <2>1. PICK n \in T : \A m \in T : ~(<<m, n>> \in OpToRel(<, Nat))
      <3>1. T \subseteq Nat
        OBVIOUS
      <3> HIDE DEF T
      <3> QED
        BY <3>1, NatLessThanWellFounded, WFMin
    <2>2. PICK X \in SUBSET L : X # {} /\ Cardinality(X) = n /\ ~HasMax(X)
      BY <2>1
    <2>3. PICK x \in X : TRUE
      BY <2>2
    <2>4. IsFiniteSet(X) /\ IsFiniteSet(X \ {x}) /\ Cardinality(X \ {x}) = n - 1
      <3>1. IsFiniteSet(X)
        BY FS_Subset
      <3> QED
        BY <2>2, <2>3, <3>1, FS_RemoveElement
    <2>5. n - 1 \in Nat /\ T \subseteq Nat
      BY <2>4, FS_CardinalityType
    <2>6. HasMax(X \ {x}) \/ X \ {x} = {}
      <3>1. n - 1 \notin T
        <4> HIDE DEF T
        <4>1. n \in Nat
          BY <2>5
        <4>2. n - 1 < n /\ <<n - 1, n>> \in Nat \X Nat
          BY <2>5, <4>1
        <4>3. <<n - 1, n>> \in OpToRel(<, Nat)
          BY <4>2 DEF OpToRel
        <4> QED
          BY <2>1, <4>3
      <3> HIDE DEF HasMax
      <3> QED
        BY <2>4, <2>5, <3>1
    <2>7. \A y \in X : y \in Nat
      OBVIOUS
    <2>8. CASE X \ {x} = {}
      BY <2>2, <2>3, <2>7, <2>8
    <2>9. CASE HasMax(X \ {x})
      <3>1. PICK y \in X \ {x} : \A z \in X \ {x} : y >= z
        BY <2>9
      <3>2. CASE y >= x
        BY <2>2, <3>1, <3>2
      <3>3. CASE ~(y >= x)
        <4>1. \A z \in X : x >= z
          BY <2>3, <2>7, <3>1, <3>3
        <4> QED
          BY <2>2, <2>3, <4>1
      <3> QED
        BY <3>2, <3>3
    <2> QED
      BY <2>6, <2>8, <2>9
  <1>2. Cardinality(L) \in Nat
    BY FS_CardinalityType
  <1>3. HasMax(L)
    <2> HIDE DEF HasMax
    <2> QED
      BY <1>1, <1>2
  <1> QED
    BY <1>3 DEF Max

\* The keyframes of a dump take the first slots of a new pool in order, and
\* while none outgrows a slot the pool is not grown as they are read.
LEMMA RestoredSlots ==
    ASSUME NEW b, Sound(b), NEW K, K = RestoredKeyframes(b),
           NEW p, p = RestoredPool(b)
    PROVE  /\ PoolOwned(p)
           /\ p.alive = 0 .. Cardinality(K) - 1
           /\ Cardinality(K) \in Nat
           /\ \A i \in K : Rank(K, i) \in p.alive
           /\ Fitting(b) =>
                /\ p.slotCapacity = InitialSlotBytes
                /\ \A i \in K : p.buffers[Rank(K, i)] = b.pool.buffers[Entry(b, i).slot]
  <1> DEFINE n == Cardinality(K)
             slots == IF n < InitialSlots THEN InitialSlots ELSE n
             L == {Entry(b, i).length : i \in K}
  <1>1. /\ K \subseteq Window(b) /\ K \subseteq 0 .. Capacity - 1
        /\ \A i \in K : /\ b.pool.buffers[Entry(b, i).slot] \in Contents
                        /\ IsKeyframe(Entry(b, i)) /\ Entry(b, i).length \in Nat
    <2> DEFINE S == Serialized(b)
    <2>1. /\ S \subseteq Window(b) /\ Window(b) \subseteq 0 .. Capacity - 1 /\ K \subseteq S
          /\ \A i \in K : /\ b.pool.buffers[Entry(b, i).slot] \in Contents
                          /\ IsKeyframe(Entry(b, i)) /\ Entry(b, i).length \in Nat
      BY SerializedEntry
    <2> QED
      BY <2>1
  <1>2. Fitting(b) => \A i \in K : Entry(b, i).length <= InitialSlotBytes
    BY <1>1 DEF Fitting
  <1>3. /\ n \in Nat
        /\ \A i \in K : Rank(K, i) \in 0 .. n - 1 /\ AtRank(K, Rank(K, i)) = i
        /\ \A s \in 0 .. n - 1 : AtRank(K, s) \in K
    <2>1. /\ Cardinality(K) \in 0 .. Capacity
          /\ \A i \in K : Rank(K, i) \in 0 .. Cardinality(K) - 1
      BY <1>1, CapacityAssumption, RankIncreases
    <2>2. /\ \A i \in K : AtRank(K, Rank(K, i)) = i
          /\ \A s \in 0 .. Cardinality(K) - 1 : AtRank(K, s) \in K
      BY <1>1, CapacityAssumption, RankInverse
    <2>3. Cardinality(K) \in Nat
      BY <2>1
    <2> QED
      BY <2>1, <2>2, <2>3
  <1>4. InitialSlots \in Nat /\ InitialSlotBytes \in Nat
    BY CapacityAssumption, IntervalAssumption, SlotBytesAssumption DEF InitialSlots
  <1>5. /\ \A i \in K : RestoredContent(b, i) \in Contents
        /\ Fitting(b) => \A i \in K : RestoredContent(b, i) = b.pool.buffers[Entry(b, i).slot]
    <2>1. \A i \in K : RestoredContent(b, i) \in {Blank, b.pool.buffers[Entry(b, i).slot]}
      BY DEF RestoredContent
    <2>2. ASSUME Fitting(b), NEW i \in K
          PROVE  RestoredContent(b, i) = b.pool.buffers[Entry(b, i).slot]
      BY <1>1, <1>2, <1>4, <2>2 DEF RestoredContent
    <2> QED
      BY <1>1, <2>1, <2>2 DEF Contents
  <1>6. /\ Max({InitialSlotBytes} \cup L) \in Nat
        /\ Fitting(b) => Max({InitialSlotBytes} \cup L) = InitialSlotBytes
    <2> DEFINE M == {InitialSlotBytes} \cup L
    <2>1. InitialSlotBytes \in M /\ M \in SUBSET Nat
      BY <1>1, <1>4
    <2>2. IsFiniteSet(M)
      <3>1. IsFiniteSet(K)
        <4>1. IsFiniteSet(0 .. Capacity - 1)
          BY CapacityAssumption, FS_Interval
        <4> QED
          BY <1>1, <4>1, FS_Subset
      <3>2. IsFiniteSet(L)
        <4> DEFINE g == [i \in K |-> Entry(b, i).length]
        <4>1. g \in Surjection(K, L)
          BY DEF Surjection
        <4> HIDE DEF g, L
        <4> QED
          BY <3>1, <4>1, FS_Surjection
      <3>3. IsFiniteSet({InitialSlotBytes})
        BY FS_Singleton
      <3> HIDE DEF L
      <3> QED
        BY <3>2, <3>3, FS_Union
    <2>3. Fitting(b) => \A x \in M : x <= InitialSlotBytes
      BY <1>2, <1>4
    <2> HIDE DEF M
    <2>4. Max(M) \in Nat
      BY <2>1, <2>2, LargestLength
    <2>5. ASSUME Fitting(b) PROVE Max(M) = InitialSlotBytes
      <3>1. \A x \in M : InitialSlotBytes >= x /\ x \in Nat
        BY <1>4, <2>1, <2>3, <2>5
      <3>2. Max(M) \in M /\ \A x \in M : Max(M) >= x
        BY <2>1, <3>1 DEF Max
      <3>3. /\ Max(M) \in Nat /\ InitialSlotBytes >= Max(M) /\ Max(M) >= InitialSlotBytes
        BY <2>1, <3>1, <3>2
      <3> QED
        BY <1>4, <3>3
    <2> QED
      BY <2>4, <2>5 DEF M
  <1>7. /\ p.slots = slots
        /\ p.slotCapacity = Max({InitialSlotBytes} \cup L)
        /\ p.buffers = [s \in 0 .. slots - 1 |->
                          IF s < n THEN RestoredContent(b, AtRank(K, s)) ELSE Blank]
        /\ p.free = n .. slots - 1
        /\ p.alive = 0 .. n - 1
    BY DEF RestoredPool, Pool
  <1>8. slots \in Nat /\ n <= slots
    BY <1>3, <1>4
  <1> HIDE DEF n, slots, L
  <1>9. p.buffers \in [0 .. slots - 1 -> Contents]
    <2>1. ASSUME NEW s \in 0 .. slots - 1
          PROVE  (IF s < n THEN RestoredContent(b, AtRank(K, s)) ELSE Blank) \in Contents
      <3>1. CASE s < n
        <4>1. AtRank(K, s) \in K
          BY <1>3, <1>8, <3>1
        <4> QED
          BY <1>1, <1>5, <3>1, <4>1 DEF Contents
      <3>2. CASE ~(s < n)
        BY <3>2 DEF Contents
      <3> QED
        BY <3>1, <3>2
    <2> QED
      BY <1>7, <2>1
  <1>10. PoolOwned(p)
    <2>1. p.free = (0 .. p.slots - 1) \ p.alive
      BY <1>3, <1>7, <1>8
    <2>2. p.alive \subseteq 0 .. p.slots - 1 /\ p.free \subseteq 0 .. p.slots - 1
      BY <1>3, <1>7, <1>8
    <2>3. p.slots \in Nat /\ p.slotCapacity \in Nat
      BY <1>4, <1>6, <1>7, <1>8
    <2> QED
      BY <1>7, <1>9, <2>1, <2>2, <2>3 DEF PoolOwned, PoolType
  <1>11. ASSUME NEW i \in K
         PROVE  /\ Rank(K, i) \in p.alive
                /\ Fitting(b) => p.buffers[Rank(K, i)] = b.pool.buffers[Entry(b, i).slot]
    <2>1. Rank(K, i) \in 0 .. n - 1 /\ AtRank(K, Rank(K, i)) = i
      BY <1>3
    <2>2. Rank(K, i) \in 0 .. slots - 1 /\ Rank(K, i) < n
      BY <1>3, <1>8, <2>1
    <2>3. p.buffers[Rank(K, i)] = RestoredContent(b, i)
      BY <1>7, <2>1, <2>2
    <2> QED
      BY <1>5, <1>7, <2>1, <2>3
  <1> QED
    BY <1>3, <1>6, <1>7, <1>10, <1>11 DEF n

\* Frame i of the dump is written at its rank, its keyframe at its own.
LEMMA RestoredWindow ==
    ASSUME NEW b, Sound(b), NEW S, S = Serialized(b), NEW r, r = Restored(b)
    PROVE  /\ r.ringHead = 0 /\ r.firstLogicalIdx = 0 /\ r.pool = RestoredPool(b)
           /\ r.ringSize = Cardinality(S) /\ r.ringSize \in 0 .. Capacity
           /\ \A i \in S : Rank(S, i) \in Window(r)
           /\ \A c \in Window(r) : AtRank(S, c) \in S /\ Rank(S, AtRank(S, c)) = c
           /\ \A c \in 0 .. Capacity - 1 : c >= r.ringSize => Entry(r, c) = Nil
           /\ r.ring = [c \in 0 .. Capacity - 1 |-> Entry(r, c)]
  <1> DEFINE n == Cardinality(S)
  <1>1. S \subseteq 0 .. Capacity - 1
    <2>1. S \subseteq Window(b) /\ Window(b) \subseteq 0 .. Capacity - 1
      BY SerializedEntry
    <2> QED
      BY <2>1
  <1>2. /\ n \in 0 .. Capacity
        /\ \A i \in S : Rank(S, i) \in 0 .. n - 1 /\ AtRank(S, Rank(S, i)) = i
        /\ \A c \in 0 .. n - 1 : AtRank(S, c) \in S /\ Rank(S, AtRank(S, c)) = c
    BY <1>1, CapacityAssumption, RankIncreases, RankInverse
  <1>3. /\ r.ringHead = 0 /\ r.ringSize = n /\ r.firstLogicalIdx = 0 /\ r.pool = RestoredPool(b)
        /\ r.ring = [c \in 0 .. Capacity - 1 |->
                       IF c < n THEN RestoredEntry(b, AtRank(S, c)) ELSE Nil]
    BY DEF Restored, Buffer
  <1> HIDE DEF n
  <1>4. ASSUME NEW c \in 0 .. Capacity - 1
        PROVE  /\ Entry(r, c) = IF c < n THEN RestoredEntry(b, AtRank(S, c)) ELSE Nil
               /\ r.ring[c] = Entry(r, c)
    <2>1. CellAt(0, c) = c
      <3>1. 0 \in 0 .. Capacity - 1 /\ c \in 0 .. Capacity
        BY CapacityAssumption
      <3>2. CellAt(0, c) = IF 0 + c < Capacity THEN 0 + c ELSE 0 + c - Capacity
        BY <3>1, Wraps
      <3> QED
        BY <3>2, CapacityAssumption
    <2> QED
      BY <1>3, <2>1 DEF Entry, SlotIndex
  <1>5. Window(r) = 0 .. n - 1 /\ Window(r) \subseteq 0 .. Capacity - 1
    BY <1>2, <1>3, CapacityAssumption DEF Window
  <1>6. \A i \in S : Rank(S, i) \in Window(r)
    BY <1>2, <1>5
  <1>7. \A c \in 0 .. Capacity - 1 : c >= n => Entry(r, c) = Nil
    BY <1>2, <1>4, CapacityAssumption
  <1>8. r.ring = [c \in 0 .. Capacity - 1 |-> Entry(r, c)]
    BY <1>3, <1>4
  <1> QED
    BY <1>2, <1>3, <1>5, <1>6, <1>7, <1>8 DEF n

\* Frame i of a dump is loaded at its rank.
LEMMA RestoredAt ==
    ASSUME NEW b, Sound(b), NEW S, S = Serialized(b), NEW i \in S, NEW c, c = Rank(S, i)
    PROVE  Entry(Restored(b), c) = RestoredEntry(b, i)
  <1> DEFINE r == Restored(b)
             n == Cardinality(S)
  <1>1. S \subseteq 0 .. Capacity - 1
    <2>1. S \subseteq Window(b) /\ Window(b) \subseteq 0 .. Capacity - 1
      BY SerializedEntry
    <2> QED
      BY <2>1
  <1>2. n \in 0 .. Capacity /\ c \in 0 .. n - 1
    BY <1>1, CapacityAssumption, RankIncreases
  <1>3. AtRank(S, c) = i
    BY <1>1, CapacityAssumption, RankInverse
  <1>4. /\ r.ringHead = 0
        /\ r.ring = [x \in 0 .. Capacity - 1 |->
                       IF x < n THEN RestoredEntry(b, AtRank(S, x)) ELSE Nil]
    BY DEF Restored, Buffer
  <1> HIDE DEF n, r
  <1>5. c \in 0 .. Capacity - 1 /\ c < n /\ c \in 0 .. Capacity /\ 0 \in 0 .. Capacity - 1
    BY <1>2, CapacityAssumption
  <1>6. CellAt(0, c) = c
    <2>1. CellAt(0, c) = IF 0 + c < Capacity THEN 0 + c ELSE 0 + c - Capacity
      BY <1>5, Wraps
    <2> QED
      BY <1>5, <2>1, CapacityAssumption
  <1>7. r.ring[c] = RestoredEntry(b, i)
    BY <1>3, <1>4, <1>5
  <1>8. Entry(r, c) = r.ring[c]
    BY <1>4, <1>6 DEF Entry, SlotIndex
  <1> QED
    BY <1>7, <1>8 DEF r

\* A keyframe is loaded into the slot of its rank among the keyframes, and a
\* delta is re-keyed to the place where its keyframe was written.
LEMMA RestoredEntries ==
    ASSUME NEW b, Sound(b), NEW S, S = Serialized(b),
           NEW K, K = RestoredKeyframes(b), NEW r, r = Restored(b),
           NEW i \in S, NEW d, d = Entry(r, Rank(S, i))
    PROVE  /\ d \in FrameEntry /\ d # Nil
           /\ i \in K =>
                /\ IsKeyframe(d) /\ ~IsDelta(d)
                /\ d.slot = Rank(K, i) /\ d.length = Entry(b, i).length
                /\ Fitting(b) => r.pool.buffers[d.slot] = b.pool.buffers[Entry(b, i).slot]
           /\ i \notin K =>
                /\ IsDelta(d) /\ ~IsKeyframe(d)
                /\ KeyframeAt(r, d) = Rank(S, KeyframeAt(b, Entry(b, i)))
                /\ d.of = Entry(b, i).of /\ d.base = Entry(b, i).base
  <1> DEFINE e == Entry(b, i)
             a == KeyframeAt(b, e)
  <1>1. /\ S \subseteq 0 .. Capacity - 1 /\ K \subseteq S
    <2>1. S \subseteq Window(b) /\ Window(b) \subseteq 0 .. Capacity - 1
      BY SerializedEntry
    <2>2. K \subseteq S
      BY DEF RestoredKeyframes
    <2> QED
      BY <2>1, <2>2
  <1>2. /\ d = RestoredEntry(b, i) /\ r.pool = RestoredPool(b) /\ r.firstLogicalIdx = 0
    <2>1. d = RestoredEntry(b, i)
      BY RestoredAt
    <2>2. r.firstLogicalIdx = 0 /\ r.pool = RestoredPool(b)
      BY RestoredWindow
    <2> QED
      BY <2>1, <2>2
  <1>3. CASE i \in K
    <2>1. IsKeyframe(e)
      BY <1>3, SerializedEntry
    <2>2. e.length \in Nat
      BY <1>3, SerializedEntry
    <2>3. d = Keyframe(Rank(K, i), e.length)
      BY <1>2, <2>1 DEF RestoredEntry
    <2>4. /\ PoolOwned(r.pool) /\ Rank(K, i) \in r.pool.alive
          /\ Fitting(b) => r.pool.buffers[Rank(K, i)] = b.pool.buffers[e.slot]
      BY <1>2, <1>3, RestoredSlots
    <2>5. Rank(K, i) \in Nat
      BY <2>4 DEF PoolOwned, PoolType
    <2>6. d.slot = Rank(K, i) /\ d.length = e.length /\ IsKeyframe(d) /\ ~IsDelta(d)
      BY <2>3 DEF Keyframe, IsKeyframe, IsDelta
    <2>7. d \in FrameEntry /\ d # Nil
      BY <2>2, <2>3, <2>5 DEF FrameEntry, Keyframes, Keyframe, Nil
    <2> QED
      BY <1>3, <2>4, <2>6, <2>7
  <1>4. CASE i \notin K
    <2>1. e \in Deltas /\ IsDelta(e) /\ ~IsKeyframe(e) /\ a \in K
      BY <1>4, SerializedEntry
    <2>2. Rank(S, a) \in Nat
      <3>1. a \in S
        BY <1>1, <2>1
      <3>2. Rank(S, a) \in 0 .. Cardinality(S) - 1
        BY <1>1, <3>1, CapacityAssumption, RankIncreases
      <3> QED
        BY <3>2
    <2>3. d = Delta(Rank(S, a), e.of, e.base, e.packed)
      BY <1>2, <2>1 DEF RestoredEntry, FileKeyframe, FileIndex
    <2>4. e.of \in Frames /\ e.base \in Contents /\ e.packed \in Nat
      BY <2>1 DEF Deltas
    <2> HIDE DEF a
    <2>5. /\ d.keyframeLogical = Rank(S, a) /\ d.of = e.of /\ d.base = e.base
          /\ IsDelta(d) /\ ~IsKeyframe(d)
      BY <2>3 DEF Delta, IsKeyframe, IsDelta
    <2>6. d \in FrameEntry /\ d # Nil
      BY <2>2, <2>3, <2>4 DEF FrameEntry, Deltas, Delta, Nil
    <2>7. KeyframeAt(r, d) = Rank(S, a)
      BY <1>2, <2>2, <2>5 DEF KeyframeAt
    <2> QED
      BY <1>4, <2>5, <2>6, <2>7 DEF a
  <1> QED
    BY <1>3, <1>4

\* The frames of a dump keep their order, and so do its keyframes.
LEMMA SerializedRanks ==
    ASSUME NEW b, Sound(b), NEW S, S = Serialized(b), NEW K, K = RestoredKeyframes(b)
    PROVE  /\ S \subseteq 0 .. Capacity - 1 /\ K \subseteq S
           /\ \A i \in S : i \in Int /\ Rank(S, i) \in Nat
           /\ \A i, j \in S : i < j => Rank(S, i) < Rank(S, j)
           /\ \A i, j \in K : i < j => Rank(K, i) < Rank(K, j)
           /\ \A i \in K : Rank(K, i) \in 0 .. Cardinality(K) - 1
           /\ \A s \in 0 .. Cardinality(K) - 1 : AtRank(K, s) \in K /\ Rank(K, AtRank(K, s)) = s
  <1>1. /\ S \subseteq 0 .. Capacity - 1 /\ K \subseteq S
        /\ K \subseteq 0 .. Capacity - 1 /\ Capacity \in Nat
    <2>1. S \subseteq Window(b) /\ Window(b) \subseteq 0 .. Capacity - 1 /\ K \subseteq S
      BY SerializedEntry
    <2> QED
      BY <2>1, CapacityAssumption
  <1>2. /\ \A i \in S : Rank(S, i) \in 0 .. Cardinality(S) - 1
        /\ \A i, j \in S : i < j => Rank(S, i) < Rank(S, j)
    BY <1>1, RankIncreases
  <1>3. /\ \A i \in K : Rank(K, i) \in 0 .. Cardinality(K) - 1
        /\ \A i, j \in K : i < j => Rank(K, i) < Rank(K, j)
    BY <1>1, RankIncreases
  <1>4. \A s \in 0 .. Cardinality(K) - 1 : AtRank(K, s) \in K /\ Rank(K, AtRank(K, s)) = s
    BY <1>1, RankInverse
  <1>5. \A i \in S : i \in Int /\ Rank(S, i) \in Nat
    BY <1>1, <1>2
  <1> QED
    BY <1>1, <1>2, <1>3, <1>4, <1>5

\* Every entry of the restored window is a frame of the dump at its rank.
LEMMA RestoredPlaces ==
    ASSUME NEW b, Sound(b), NEW S, S = Serialized(b), NEW r, r = Restored(b)
    PROVE  /\ Window(r) = 0 .. r.ringSize - 1 /\ Window(r) \subseteq 0 .. Capacity - 1
           /\ r.ringSize \in 0 .. Capacity
           /\ \A c \in Window(r) :
                \E i \in S : c = Rank(S, i) /\ Entry(r, c) = Entry(r, Rank(S, i))
  <1>1. /\ r.ringSize \in 0 .. Capacity
        /\ \A c \in Window(r) : AtRank(S, c) \in S /\ Rank(S, AtRank(S, c)) = c
    BY RestoredWindow
  <1>2. Window(r) = 0 .. r.ringSize - 1 /\ Window(r) \subseteq 0 .. Capacity - 1
    BY <1>1, CapacityAssumption DEF Window
  <1> QED
    BY <1>1, <1>2

\* The ring a dump is loaded into is dense and owns its slots, and it fits its
\* slots when the dumped ring did.
LEMMA RestoredSound ==
    ASSUME NEW b, Sound(b), NEW r, r = Restored(b)
    PROVE  /\ Sound(r) /\ r.ringSize \in 0 .. b.ringSize
           /\ Fitting(b) => Fitting(r)
  <1> DEFINE S == Serialized(b)
             K == RestoredKeyframes(b)
             At(i) == Entry(b, i)
             New(i) == Entry(r, Rank(S, i))
  <1>4. /\ r.ringHead = 0 /\ r.firstLogicalIdx = 0 /\ r.pool = RestoredPool(b)
        /\ r.ringSize \in 0 .. Capacity
        /\ \A i \in S : Rank(S, i) \in Window(r)
        /\ \A c \in 0 .. Capacity - 1 : c >= r.ringSize => Entry(r, c) = Nil
        /\ r.ring = [c \in 0 .. Capacity - 1 |-> Entry(r, c)]
    BY RestoredWindow
  <1>5. /\ PoolOwned(r.pool)
        /\ r.pool.alive = 0 .. Cardinality(K) - 1
        /\ Fitting(b) => r.pool.slotCapacity = InitialSlotBytes
    BY <1>4, RestoredSlots
  <1>6. \A i \in S : New(i) \in FrameEntry /\ New(i) # Nil
    BY RestoredEntries
  <1>7. \A i \in S : i \in K =>
          /\ IsKeyframe(New(i))
          /\ New(i).slot = Rank(K, i) /\ New(i).length = At(i).length
    BY RestoredEntries
  <1>8. \A i \in S : i \notin K => ~IsKeyframe(New(i))
    BY RestoredEntries
  <1>9. /\ S \subseteq 0 .. Capacity - 1 /\ K \subseteq S
        /\ \A i \in S : i \in Int /\ Rank(S, i) \in Nat
        /\ \A i, j \in K : i < j => Rank(K, i) < Rank(K, j)
        /\ \A i \in K : Rank(K, i) \in 0 .. Cardinality(K) - 1
        /\ \A s \in 0 .. Cardinality(K) - 1 : AtRank(K, s) \in K /\ Rank(K, AtRank(K, s)) = s
    BY SerializedRanks
  <1>11. /\ Window(r) = 0 .. r.ringSize - 1 /\ Window(r) \subseteq 0 .. Capacity - 1
         /\ \A c \in Window(r) : \E i \in S : c = Rank(S, i) /\ Entry(r, c) = New(i)
    BY RestoredPlaces
  <1>12. \A i \in K : i \in Window(b) /\ IsKeyframe(At(i))
    <2>1. /\ S \subseteq Window(b) /\ K \subseteq S
          /\ \A i \in K : IsKeyframe(Entry(b, i))
      BY SerializedEntry
    <2> QED
      BY <2>1
  <1> HIDE DEF S, K, At, New
  <1>13. DenseWindow(r)
    <2> SUFFICES ASSUME NEW c \in 0 .. Capacity - 1
                 PROVE  Entry(r, c) # Nil <=> c < r.ringSize
      BY DEF DenseWindow
    <2>1. CASE c < r.ringSize
      <3>1. c \in Window(r)
        BY <1>4, <1>11, <2>1, CapacityAssumption
      <3> QED
        BY <1>6, <1>11, <2>1, <3>1
    <2>2. CASE ~(c < r.ringSize)
      <3>1. c >= r.ringSize
        BY <1>4, <2>2, CapacityAssumption
      <3> QED
        BY <1>4, <2>2, <3>1
    <2> QED
      BY <2>1, <2>2
  <1>14. BufferType(r)
    <2>1. ASSUME NEW c \in 0 .. Capacity - 1 PROVE Entry(r, c) \in FrameEntry \cup {Nil}
      <3>1. CASE c \in Window(r)
        BY <1>6, <1>11, <3>1
      <3>2. CASE c \notin Window(r)
        <4>1. c >= r.ringSize
          BY <1>4, <1>11, <3>2, CapacityAssumption
        <4> QED
          BY <1>4, <4>1
      <3> QED
        BY <3>1, <3>2
    <2>2. r.ring \in [0 .. Capacity - 1 -> FrameEntry \cup {Nil}]
      BY <1>4, <2>1
    <2>3. r.ringHead \in 0 .. Capacity - 1 /\ r.firstLogicalIdx \in Nat
      BY <1>4, CapacityAssumption
    <2> QED
      BY <1>4, <1>5, <2>2, <2>3 DEF BufferType, PoolOwned
  <1>15. OwnedSlots(r)
    <2>1. ASSUME NEW c \in Window(r), NEW d \in Window(r),
                 IsKeyframe(Entry(r, c)), IsKeyframe(Entry(r, d)),
                 Entry(r, c).slot = Entry(r, d).slot
          PROVE  c = d
      <3>1. PICK i \in S : c = Rank(S, i) /\ Entry(r, c) = New(i)
        BY <1>11
      <3>2. PICK j \in S : d = Rank(S, j) /\ Entry(r, d) = New(j)
        BY <1>11
      <3>3. i \in K /\ j \in K
        BY <1>8, <2>1, <3>1, <3>2
      <3>4. Rank(K, i) = Rank(K, j)
        BY <1>7, <1>9, <2>1, <3>1, <3>2, <3>3
      <3>5. Rank(K, i) \in Int
        BY <1>9, <3>3
      <3>6. ~(i < j) /\ ~(j < i)
        BY <1>9, <3>3, <3>4, <3>5
      <3>7. i = j
        BY <1>9, <3>3, <3>6
      <3> QED
        BY <3>1, <3>2, <3>7
    <2>2. ASSUME NEW c \in Window(r), IsKeyframe(Entry(r, c))
          PROVE  Entry(r, c).slot \in r.pool.alive
      <3>1. PICK i \in S : c = Rank(S, i) /\ Entry(r, c) = New(i)
        BY <1>11
      <3>2. i \in K
        BY <1>8, <2>2, <3>1
      <3> QED
        BY <1>5, <1>7, <1>9, <3>1, <3>2
    <2>3. ASSUME NEW s \in r.pool.alive
          PROVE  \E c \in Window(r) : IsKeyframe(Entry(r, c)) /\ Entry(r, c).slot = s
      <3>1. AtRank(K, s) \in K /\ Rank(K, AtRank(K, s)) = s
        BY <1>5, <1>9
      <3>2. PICK i \in K : Rank(K, i) = s
        BY <3>1
      <3>3. Rank(S, i) \in Window(r) /\ Entry(r, Rank(S, i)) = New(i)
        BY <1>9, <1>4, <3>2 DEF New
      <3> QED
        BY <1>7, <1>9, <3>2, <3>3
    <2>4. SlotsOf(r, Window(r)) = r.pool.alive
      BY <2>2, <2>3 DEF SlotsOf
    <2> QED
      BY <1>5, <2>1, <2>4 DEF OwnedSlots, PoolOwned
  <1>3. r.ringSize \in 0 .. b.ringSize
    <2>1. Serialized(b) \subseteq 0 .. b.ringSize - 1 /\ b.ringSize \in Nat
      BY CapacityAssumption DEF Serialized, Sound, BufferType
    <2>2. Cardinality(Serialized(b)) \in 0 .. b.ringSize
      BY <2>1, RankIncreases
    <2>3. r.ringSize = Cardinality(Serialized(b))
      BY RestoredWindow
    <2> QED
      BY <2>2, <2>3
  <1>16. ASSUME Fitting(b) PROVE Fitting(r)
    <2>1. ASSUME NEW c \in Window(r), IsKeyframe(Entry(r, c))
          PROVE  Entry(r, c).length <= InitialSlotBytes
      <3>1. PICK i \in S : c = Rank(S, i) /\ Entry(r, c) = New(i)
        BY <1>11
      <3>2. i \in K /\ Entry(r, c).length = At(i).length
        BY <1>7, <1>8, <2>1, <3>1
      <3> QED
        BY <1>12, <1>16, <3>2 DEF Fitting, At
    <2> QED
      BY <1>5, <1>16, <2>1 DEF Fitting
  <1> QED
    BY <1>3, <1>13, <1>14, <1>15, <1>16 DEF Sound

\* The ring a dump is loaded into satisfies the whole invariant: whatever the
\* eviction before the crash left, it can be pushed to and evicted from again.
LEMMA RestoredRing ==
    ASSUME NEW b, RingInv(b), Fits, NEW r, r = Restored(b)
    PROVE  RingInv(r)
  <1> DEFINE S == Serialized(b)
             K == RestoredKeyframes(b)
             At(i) == Entry(b, i)
             Kf(i) == KeyframeAt(b, At(i))
             New(i) == Entry(r, Rank(S, i))
  <1>1. Sound(b) /\ Fitting(b)
    BY RingFitting DEF RingInv, RingCore
  <1>2. \A i \in K : /\ b.pool.buffers[At(i).slot] \in Frames
                     /\ At(i).length = Size[b.pool.buffers[At(i).slot]]
    BY SerializedBase
  <1>3. \A i \in S \ K : /\ b.pool.buffers[At(Kf(i)).slot] = At(i).base
                         /\ Size[At(i).of] = At(Kf(i)).length
                         /\ \A k \in K : k < i => k <= Kf(i)
    BY SerializedBase
  <1>4. \A i \in S \ K : Kf(i) \in K /\ Kf(i) < i
    BY <1>1, SerializedEntry
  <1>5. r.firstLogicalIdx = 0
    BY <1>1, RestoredWindow
  <1>6. Sound(r) /\ r.pool.slotCapacity = InitialSlotBytes
    BY <1>1, RestoredSound DEF Fitting
  <1>7. \A i \in S : i \in K =>
          /\ IsKeyframe(New(i)) /\ ~IsDelta(New(i))
          /\ New(i).slot = Rank(K, i) /\ New(i).length = At(i).length
          /\ r.pool.buffers[New(i).slot] = b.pool.buffers[At(i).slot]
    BY <1>1, RestoredEntries
  <1>8. \A i \in S : i \notin K =>
          /\ IsDelta(New(i)) /\ ~IsKeyframe(New(i))
          /\ KeyframeAt(r, New(i)) = Rank(S, Kf(i))
          /\ New(i).of = At(i).of /\ New(i).base = At(i).base
    BY <1>1, RestoredEntries
  <1>9. /\ S \subseteq 0 .. Capacity - 1 /\ K \subseteq S
        /\ \A i \in S : i \in Int /\ Rank(S, i) \in Nat
        /\ \A i, j \in S : i < j => Rank(S, i) < Rank(S, j)
    BY <1>1, SerializedRanks
  <1>11. /\ Window(r) = 0 .. r.ringSize - 1 /\ r.ringSize \in 0 .. Capacity
         /\ \A c \in Window(r) : \E i \in S : c = Rank(S, i) /\ Entry(r, c) = New(i)
    BY <1>1, RestoredPlaces
  <1> HIDE DEF S, K, At, Kf, New
  <1>16. OwnBase(r)
    <2> SUFFICES ASSUME NEW c \in Window(r), IsDelta(Entry(r, c)), KeyframeAt(r, Entry(r, c)) >= 0
                 PROVE  /\ KeyframeAt(r, Entry(r, c)) \in 0 .. c - 1
                        /\ IsKeyframe(Base(r, Entry(r, c)))
                        /\ SameBytes(r, Entry(r, c))
                        /\ Size[Entry(r, c).of] = Base(r, Entry(r, c)).length
      BY DEF OwnBase
    <2>1. PICK i \in S : c = Rank(S, i) /\ Entry(r, c) = New(i)
      BY <1>11
    <2>2. i \in S \ K
      BY <1>7, <2>1
    <2>3. PICK a \in K : /\ a = Kf(i) /\ a < i
                         /\ b.pool.buffers[At(a).slot] = At(i).base
                         /\ Size[At(i).of] = At(a).length
      BY <1>3, <1>4, <2>2
    <2>4. KeyframeAt(r, New(i)) = Rank(S, a) /\ Base(r, New(i)) = New(a)
      BY <1>8, <2>2, <2>3 DEF Base, New
    <2>5. Rank(S, a) \in 0 .. c - 1
      <3>1. a \in S /\ Rank(S, a) < Rank(S, i)
        BY <1>4, <1>9, <2>2, <2>3
      <3>2. Rank(S, a) \in Nat /\ Rank(S, i) \in Nat
        BY <1>9, <3>1
      <3> QED
        BY <2>1, <3>1, <3>2
    <2>6. /\ IsKeyframe(New(a)) /\ New(a).length = At(a).length
          /\ r.pool.buffers[New(a).slot] = b.pool.buffers[At(a).slot]
      BY <1>7, <1>9
    <2>7. New(i).of = At(i).of /\ New(i).base = At(i).base
      BY <1>8, <2>2
    <2> QED
      BY <2>1, <2>3, <2>4, <2>5, <2>6, <2>7 DEF SameBytes
  <1>17. WholeKeyframes(r)
    <2> SUFFICES ASSUME NEW c \in Window(r), IsKeyframe(Entry(r, c))
                 PROVE  /\ r.pool.buffers[Entry(r, c).slot] \in Frames
                        /\ Entry(r, c).length = Size[r.pool.buffers[Entry(r, c).slot]]
      BY DEF WholeKeyframes
    <2>1. PICK i \in S : c = Rank(S, i) /\ Entry(r, c) = New(i)
      BY <1>11
    <2>2. i \in K
      BY <1>8, <2>1
    <2> QED
      BY <1>2, <1>7, <2>1, <2>2
  <1>18. NearestBase(r)
    <2> SUFFICES ASSUME NEW c \in Window(r), NEW d \in 0 .. c - 1,
                        IsDelta(Entry(r, c)), IsKeyframe(Entry(r, d))
                 PROVE  KeyframeAt(r, Entry(r, c)) >= 0 /\ d <= KeyframeAt(r, Entry(r, c))
      BY DEF NearestBase
    <2>1. d \in Window(r) /\ d < c /\ c \in Nat /\ d \in Nat
      BY <1>11, CapacityAssumption
    <2>2. PICK i \in S : c = Rank(S, i) /\ Entry(r, c) = New(i)
      BY <1>11
    <2>3. PICK k \in S : d = Rank(S, k) /\ Entry(r, d) = New(k)
      BY <1>11, <2>1
    <2>4. i \in S \ K /\ k \in K
      BY <1>7, <1>8, <2>2, <2>3
    <2>5. k < i
      <3>1. ~(i < k) /\ i # k
        BY <1>9, <2>1, <2>2, <2>3
      <3> QED
        BY <1>9, <3>1
    <2>6. PICK a \in K : a = Kf(i) /\ k <= a
      BY <1>3, <1>4, <2>4, <2>5
    <2>7. KeyframeAt(r, New(i)) = Rank(S, a) /\ a \in S /\ Rank(S, a) \in Nat
      BY <1>8, <1>9, <2>4, <2>6
    <2>8. Rank(S, k) <= Rank(S, a)
      <3>1. CASE k = a
        BY <2>7, <3>1
      <3>2. CASE k # a
        <4>1. k < a
          BY <1>9, <2>6, <2>7, <3>2
        <4>2. Rank(S, k) < Rank(S, a)
          BY <1>9, <2>7, <4>1
        <4> QED
          BY <2>1, <2>3, <2>7, <4>2
      <3> QED
        BY <3>1, <3>2
    <2> QED
      BY <2>2, <2>3, <2>7, <2>8
  <1> QED
    BY <1>6, <1>16, <1>17, <1>18 DEF RingInv, RingCore

\* A crash dump loaded back holds exactly the frames that could be read, each
\* decoding to the save state it decoded to, in a ring as sound as the old one.
THEOREM DumpTheorem == ASSUME Fits PROVE Spec => []DumpKeepsReadableFrames
  <1>1. IInv => DumpKeepsReadableFrames
    <2> SUFFICES ASSUME IInv PROVE DumpKeepsReadableFrames
      OBVIOUS
    <2> DEFINE r == Restored(rb)
               S == Serialized(rb)
               K == RestoredKeyframes(rb)
    <2>1. RingInv(rb) /\ S = Readable(rb)
      BY ReadableSerialized DEF IInv
    <2>2. RingInv(r) /\ Sound(rb) /\ Fitting(rb)
      BY <2>1, RestoredRing, RingFitting DEF RingInv, RingCore
    <2>3. r.ringSize = Cardinality(S)
      BY <2>2, RestoredWindow
    <2>4. ASSUME NEW i \in S
          PROVE  WithMaterialized(r, Rank(S, i)) = WithMaterialized(rb, i)
      <3> DEFINE c == Rank(S, i)
      <3>1. c \in Window(r) /\ i \in Window(rb)
        BY <2>2, RestoredWindow, SerializedEntry
      <3>2. CASE i \in K
        <4>1. /\ IsKeyframe(Entry(r, c)) /\ IsKeyframe(Entry(rb, i))
              /\ r.pool.buffers[Entry(r, c).slot] = rb.pool.buffers[Entry(rb, i).slot]
          BY <2>2, <3>2, RestoredEntries, SerializedEntry
        <4> HIDE DEF r
        <4> QED
          BY <4>1 DEF WithMaterialized
      <3>3. CASE i \notin K
        <4>1. /\ IsDelta(Entry(r, c)) /\ IsDelta(Entry(rb, i))
              /\ KeyframeAt(r, Entry(r, c)) = Rank(S, KeyframeAt(rb, Entry(rb, i)))
              /\ Entry(r, c).of = Entry(rb, i).of
              /\ KeyframeAt(rb, Entry(rb, i)) \in S
          BY <2>2, <3>3, RestoredEntries, SerializedEntry
        <4>2. S \subseteq 0 .. Capacity - 1
          BY <2>2, SerializedEntry
        <4>3. KeyframeAt(rb, Entry(rb, i)) >= 0
          BY <4>1, <4>2, CapacityAssumption
        <4>4. KeyframeAt(r, Entry(r, c)) >= 0
          <5>1. Rank(S, KeyframeAt(rb, Entry(rb, i))) \in 0 .. Cardinality(S) - 1
            BY <4>1, <4>2, CapacityAssumption, RankIncreases
          <5> QED
            BY <4>1, <5>1
        <4>5. WithMaterialized(rb, i) = Entry(rb, i).of
          BY <2>1, <3>1, <4>1, <4>3, Decoded
        <4>6. WithMaterialized(r, c) = Entry(r, c).of
          BY <2>2, <3>1, <4>1, <4>4, Decoded
        <4> QED
          BY <4>1, <4>5, <4>6
      <3> QED
        BY <3>2, <3>3
    <2> HIDE DEF r, S
    <2>5. DenseWindow(r) /\ OwnedSlots(r) /\ OwnBase(r)
      BY <2>2 DEF RingInv, RingCore, Sound
    <2>6. r = Restored(rb) /\ S = Readable(rb)
      BY <2>1 DEF r
    <2> QED
      BY <2>3, <2>4, <2>5, <2>6 DEF DumpKeepsReadableFrames
  <1> QED
    BY <1>1, Invariant, PTL

-----------------------------------------------------------------------------
(* Pushes of save states nobody announces *)

\* What the class asks of a push that is not scheduled as a keyframe: the save
\* state has the length of the newest keyframe there is.
Matches(b, n) ==
    NearestKeyframeIndex(b, b.ringSize) # -1 =>
        Entry(b, NearestKeyframeIndex(b, b.ringSize)).length = n

\* Anything may be pushed into an empty ring.
LEMMA EmptyMatches == ASSUME NEW b, b.ringSize = 0, NEW n PROVE Matches(b, n)
  <1>1. KeyframesBelow(b, b.ringSize) = {}
    BY DEF KeyframesBelow
  <1> QED
    BY <1>1 DEF Matches, NearestKeyframeIndex

\* nearestKeyframeIndex(forFrameIndex:) finds nothing but the newest.
LEMMA NearestUnique ==
    ASSUME NEW b, NEW n \in Nat, NEW j \in 0 .. n - 1, IsKeyframe(Entry(b, j)),
           \A k \in 0 .. n - 1 : IsKeyframe(Entry(b, k)) => k <= j
    PROVE  NearestKeyframeIndex(b, n) = j
  <1>1. j \in KeyframesBelow(b, n) /\ \A k \in KeyframesBelow(b, n) : k <= j
    BY DEF KeyframesBelow
  <1>2. \A i \in KeyframesBelow(b, n) : i \in Int
    BY DEF KeyframesBelow
  <1>3. ASSUME NEW i \in KeyframesBelow(b, n), \A k \in KeyframesBelow(b, n) : k <= i
        PROVE  i = j
    BY <1>1, <1>2, <1>3
  <1> QED
    BY <1>1, <1>3 DEF NearestKeyframeIndex

\* evictHead() moves every entry one place towards the head, and what becomes
\* the head may have been promoted.
LEMMA EvictedEntries ==
    ASSUME NEW b, Sound(b), b.ringSize > 0, NEW c, c = EvictHead(b),
           NEW k, k = Keyframe(NextSlot(b.pool), MaterializedLength(b, Entry(b, 1)))
    PROVE  \A i \in 0 .. b.ringSize - 2 :
             Entry(c, i) = IF i = 0 /\ Promotes(b) THEN k ELSE Entry(b, i + 1)
  <1>1. b.ringSize \in 1 .. Capacity
    BY CapacityAssumption DEF Sound, BufferType
  <1>2. CASE Promotes(b)
    <2> DEFINE n == MaterializedLength(b, Entry(b, 1))
               x == Materialize(b, 1)
               p == PromoteSecond(b)
    <2>1. /\ 1 \in Window(b) /\ 1 \in 0 .. Capacity - 1 /\ IsDelta(Entry(b, 1))
          /\ x \in Contents /\ n \in Nat
      BY <1>2, PromotedBytes
    <2>2. /\ p.ring = SetEntry(b, 1, k)
          /\ p.ringHead = b.ringHead /\ p.ringSize = b.ringSize
          /\ p.firstLogicalIdx = b.firstLogicalIdx /\ p.pool = Acquire(b.pool, x, n)
      BY DEF PromoteSecond, Buffer
    <2>3. c = DropHead(p)
      BY <1>2 DEF EvictHead
    <2> HIDE DEF p, x
    <2>4. /\ Sound(p)
          /\ \A i \in 0 .. Capacity - 1 : Entry(p, i) = IF i = 1 THEN k ELSE Entry(b, i)
      BY <2>1, <2>2, SoundPut
    <2>5. \A i \in 0 .. b.ringSize - 2 : Entry(c, i) = Entry(p, i + 1)
      BY <1>1, <2>2, <2>3, <2>4, SoundHead
    <2> QED
      BY <1>1, <1>2, <2>4, <2>5, CapacityAssumption
  <1>3. CASE ~Promotes(b)
    <2>1. c = DropHead(b)
      BY <1>3 DEF EvictHead
    <2>2. \A i \in 0 .. b.ringSize - 2 : Entry(c, i) = Entry(b, i + 1)
      BY <1>1, <2>1, SoundHead
    <2> QED
      BY <1>3, <2>2
  <1> QED
    BY <1>2, <1>3

\* evictHead() leaves the length of the newest keyframe as it was, be it one
\* that the eviction promotes.
LEMMA EvictedMatches ==
    ASSUME NEW b, RingInv(b), b.ringSize > 0, NEW n, Matches(b, n), NEW c, c = EvictHead(b)
    PROVE  Matches(c, n)
  <1> DEFINE m == b.ringSize
             j == NearestKeyframeIndex(c, c.ringSize)
             e == Entry(b, 1)
             k == Keyframe(NextSlot(b.pool), MaterializedLength(b, e))
  <1>1. Sound(b) /\ OwnBase(b)
    BY DEF RingInv, RingCore
  <1>2. m \in 1 .. Capacity /\ m \in Nat
    BY <1>1, CapacityAssumption DEF Sound, BufferType
  <1>3. c.ringSize = m - 1
    BY <1>1, SoundEvicted
  <1>4. \A i \in 0 .. m - 2 : Entry(c, i) = IF i = 0 /\ Promotes(b) THEN k ELSE Entry(b, i + 1)
    BY <1>1, EvictedEntries
  <1>5. k.length = MaterializedLength(b, e)
    BY DEF Keyframe
  <1> SUFFICES ASSUME j # -1 PROVE Entry(c, j).length = n
    BY DEF Matches
  <1>6. m - 1 \in Nat
    BY <1>2
  <1>7. /\ j \in 0 .. m - 2 /\ IsKeyframe(Entry(c, j))
        /\ \A i \in 0 .. m - 2 : IsKeyframe(Entry(c, i)) => i <= j
    <2>1. /\ j \in 0 .. (m - 1) - 1 /\ IsKeyframe(Entry(c, j))
          /\ \A i \in 0 .. (m - 1) - 1 : IsKeyframe(Entry(c, i)) => i <= j
      BY <1>3, <1>6, NearestIsNewest
    <2>2. (m - 1) - 1 = m - 2
      BY <1>2
    <2> HIDE DEF j
    <2> QED
      BY <2>1, <2>2
  <1> HIDE DEF j, k
  <1>8. ASSUME NEW i \in 0 .. m - 1, i >= 2, IsKeyframe(Entry(b, i)) PROVE i <= j + 1
    <2>1. i - 1 \in 0 .. m - 2 /\ i - 1 # 0 /\ (i - 1) + 1 = i
      BY <1>2, <1>8
    <2>2. Entry(c, i - 1) = Entry(b, i)
      BY <1>4, <2>1
    <2> QED
      BY <1>2, <1>7, <1>8, <2>1, <2>2
  <1>9. CASE j = 0 /\ Promotes(b)
    <2>1. /\ IsKeyframe(Entry(b, 0)) /\ m > 1 /\ IsDelta(e) /\ Resolves(b, e)
      BY <1>9 DEF Promotes
    <2>2. 1 \in Window(b) /\ 0 \in 0 .. m - 1 /\ ~IsKeyframe(e)
      BY <1>2, <2>1 DEF Window, IsDelta, IsKeyframe
    <2>3. \A i \in 0 .. m - 1 : IsKeyframe(Entry(b, i)) => i <= 0
      <3> SUFFICES ASSUME NEW i \in 0 .. m - 1, IsKeyframe(Entry(b, i)), ~(i <= 0) PROVE FALSE
        OBVIOUS
      <3>1. i = 1 \/ i >= 2
        BY <1>2
      <3>2. CASE i = 1
        BY <2>2, <3>2
      <3>3. CASE i >= 2
        BY <1>8, <1>9, <3>3
      <3> QED
        BY <3>1, <3>2, <3>3
    <2>4. NearestKeyframeIndex(b, m) = 0
      BY <1>2, <2>1, <2>2, <2>3, NearestUnique
    <2>5. Entry(b, 0).length = n
      BY <2>4 DEF Matches
    <2>6. KeyframeAt(b, e) \in 0 .. m - 1
      BY <2>1 DEF Resolves
    <2>7. KeyframeAt(b, e) = 0 /\ Size[e.of] = Base(b, e).length
      <3>1. KeyframeAt(b, e) >= 0
        BY <1>2, <2>6
      <3>2. KeyframeAt(b, e) \in 0 .. 1 - 1 /\ Size[e.of] = Base(b, e).length
        BY <1>1, <2>1, <2>2, <3>1 DEF OwnBase
      <3> QED
        BY <3>2
    <2>8. MaterializedLength(b, e) = n
      BY <2>5, <2>7 DEF MaterializedLength, Base
    <2>9. Entry(c, 0) = k
      BY <1>4, <1>7, <1>9
    <2> QED
      BY <1>5, <1>9, <2>8, <2>9
  <1>10. CASE ~(j = 0 /\ Promotes(b))
    <2>1. Entry(c, j) = Entry(b, j + 1) /\ j + 1 \in 0 .. m - 1
      BY <1>2, <1>4, <1>7, <1>10
    <2>2. \A i \in 0 .. m - 1 : IsKeyframe(Entry(b, i)) => i <= j + 1
      <3> SUFFICES ASSUME NEW i \in 0 .. m - 1, IsKeyframe(Entry(b, i)) PROVE i <= j + 1
        OBVIOUS
      <3>1. i \in {0, 1} \/ i >= 2
        BY <1>2
      <3> QED
        BY <1>2, <1>7, <1>8, <3>1
    <2>3. NearestKeyframeIndex(b, m) = j + 1
      BY <1>2, <1>7, <2>1, <2>2, NearestUnique
    <2>4. j + 1 # -1
      BY <1>7
    <2> QED
      BY <2>1, <2>3, <2>4 DEF Matches
  <1> QED
    BY <1>9, <1>10

\* Making room for a push does.
LEMMA RoomMatches ==
    ASSUME NEW b, RingInv(b), NEW n, Matches(b, n), NEW c, c = MadeRoom(b)
    PROVE  Matches(c, n)
  <1>1. CASE b.ringSize = Capacity
    <2>1. c = EvictHead(b) /\ b.ringSize > 0
      BY <1>1, CapacityAssumption DEF MadeRoom
    <2> QED
      BY <2>1, EvictedMatches
  <1>2. CASE b.ringSize # Capacity
    BY <1>2 DEF MadeRoom
  <1> QED
    BY <1>1, <1>2

\* A save state that matches the newest keyframe, or is stored whole, may be
\* pushed, keeps the invariant and is matched by the newest keyframe then.
LEMMA AppendedMatches ==
    ASSUME NEW b, RingInv(b), Fits, b.ringSize \in 0 .. Capacity - 1,
           NEW f \in Frames, NEW n \in PackedSizes,
           NEW scheduled, scheduled \/ Matches(b, Size[f]),
           NEW c, c = Appended(b, scheduled, f, n)
    PROVE  RingInv(c) /\ Matches(c, Size[f])
  <1> DEFINE m == b.ringSize
             j == NearestKeyframeIndex(b, m)
  <1>1. /\ m < Capacity /\ m \in Nat /\ m \in 0 .. m /\ m \in 0 .. Capacity - 1
        /\ Sound(b) /\ BufferType(b)
    BY CapacityAssumption DEF RingInv, RingCore, Sound
  <1>2. c.ringSize = m + 1
    BY <1>1, SoundAppended
  <1>3. CASE StoredWhole(b, scheduled)
    <2> DEFINE k == Keyframe(NextSlot(b.pool), Size[f])
    <2>1. c = AppendKeyframe(b, f)
      BY <1>3 DEF Appended
    <2>2. /\ c.ring = SetEntry(b, m, k) /\ c.ringHead = b.ringHead
      BY <2>1 DEF AppendKeyframe, Buffer
    <2>3. k.length = Size[f] /\ IsKeyframe(k)
      BY DEF Keyframe, IsKeyframe
    <2> HIDE DEF k
    <2>4. Entry(c, m) = k
      <3>1. \A i \in 0 .. Capacity - 1 : Entry(c, i) = IF i = m THEN k ELSE Entry(b, i)
        BY <1>1, <2>2, WriteEntry
      <3> QED
        BY <1>1, <3>1
    <2>5. NearestKeyframeIndex(c, m + 1) = m
      <3>1. m \in 0 .. (m + 1) - 1 /\ m + 1 \in Nat /\ \A i \in 0 .. (m + 1) - 1 : i <= m
        BY <1>1
      <3> QED
        BY <2>3, <2>4, <3>1, NearestUnique
    <2>6. RingInv(c)
      BY <1>1, <2>1, KeyframeAppended
    <2> QED
      BY <1>2, <2>3, <2>4, <2>5, <2>6 DEF Matches
  <1>4. CASE ~StoredWhole(b, scheduled)
    <2>1. c = AppendDelta(b, f, n) /\ j # -1 /\ Size[f] = Entry(b, j).length
      BY <1>4 DEF Appended, StoredWhole, Matches
    <2>2. RingInv(c)
      BY <1>1, <2>1, DeltaAppended
    <2> DEFINE e == Delta(j + b.firstLogicalIdx, f, b.pool.buffers[Entry(b, j).slot], n)
    <2>3. c.ring = SetEntry(b, m, e) /\ c.ringHead = b.ringHead
      BY <2>1 DEF AppendDelta, Buffer
    <2>4. ~IsKeyframe(e)
      BY DEF Delta, IsKeyframe
    <2> HIDE DEF e
    <2>5. /\ Entry(c, m) = e
          /\ \A i \in 0 .. Capacity - 1 : i # m => Entry(c, i) = Entry(b, i)
      <3>1. \A i \in 0 .. Capacity - 1 : Entry(c, i) = IF i = m THEN e ELSE Entry(b, i)
        BY <1>1, <2>3, WriteEntry
      <3> QED
        BY <1>1, <3>1
    <2>6. /\ j \in 0 .. m - 1 /\ IsKeyframe(Entry(b, j))
          /\ \A i \in 0 .. m - 1 : IsKeyframe(Entry(b, i)) => i <= j
      BY <1>1, <2>1, NearestIsNewest
    <2> HIDE DEF j
    <2>7. \A i \in 0 .. m - 1 : Entry(c, i) = Entry(b, i)
      BY <1>1, <2>5, CapacityAssumption
    <2>8. NearestKeyframeIndex(c, m + 1) = j
      <3>1. m + 1 \in Nat /\ j \in 0 .. (m + 1) - 1
        BY <1>1, <2>6
      <3>2. ASSUME NEW i \in 0 .. (m + 1) - 1, IsKeyframe(Entry(c, i)) PROVE i <= j
        <4>1. i \in 0 .. m - 1 \/ i = m
          BY <1>1
        <4> QED
          BY <2>4, <2>5, <2>6, <2>7, <3>2, <4>1
      <3>3. IsKeyframe(Entry(c, j))
        BY <2>6, <2>7
      <3> QED
        BY <3>1, <3>2, <3>3, NearestUnique
    <2>9. Entry(c, j).length = Size[f]
      BY <2>1, <2>6, <2>7
    <2> QED
      BY <1>2, <2>2, <2>8, <2>9 DEF Matches
  <1> QED
    BY <1>3, <1>4

\* dropLast(n) of any number of frames keeps the invariant.
LEMMA RingDropped ==
    ASSUME NEW b, RingInv(b), NEW n \in Nat, NEW c, c = DropLastOf(b, n)
    PROVE  RingInv(c)
  <1> DEFINE k == DropCount(b, n)
             m == b.ringSize - k
  <1>1. b.ringSize \in 0 .. Capacity
    BY DEF RingInv, RingCore, Sound, BufferType
  <1>2. k \in 0 .. b.ringSize
    BY <1>1, CapacityAssumption DEF DropCount
  <1>3. m \in 0 .. b.ringSize
    BY <1>1, <1>2
  <1>4. /\ c.ring = Without(b, m .. (b.ringSize - 1)) /\ c.ringHead = b.ringHead
        /\ c.ringSize = m /\ c.firstLogicalIdx = b.firstLogicalIdx
        /\ c.pool = ReleaseSet(b.pool, SlotsOf(b, m .. (b.ringSize - 1)))
    BY DEF DropLastOf, Buffer
  <1> HIDE DEF m
  <1> QED
    BY <1>3, <1>4, Truncated
=============================================================================
