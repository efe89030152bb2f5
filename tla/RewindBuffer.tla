---------------------------- MODULE RewindBuffer ----------------------------
(***************************************************************************)
(* The delta-compressed rewind ring of the macOS front end                 *)
(* (app/Sources/Kintsuki/RewindBuffer.swift): a fixed circular array of    *)
(* frame entries, each a keyframe (a whole save state held in a slot of    *)
(* SaveStatePool) or an XOR delta against the nearest older keyframe.      *)
(*                                                                         *)
(* The ring and its pool are one value `rb`, and every method of the class *)
(* is an operator from the value before the call to the value after it, so *)
(* that RewindSession can use the same operators inside its own handlers.  *)
(*                                                                         *)
(* A save state is a member of Frames; its bytes are not modelled, only    *)
(* which state they are and how many there are.  XOR is symbolic: a delta  *)
(* remembers the frame it encodes and the bytes it was XORed with, and     *)
(* decoding it gives the frame back exactly when it is XORed with those    *)
(* same bytes over the same length.                                        *)
(***************************************************************************)
EXTENDS Integers, FiniteSets, FiniteSetsExt

CONSTANTS
    Frames,            \* the save states that may be pushed
    Size,              \* Size[f]: the length in bytes of save state f
    Capacity,          \* RewindBuffer.capacity
    KeyframeInterval,  \* RewindBuffer.keyframeInterval
    InitialSlotBytes,  \* slot size of the pool at creation
    PackedSizes,       \* lengths a compressed delta may have
    MaxPushes          \* bound: pushes between two clears

ASSUME SizeAssumption == Size \in [Frames -> Nat \ {0}]
ASSUME CapacityAssumption == Capacity \in Nat \ {0}
ASSUME IntervalAssumption == KeyframeInterval \in Nat \ {0}
ASSUME SlotBytesAssumption == InitialSlotBytes \in Nat \ {0}
ASSUME PackedAssumption == PackedSizes \subseteq Nat
ASSUME BoundAssumption == MaxPushes \in Nat

VARIABLES
    rb,                \* ring array, its window, byte count and keyframe pool
    pushedSoFar,       \* pushes since creation or clear()
    forceKeyframeNext  \* one-shot override of the keyframe schedule

vars == <<rb, pushedSoFar, forceKeyframeNext>>

-----------------------------------------------------------------------------
(* Values *)

\* Freshly allocated (zeroed) slot storage.
Blank == "blank"
\* Bytes that are not the save state the entry was pushed with.
Garbage == "garbage"
\* What materialize returns when the keyframe of a delta is gone.
Lost == "lost"
\* An unused cell of the ring array.
Nil == [kind |-> "nil"]

ASSUME FramesAssumption == {Blank, Garbage, Lost} \cap Frames = {}

Contents == Frames \cup {Blank, Garbage}

Keyframe(slot, length) == [kind |-> "keyframe", slot |-> slot, length |-> length]
Delta(kf, f, base, n) ==
    [kind |-> "delta", keyframeLogical |-> kf, of |-> f, base |-> base, packed |-> n]

Keyframes == [kind : {"keyframe"}, slot : Nat, length : Nat]
Deltas == [kind : {"delta"}, keyframeLogical : Nat, of : Frames,
           base : Contents, packed : Nat]
FrameEntry == Keyframes \cup Deltas

IsKeyframe(e) == e.kind = "keyframe"
\* A delta against the keyframe with logical id kf, whatever it encodes.
IsDelta(e) == e.kind = "delta"

-----------------------------------------------------------------------------
(* SaveStatePool: `slots` buffers of `slotCapacity` bytes; buffers[s] is    *)
(* what slot s holds, `free` the free list (its order is immaterial),       *)
(* `alive` the slots owned by a handle.                                     *)

Pool(slots, slotCapacity, buffers, free, alive) ==
    [slots |-> slots, slotCapacity |-> slotCapacity, buffers |-> buffers,
     free |-> free, alive |-> alive]

NewPool(slotCount) ==
    Pool(slotCount, InitialSlotBytes, [s \in 0 .. slotCount - 1 |-> Blank],
         0 .. slotCount - 1, {})

\* Growing replaces the storage of every slot, live ones included.
EnsureSlotCapacity(p, n) ==
    IF n <= p.slotCapacity THEN p
    ELSE Pool(p.slots, n, [s \in 0 .. p.slots - 1 |-> Blank], p.free, p.alive)

\* The slot the next acquire hands out: a free one, or one past the last.
NextSlot(p) == IF p.free # {} THEN CHOOSE s \in p.free : TRUE ELSE p.slots

Fill(p, s, content) ==
    LET slots == IF s = p.slots THEN p.slots + 1 ELSE p.slots
    IN Pool(slots, p.slotCapacity,
            [t \in 0 .. slots - 1 |-> IF t = s THEN content ELSE p.buffers[t]],
            p.free \ {s}, p.alive \cup {s})

\* acquire(requested:producer:), the producer writing content.
Acquire(p, content, length) ==
    Fill(EnsureSlotCapacity(p, length), NextSlot(p), content)

\* release() of every handle in turn.
ReleaseSet(p, S) ==
    Pool(p.slots, p.slotCapacity, p.buffers, p.free \cup S, p.alive \ S)

-----------------------------------------------------------------------------
(* The ring *)

InitialSlots ==
    LET n == (Capacity + KeyframeInterval - 1) \div KeyframeInterval
    IN (IF n < 1 THEN 1 ELSE n) + 1

Buffer(ring, ringHead, ringSize, bytes, firstLogicalIdx, pool) ==
    [ring |-> ring, ringHead |-> ringHead, ringSize |-> ringSize, bytes |-> bytes,
     firstLogicalIdx |-> firstLogicalIdx, pool |-> pool]

NewBuffer ==
    Buffer([c \in 0 .. Capacity - 1 |-> Nil], 0, 0, 0, 0, NewPool(InitialSlots))

CellAt(head, i) == (head + i) % Capacity

SlotIndex(b, i) == CellAt(b.ringHead, i)

Entry(b, i) == b.ring[SlotIndex(b, i)]

SetEntry(b, i, e) == [b.ring EXCEPT ![SlotIndex(b, i)] = e]

EntryBytes(e) == IF IsKeyframe(e) THEN e.length ELSE e.packed

\* Ring position of the keyframe a delta names; negative once it is evicted.
KeyframeAt(b, e) == e.keyframeLogical - b.firstLogicalIdx

Resolves(b, e) ==
    /\ KeyframeAt(b, e) \in 0 .. b.ringSize - 1
    /\ IsKeyframe(Entry(b, KeyframeAt(b, e)))

Base(b, e) == Entry(b, KeyframeAt(b, e))

SameBytes(b, e) == b.pool.buffers[Base(b, e).slot] = e.base

\* withMaterialized(at:): the result has the length of the delta, and only
\* the bytes the keyframe also has are reconstructed.
WithMaterialized(b, i) ==
    LET e == Entry(b, i)
    IN CASE IsKeyframe(e) -> b.pool.buffers[e.slot]
         [] IsDelta(e) /\ ~Resolves(b, e) -> Lost
         [] IsDelta(e) /\ Resolves(b, e) ->
              IF SameBytes(b, e) /\ Size[e.of] <= Base(b, e).length
              THEN e.of ELSE Garbage

\* materialize(at:): the result has the length of the longer operand.
Materialize(b, i) ==
    LET e == Entry(b, i)
    IN CASE IsKeyframe(e) -> b.pool.buffers[e.slot]
         [] IsDelta(e) /\ ~Resolves(b, e) -> Lost
         [] IsDelta(e) /\ Resolves(b, e) ->
              IF SameBytes(b, e) /\ Size[e.of] = Base(b, e).length
              THEN e.of ELSE Garbage

MaterializedLength(b, e) ==
    IF Size[e.of] < Base(b, e).length THEN Base(b, e).length ELSE Size[e.of]

\* evictHead(), first half: when the oldest entry is a keyframe and the next
\* one a delta that can still be reconstructed, the latter becomes a keyframe
\* of its own.  The deltas behind it keep naming the keyframe that goes away.
Promotes(b) ==
    /\ IsKeyframe(Entry(b, 0))
    /\ b.ringSize > 1
    /\ IsDelta(Entry(b, 1))
    /\ Resolves(b, Entry(b, 1))

\* Fault: the keyframe about to go is copied instead of the decoded delta.
PromoteCopiesBase(b) ==
    LET e == Entry(b, 1)
        n == MaterializedLength(b, e)
    IN Buffer(SetEntry(b, 1, Keyframe(NextSlot(b.pool), n)),
              b.ringHead, b.ringSize, b.bytes - e.packed + n, b.firstLogicalIdx,
              Acquire(b.pool, b.pool.buffers[Base(b, e).slot], n))

\* Fault: the bytes of the replaced delta stay accounted for.
PromoteKeepsDeltaBytes(b) ==
    LET e == Entry(b, 1)
        n == MaterializedLength(b, e)
    IN Buffer(SetEntry(b, 1, Keyframe(NextSlot(b.pool), n)),
              b.ringHead, b.ringSize, b.bytes + n, b.firstLogicalIdx,
              Acquire(b.pool, Materialize(b, 1), n))

PromoteSecond(b) ==
    LET e == Entry(b, 1)
        n == MaterializedLength(b, e)
    IN Buffer(SetEntry(b, 1, Keyframe(NextSlot(b.pool), n)),
              b.ringHead, b.ringSize, b.bytes - e.packed + n, b.firstLogicalIdx,
              Acquire(b.pool, Materialize(b, 1), n))

\* Fault: the head advances without wrapping.
DropHeadNoWrap(b) ==
    LET e == Entry(b, 0)
    IN Buffer(SetEntry(b, 0, Nil), b.ringHead + 1, b.ringSize - 1,
              b.bytes - EntryBytes(e), b.firstLogicalIdx + 1,
              IF IsKeyframe(e) THEN ReleaseSet(b.pool, {e.slot}) ELSE b.pool)

\* Fault: the evicted keyframe keeps its slot.
DropHeadLeaks(b) ==
    Buffer(SetEntry(b, 0, Nil), CellAt(b.ringHead, 1), b.ringSize - 1,
           b.bytes - EntryBytes(Entry(b, 0)), b.firstLogicalIdx + 1, b.pool)

\* Fault: logical ids are not advanced.
DropHeadKeepsLogical(b) ==
    LET e == Entry(b, 0)
    IN Buffer(SetEntry(b, 0, Nil), CellAt(b.ringHead, 1), b.ringSize - 1,
              b.bytes - EntryBytes(e), b.firstLogicalIdx,
              IF IsKeyframe(e) THEN ReleaseSet(b.pool, {e.slot}) ELSE b.pool)

DropHead(b) ==
    LET e == Entry(b, 0)
    IN Buffer(SetEntry(b, 0, Nil),
              CellAt(b.ringHead, 1), b.ringSize - 1,
              b.bytes - EntryBytes(e), b.firstLogicalIdx + 1,
              IF IsKeyframe(e) THEN ReleaseSet(b.pool, {e.slot}) ELSE b.pool)

\* The promoted frame is acquired before the evicted keyframe is released.
EvictHead(b) == DropHead(IF Promotes(b) THEN PromoteSecond(b) ELSE b)

KeyframesBelow(b, i) == {j \in 0 .. i - 1 : IsKeyframe(Entry(b, j))}

\* Fault: the search runs from the oldest frame.
OldestKeyframeIndex(b, i) ==
    IF KeyframesBelow(b, i) = {} THEN -1
    ELSE CHOOSE j \in KeyframesBelow(b, i) : \A k \in KeyframesBelow(b, i) : k >= j

\* nearestKeyframeIndex(forFrameIndex:): -1 when there is none.
NearestKeyframeIndex(b, i) ==
    IF KeyframesBelow(b, i) = {} THEN -1
    ELSE CHOOSE j \in KeyframesBelow(b, i) : \A k \in KeyframesBelow(b, i) : k <= j

AppendKeyframe(b, f) ==
    Buffer(SetEntry(b, b.ringSize, Keyframe(NextSlot(b.pool), Size[f])),
           b.ringHead, b.ringSize + 1, b.bytes + Size[f], b.firstLogicalIdx,
           Acquire(b.pool, f, Size[f]))

\* Fault: the delta remembers an array index instead of a logical id.
AppendDeltaByIndex(b, f, n) ==
    LET j == NearestKeyframeIndex(b, b.ringSize)
    IN Buffer(SetEntry(b, b.ringSize,
                       Delta(j, f, b.pool.buffers[Entry(b, j).slot], n)),
              b.ringHead, b.ringSize + 1, b.bytes + n, b.firstLogicalIdx, b.pool)

AppendDelta(b, f, n) ==
    LET j == NearestKeyframeIndex(b, b.ringSize)
    IN Buffer(SetEntry(b, b.ringSize,
                       Delta(j + b.firstLogicalIdx, f,
                             b.pool.buffers[Entry(b, j).slot], n)),
              b.ringHead, b.ringSize + 1, b.bytes + n, b.firstLogicalIdx, b.pool)

\* Room is made before the new entry is written.
MadeRoom(b) == IF b.ringSize = Capacity THEN EvictHead(b) ELSE b

\* Whether a push is stored as a keyframe: scheduled or forced, or for want
\* of a keyframe to encode against.
StoredWhole(b, scheduled) ==
    scheduled \/ NearestKeyframeIndex(b, b.ringSize) = -1

Appended(b, scheduled, f, n) ==
    IF StoredWhole(b, scheduled) THEN AppendKeyframe(b, f) ELSE AppendDelta(b, f, n)

\* dropLast(n) and popLast(): the newest entries leave.
DropCount(b, n) == IF n < 0 THEN 0 ELSE IF n < b.ringSize THEN n ELSE b.ringSize

Cells(b, I) == {SlotIndex(b, i) : i \in I}

SlotsOf(b, I) == {Entry(b, i).slot : i \in {j \in I : IsKeyframe(Entry(b, j))}}

BytesOf(b, I) == MapThenSumSet(LAMBDA i : EntryBytes(Entry(b, i)), I)

Without(b, I) == [c \in 0 .. Capacity - 1 |-> IF c \in Cells(b, I) THEN Nil ELSE b.ring[c]]

\* Fault: the dropped cells keep their entries.
DropLastKeepsCells(b, n) ==
    LET k == DropCount(b, n)
        D == (b.ringSize - k) .. (b.ringSize - 1)
    IN Buffer(b.ring, b.ringHead, b.ringSize - k, b.bytes - BytesOf(b, D),
              b.firstLogicalIdx, ReleaseSet(b.pool, SlotsOf(b, D)))

\* Fault: the dropped keyframes keep their slots.
DropLastLeaks(b, n) ==
    LET k == DropCount(b, n)
        D == (b.ringSize - k) .. (b.ringSize - 1)
    IN Buffer(Without(b, D), b.ringHead, b.ringSize - k, b.bytes - BytesOf(b, D),
              b.firstLogicalIdx, b.pool)

DropLastOf(b, n) ==
    LET k == DropCount(b, n)
        D == (b.ringSize - k) .. (b.ringSize - 1)
    IN Buffer(Without(b, D), b.ringHead, b.ringSize - k, b.bytes - BytesOf(b, D),
              b.firstLogicalIdx, ReleaseSet(b.pool, SlotsOf(b, D)))

\* clear(): the pool keeps its slots and their size.
Cleared(b) ==
    LET D == 0 .. b.ringSize - 1
    IN Buffer(Without(b, D), 0, 0, 0, 0, ReleaseSet(b.pool, SlotsOf(b, D)))

-----------------------------------------------------------------------------
(* Crash dumps: serializedFrames() and init(restoring:) *)

\* The positions serializedFrames() writes: a delta whose keyframe has not
\* been written before it is an orphan and is skipped.
Serialized(b) ==
    {i \in 0 .. b.ringSize - 1 :
        \/ IsKeyframe(Entry(b, i))
        \/ Resolves(b, Entry(b, i)) /\ KeyframeAt(b, Entry(b, i)) < i}

Rank(S, i) == Cardinality({j \in S : j < i})

AtRank(S, k) == CHOOSE i \in S : Rank(S, i) = k

\* ringToOut: the place in the file of a ring position.
FileIndex(b, i) == Rank(Serialized(b), i)

\* Fault: a delta is written with the ring position of its keyframe.
FileIndexUnmapped(b, e) == KeyframeAt(b, e)

\* Deltas are re-keyed to the place of their keyframe in the file.
FileKeyframe(b, e) == FileIndex(b, KeyframeAt(b, e))

RestoredKeyframes(b) == {i \in Serialized(b) : IsKeyframe(Entry(b, i))}

\* Slots are taken in order from a new pool, and growing it blanks the slots
\* taken before.
RestoredContent(b, i) ==
    LET Grows(k) == /\ Entry(b, k).length > InitialSlotBytes
                    /\ \A j \in RestoredKeyframes(b) :
                          j < k => Entry(b, j).length < Entry(b, k).length
    IN IF \E k \in RestoredKeyframes(b) : k > i /\ Grows(k)
       THEN Blank ELSE b.pool.buffers[Entry(b, i).slot]

RestoredPool(b) ==
    LET K == RestoredKeyframes(b)
        n == Cardinality(K)
        slots == IF n < InitialSlots THEN InitialSlots ELSE n
    IN Pool(slots, Max({InitialSlotBytes} \cup {Entry(b, i).length : i \in K}),
            [s \in 0 .. slots - 1 |-> IF s < n THEN RestoredContent(b, AtRank(K, s)) ELSE Blank],
            n .. slots - 1, 0 .. n - 1)

RestoredEntry(b, i) ==
    LET e == Entry(b, i)
    IN IF IsKeyframe(e) THEN Keyframe(Rank(RestoredKeyframes(b), i), e.length)
       ELSE Delta(FileKeyframe(b, e), e.of, e.base, e.packed)

\* The ring a crash dump of b is loaded into.
Restored(b) ==
    LET S == Serialized(b)
        n == Cardinality(S)
    IN Buffer([c \in 0 .. Capacity - 1 |-> IF c < n THEN RestoredEntry(b, AtRank(S, c)) ELSE Nil],
              0, n, MapThenSumSet(LAMBDA i : EntryBytes(Entry(b, i)), S), 0, RestoredPool(b))

-----------------------------------------------------------------------------
(* The class as a state machine *)

Init ==
    /\ rb = NewBuffer
    /\ pushedSoFar = 0
    /\ forceKeyframeNext = FALSE

Scheduled == forceKeyframeNext \/ pushedSoFar % KeyframeInterval = 0

\* push(count:producer:) of save state f, whose delta compresses to n bytes.
PushFrame(f, n) ==
    /\ pushedSoFar < MaxPushes
    /\ rb' = Appended(MadeRoom(rb), Scheduled, f, n)
    /\ pushedSoFar' = pushedSoFar + 1
    /\ forceKeyframeNext' = FALSE

\* What the class asks of its caller: a save state that differs in length
\* from the keyframe it would be encoded against is announced by
\* forceKeyframeOnNextPush().
SizeCoherent(b, scheduled, f) ==
    ~StoredWhole(b, scheduled) =>
        Size[f] = Entry(b, NearestKeyframeIndex(b, b.ringSize)).length

Push(f, n) ==
    /\ SizeCoherent(MadeRoom(rb), Scheduled, f)
    /\ PushFrame(f, n)

DropLast(n) ==
    /\ rb' = DropLastOf(rb, n)
    /\ UNCHANGED <<pushedSoFar, forceKeyframeNext>>

ForceKeyframeOnNextPush ==
    /\ forceKeyframeNext' = TRUE
    /\ UNCHANGED <<rb, pushedSoFar>>

Clear ==
    /\ rb' = Cleared(rb)
    /\ pushedSoFar' = 0
    /\ forceKeyframeNext' = FALSE

Next ==
    \/ \E f \in Frames, n \in PackedSizes : Push(f, n)
    \/ \E n \in 1 .. Capacity : DropLast(n)
    \/ ForceKeyframeOnNextPush
    \/ Clear

Spec == Init /\ [][Next]_vars

-----------------------------------------------------------------------------
(* Properties *)

PoolType(p) ==
    /\ p.slots \in Nat
    /\ p.slotCapacity \in Nat
    /\ p.buffers \in [0 .. p.slots - 1 -> Contents]
    /\ p.free \subseteq 0 .. p.slots - 1
    /\ p.alive \subseteq 0 .. p.slots - 1

BufferType(b) ==
    /\ b.ring \in [0 .. Capacity - 1 -> FrameEntry \cup {Nil}]
    /\ b.ringHead \in 0 .. Capacity - 1
    /\ b.ringSize \in 0 .. Capacity
    /\ b.firstLogicalIdx \in Nat
    /\ PoolType(b.pool)

\* Type correctness of the ring, its indices and the pool.
TypeOK ==
    /\ BufferType(rb)
    /\ pushedSoFar \in 0 .. MaxPushes
    /\ forceKeyframeNext \in BOOLEAN

Window(b) == 0 .. b.ringSize - 1

DenseWindow(b) ==
    \A i \in 0 .. Capacity - 1 : Entry(b, i) # Nil <=> i < b.ringSize

\* The live window of the circular array is dense and nothing is left behind
\* in the cells outside it, so that `ring[slotIndex(at: i)]!` never traps and
\* a push never overwrites an entry whose slot was not released.
WindowDense == DenseWindow(rb)

OwnedSlots(b) ==
    /\ \A i, j \in Window(b) :
          /\ IsKeyframe(Entry(b, i))
          /\ IsKeyframe(Entry(b, j))
          /\ Entry(b, i).slot = Entry(b, j).slot
          => i = j
    /\ SlotsOf(b, Window(b)) = b.pool.alive
    /\ b.pool.free = (0 .. b.pool.slots - 1) \ b.pool.alive

\* Every live pool slot is owned by exactly one retained keyframe, every
\* retained keyframe owns a live slot and the free list is the rest: the
\* preconditions of release() and bytes(for:) hold and no slot leaks.
SlotOwnership == OwnedSlots(rb)

OwnBase(b) ==
    \A i \in Window(b) :
        LET e == Entry(b, i) IN
        IsDelta(e) /\ KeyframeAt(b, e) >= 0 =>
            /\ KeyframeAt(b, e) \in 0 .. i - 1
            /\ IsKeyframe(Base(b, e))
            /\ SameBytes(b, e)
            /\ Size[e.of] = Base(b, e).length

\* Logical ids are reused after dropLast and clear.  Even so a retained delta
\* either names a keyframe that was evicted, or the very keyframe it was
\* XORed with, still holding the same bytes and still older than the delta.
DeltaNamesItsBase == OwnBase(rb)

ReadsBack(b) ==
    \A i \in Window(b) :
        /\ WithMaterialized(b, i) \in Frames \cup {Lost}
        /\ Materialize(b, i) = WithMaterialized(b, i)

\* A frame that can be reconstructed at all is, by either of the two decoders,
\* a save state that was pushed and never other bytes.
ReadsBackPushedState == ReadsBack(rb)

\* Only the oldest frames can be lost: those with no keyframe before them in
\* the ring but, after a promotion, the head itself.
LostFramesAreOldest ==
    \A i \in Window(rb) :
        WithMaterialized(rb, i) = Lost => KeyframesBelow(rb, i) \subseteq {0}

\* byteSize is the sum of the lengths of the retained entries.
ByteAccounting == rb.bytes = BytesOf(rb, Window(rb))

PoolLimit == IF InitialSlots > Capacity THEN InitialSlots ELSE Capacity

\* The pool never grows past one slot per ring entry: a promotion, which takes
\* its slot before the evicted keyframe gives its own back, does so on behalf
\* of an entry that had none.
PoolBounded == rb.pool.slots <= PoolLimit

Readable(b) == {i \in Window(b) : WithMaterialized(b, i) # Lost}

\* A crash dump loaded back holds exactly the frames that could be read when
\* it was written, in order, in a ring that is itself sound: skipping orphans
\* shifts the frames and every delta still finds its own keyframe.
DumpKeepsReadableFrames ==
    LET r == Restored(rb)
        S == Readable(rb)
    IN /\ r.ringSize = Cardinality(S)
       /\ \A i \in S : WithMaterialized(r, Rank(S, i)) = WithMaterialized(rb, i)
       /\ DenseWindow(r) /\ OwnedSlots(r) /\ OwnBase(r)

\* Whatever eviction did to older frames, the frame just pushed can be read.
NewestIsReadable ==
    [][pushedSoFar' = pushedSoFar + 1
         => WithMaterialized(rb', rb'.ringSize - 1) \in Frames]_vars

\* The save state an entry stands for.
Original(b, i) ==
    LET e == Entry(b, i)
    IN IF IsKeyframe(e) THEN b.pool.buffers[e.slot] ELSE e.of

History(b) == [i \in 1 .. b.ringSize |-> Original(b, i - 1)]

Promise == INSTANCE RewindWindow WITH window <- History(rb)

\* Under all of the circular indexing, promotion and slot recycling, the ring
\* is the sequence of the last Capacity save states pushed: push drops the
\* oldest when full, dropLast the newest, and nothing else changes them.
ImplementsWindow == Promise!Spec

\* RewindBuffer.swift says of eviction: "if a keyframe is dropped, the
\* dependent deltas it owned are dropped with it (we never expose dangling
\* diffs)", so that every retained frame can be reconstructed.
NoDanglingDiffs == \A i \in Window(rb) : WithMaterialized(rb, i) # Lost

\* SaveStatePool.ensureSlotCapacity says of growing: "Slots themselves remain
\* valid; we just resize their backing storage", so that no retained keyframe
\* reads as freshly zeroed storage.
SlotsRemainValid ==
    \A i \in Window(rb) :
        IsKeyframe(Entry(rb, i)) => rb.pool.buffers[Entry(rb, i).slot] # Blank
=============================================================================
