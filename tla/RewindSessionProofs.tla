------------------------- MODULE RewindSessionProofs -------------------------
(***************************************************************************)
(* Proofs about RewindSession for every capacity, interval, set of shapes  *)
(* and number of user actions.  The ring is the one RewindBufferProofs     *)
(* proves about, with the shapes for save states.                          *)
(***************************************************************************)
EXTENDS RewindSession, TLAPS

Ring == INSTANCE RewindBufferProofs WITH Frames <- Shapes, PackedSizes <- {1}

-----------------------------------------------------------------------------
(* The ring of the session *)

\* The shapes and the sizes are as the ring asks of its save states.
LEMMA RingConstants ==
    /\ Size \in [Shapes -> Nat \ {0}]
    /\ Capacity \in Nat \ {0} /\ KeyframeInterval \in Nat \ {0}
    /\ InitialSlotBytes \in Nat \ {0} /\ MaxPushes \in Nat
    /\ {1} \subseteq Nat
    /\ {Ring!Blank, Ring!Garbage, Ring!Lost} \cap Shapes = {}
  BY RingAssumption, ShapesAreStates
     DEF Buffer!Blank, Buffer!Garbage, Buffer!Lost, Ring!Blank, Ring!Garbage, Ring!Lost


\* clear() of the session's ring is that of the ring proved about.
LEMMA SameClear ==
    ASSUME Buffer!Clear PROVE Ring!Clear
  BY DEF
      Buffer!Clear, Ring!Clear, Buffer!Cleared, Ring!Cleared, Buffer!Buffer, Ring!Buffer,
      Buffer!Without, Ring!Without, Buffer!Cells, Ring!Cells, Buffer!SlotIndex,
      Ring!SlotIndex, Buffer!CellAt, Ring!CellAt, Buffer!Nil, Ring!Nil, Buffer!ReleaseSet,
      Ring!ReleaseSet, Buffer!Pool, Ring!Pool, Buffer!SlotsOf, Ring!SlotsOf, Buffer!Entry,
      Ring!Entry, Buffer!IsKeyframe, Ring!IsKeyframe

\* So is its creation.
LEMMA SameInit ==
    ASSUME Buffer!Init PROVE Ring!Init
  BY DEF
      Buffer!Init, Ring!Init, Buffer!NewBuffer, Ring!NewBuffer, Buffer!Buffer, Ring!Buffer,
      Buffer!Nil, Ring!Nil, Buffer!NewPool, Ring!NewPool, Buffer!Pool, Ring!Pool,
      Buffer!Blank, Ring!Blank, Buffer!InitialSlots, Ring!InitialSlots

\* So is the room a push makes.
LEMMA SameRoom ==
    ASSUME NEW b PROVE Buffer!MadeRoom(b) = Ring!MadeRoom(b)
  BY DEF
      Buffer!MadeRoom, Ring!MadeRoom, Buffer!EvictHead, Ring!EvictHead, Buffer!DropHead,
      Ring!DropHead, Buffer!Entry, Ring!Entry, Buffer!SlotIndex, Ring!SlotIndex,
      Buffer!CellAt, Ring!CellAt, Buffer!Buffer, Ring!Buffer, Buffer!SetEntry,
      Ring!SetEntry, Buffer!Nil, Ring!Nil, Buffer!EntryBytes, Ring!EntryBytes,
      Buffer!IsKeyframe, Ring!IsKeyframe, Buffer!ReleaseSet, Ring!ReleaseSet, Buffer!Pool,
      Ring!Pool, Buffer!Promotes, Ring!Promotes, Buffer!IsDelta, Ring!IsDelta,
      Buffer!Resolves, Ring!Resolves, Buffer!KeyframeAt, Ring!KeyframeAt,
      Buffer!PromoteSecond, Ring!PromoteSecond, Buffer!MaterializedLength,
      Ring!MaterializedLength, Buffer!Base, Ring!Base, Buffer!Keyframe, Ring!Keyframe,
      Buffer!NextSlot, Ring!NextSlot, Buffer!Acquire, Ring!Acquire, Buffer!Fill, Ring!Fill,
      Buffer!EnsureSlotCapacity, Ring!EnsureSlotCapacity, Buffer!Blank, Ring!Blank,
      Buffer!Materialize, Ring!Materialize, Buffer!Lost, Ring!Lost, Buffer!SameBytes,
      Ring!SameBytes, Buffer!Garbage, Ring!Garbage

\* So is what a push stores.
LEMMA SameAppended ==
    ASSUME NEW b, NEW scheduled, NEW f, NEW n
    PROVE  Buffer!Appended(b, scheduled, f, n) = Ring!Appended(b, scheduled, f, n)
  BY DEF
      Buffer!Appended, Ring!Appended, Buffer!StoredWhole, Ring!StoredWhole,
      Buffer!NearestKeyframeIndex, Ring!NearestKeyframeIndex, Buffer!KeyframesBelow,
      Ring!KeyframesBelow, Buffer!IsKeyframe, Ring!IsKeyframe, Buffer!Entry, Ring!Entry,
      Buffer!SlotIndex, Ring!SlotIndex, Buffer!CellAt, Ring!CellAt, Buffer!AppendKeyframe,
      Ring!AppendKeyframe, Buffer!Buffer, Ring!Buffer, Buffer!SetEntry, Ring!SetEntry,
      Buffer!Keyframe, Ring!Keyframe, Buffer!NextSlot, Ring!NextSlot, Buffer!Acquire,
      Ring!Acquire, Buffer!Fill, Ring!Fill, Buffer!Pool, Ring!Pool,
      Buffer!EnsureSlotCapacity, Ring!EnsureSlotCapacity, Buffer!Blank, Ring!Blank,
      Buffer!AppendDelta, Ring!AppendDelta, Buffer!Delta, Ring!Delta

\* So is dropLast().
LEMMA SameDrop ==
    ASSUME NEW b, NEW n PROVE Buffer!DropLastOf(b, n) = Ring!DropLastOf(b, n)
  BY DEF
      Buffer!DropLastOf, Ring!DropLastOf, Buffer!DropCount, Ring!DropCount, Buffer!Buffer,
      Ring!Buffer, Buffer!Without, Ring!Without, Buffer!Cells, Ring!Cells,
      Buffer!SlotIndex, Ring!SlotIndex, Buffer!CellAt, Ring!CellAt, Buffer!Nil, Ring!Nil,
      Buffer!BytesOf, Ring!BytesOf, Buffer!EntryBytes, Ring!EntryBytes, Buffer!IsKeyframe,
      Ring!IsKeyframe, Buffer!Entry, Ring!Entry, Buffer!ReleaseSet, Ring!ReleaseSet,
      Buffer!Pool, Ring!Pool, Buffer!SlotsOf, Ring!SlotsOf, Buffer!MapThenSumSet,
      Ring!MapThenSumSet, Buffer!MapThenFoldSet, Ring!MapThenFoldSet

\* So is the ring a crash dump is loaded into.
LEMMA SameRestored ==
    ASSUME NEW b PROVE Buffer!Restored(b) = Ring!Restored(b)
  BY DEF
      Buffer!Restored, Ring!Restored, Buffer!Serialized, Ring!Serialized,
      Buffer!IsKeyframe, Ring!IsKeyframe, Buffer!Entry, Ring!Entry, Buffer!SlotIndex,
      Ring!SlotIndex, Buffer!CellAt, Ring!CellAt, Buffer!Resolves, Ring!Resolves,
      Buffer!KeyframeAt, Ring!KeyframeAt, Buffer!Buffer, Ring!Buffer, Buffer!RestoredEntry,
      Ring!RestoredEntry, Buffer!Keyframe, Ring!Keyframe, Buffer!Rank, Ring!Rank,
      Buffer!RestoredKeyframes, Ring!RestoredKeyframes, Buffer!Delta, Ring!Delta,
      Buffer!FileKeyframe, Ring!FileKeyframe, Buffer!FileIndex, Ring!FileIndex,
      Buffer!AtRank, Ring!AtRank, Buffer!Nil, Ring!Nil, Buffer!EntryBytes, Ring!EntryBytes,
      Buffer!RestoredPool, Ring!RestoredPool, Buffer!InitialSlots, Ring!InitialSlots,
      Buffer!Pool, Ring!Pool, Buffer!RestoredContent, Ring!RestoredContent, Buffer!Blank,
      Ring!Blank, Buffer!MapThenSumSet, Ring!MapThenSumSet, Buffer!MapThenFoldSet,
      Ring!MapThenFoldSet, Buffer!Max, Ring!Max, Buffer!Cardinality, Ring!Cardinality

\* What TypeOK says of the ring is that it is sound.
LEMMA SameSound ==
    ASSUME TRUE
    PROVE  Buffer!TypeOK /\ Buffer!WindowDense /\ Buffer!SlotOwnership <=> Ring!SoundInv
  BY DEF
      Ring!SoundInv, Ring!Sound,
      Buffer!TypeOK, Ring!TypeOK, Buffer!BufferType, Ring!BufferType, Buffer!FrameEntry,
      Ring!FrameEntry, Buffer!Keyframes, Ring!Keyframes, Buffer!Deltas, Ring!Deltas,
      Buffer!Contents, Ring!Contents, Buffer!Blank, Ring!Blank, Buffer!Garbage,
      Ring!Garbage, Buffer!Nil, Ring!Nil, Buffer!PoolType, Ring!PoolType,
      Buffer!WindowDense, Ring!WindowDense, Buffer!DenseWindow, Ring!DenseWindow,
      Buffer!Entry, Ring!Entry, Buffer!SlotIndex, Ring!SlotIndex, Buffer!CellAt,
      Ring!CellAt, Buffer!SlotOwnership, Ring!SlotOwnership, Buffer!OwnedSlots,
      Ring!OwnedSlots, Buffer!Window, Ring!Window, Buffer!IsKeyframe, Ring!IsKeyframe,
      Buffer!SlotsOf, Ring!SlotsOf

\* A ring whose deltas name their keyframes is one RingDecodes accepts.
LEMMA SameBase ==
    ASSUME Ring!OwnBase(rb) PROVE Buffer!DeltaNamesItsBase
  BY DEF
      Buffer!DeltaNamesItsBase, Ring!DeltaNamesItsBase, Buffer!OwnBase, Ring!OwnBase,
      Buffer!Window, Ring!Window, Buffer!Entry, Ring!Entry, Buffer!SlotIndex,
      Ring!SlotIndex, Buffer!CellAt, Ring!CellAt, Buffer!IsDelta, Ring!IsDelta,
      Buffer!KeyframeAt, Ring!KeyframeAt, Buffer!IsKeyframe, Ring!IsKeyframe, Buffer!Base,
      Ring!Base, Buffer!SameBytes, Ring!SameBytes

\* A capture that is not announced matches the newest keyframe.
LEMMA SameMatches ==
    ASSUME NEW b, NEW m, NEW force
    PROVE  ~Mismatched(b, m, force) <=> force \/ Ring!Matches(b, Size[m.shape])
  BY DEF
      Mismatched, Ring!Matches,
      Buffer!NearestKeyframeIndex, Ring!NearestKeyframeIndex, Buffer!KeyframesBelow,
      Ring!KeyframesBelow, Buffer!IsKeyframe, Ring!IsKeyframe, Buffer!Entry, Ring!Entry,
      Buffer!SlotIndex, Ring!SlotIndex, Buffer!CellAt, Ring!CellAt

-----------------------------------------------------------------------------
(* Machines and save states *)

Machines == [shape : Shapes, at : Places]

\* There is a shape of either implementation for every size of SRAM.
LEMMA ShapeExists ==
    ASSUME NEW a \in BOOLEAN, NEW t \in Shapes
    PROVE  ShapeOf(a, Sram[t]) \in Shapes
  BY ShapesAssumption DEF ShapeOf

\* Loading a state leaves a machine, whether or not the state is refused.
LEMMA LoadedType ==
    ASSUME NEW m \in Machines, NEW want \in BOOLEAN, NEW s \in Shapes, NEW current \in BOOLEAN,
           NEW r, r = Loaded(m, want, s, current)
    PROVE  r.ok \in BOOLEAN /\ r.wanted \in BOOLEAN /\ r.machine \in Machines
  <1>1. Accurate[s] \in BOOLEAN /\ m.shape \in Shapes
    BY ShapesAssumption DEF Machines
  <1>2. ShapeOf(Accurate[s], Sram[m.shape]) \in Shapes
    BY <1>1, ShapeExists
  <1> DEFINE swap == Accurate[s] # want
             m1 == IF swap THEN [shape |-> ShapeOf(Accurate[s], Sram[m.shape]), at |-> "free"]
                           ELSE m
             ok == /\ Fits(Sram[s], Sram[m.shape])
                   /\ current
                   /\ Accurate[s] = Accurate[m1.shape]
  <1>3. m1 \in Machines
    BY <1>2 DEF Machines, Places
  <1>4. ok \in BOOLEAN
    OBVIOUS
  <1>5. [m1 EXCEPT !.at = "free"] \in Machines
    BY <1>3 DEF Machines, Places
  <1>6. r = [ok |-> ok, wanted |-> IF swap THEN Accurate[s] ELSE want,
             machine |-> IF ok THEN [m1 EXCEPT !.at = "free"] ELSE m1]
    BY DEF Loaded
  <1> HIDE DEF m1, ok
  <1> QED
    BY <1>1, <1>3, <1>4, <1>5, <1>6

\* What the newest frame of a ring decodes to is a save state, if anything.
LEMMA DecodedShapes == ASSUME NEW b PROVE Decoded(b) \subseteq Shapes
  BY DEF Decoded

\* The machine moved to another place is a machine of the same shape.
LEMMA Moved ==
    ASSUME NEW m \in Machines, NEW where \in Places
    PROVE  /\ [m EXCEPT !.at = where] \in Machines
           /\ [m EXCEPT !.at = where].shape = m.shape
  BY DEF Machines

-----------------------------------------------------------------------------
(* The types of the session *)

MachineType ==
    /\ machine \in Machines
    /\ wanted \in BOOLEAN /\ ppuAccurate \in BOOLEAN
    /\ disk \in {Sram[s] : s \in Shapes}

FlagsType ==
    /\ running \in BOOLEAN /\ runTimer \in BOOLEAN /\ queued \in BOOLEAN
    /\ pending \in BOOLEAN /\ recovery \in BOOLEAN /\ mixed \in BOOLEAN

HoldType ==
    /\ hold.holding = hold.timer /\ hold.holding = hold.work
    /\ hold.stride \in Strides /\ (~hold.holding => hold.stride = 1)

SessionType ==
    /\ MachineType
    /\ FlagsType
    /\ burst \in [left : 0 .. MaxCatchup, captures : BOOLEAN]
    /\ HoldType
    /\ acts \in 0 .. UserBound

\* The session starts with its types.
LEMMA SessionStarts == ASSUME Init PROVE SessionType
  <1>1. MachineType
    BY ShapesAssumption DEF Init, MachineType, Machines, Places
  <1>2. HoldType
    BY StridesAssumption DEF Init, HoldType, NotHolding
  <1>3. burst \in [left : 0 .. MaxCatchup, captures : BOOLEAN] /\ acts \in 0 .. UserBound
    BY BoundsAssumption DEF Init
  <1> QED
    BY <1>1, <1>2, <1>3 DEF Init, FlagsType, SessionType

\* A machine just booted, of the size of SRAM the ROM file declares.
LEMMA BootedType ==
    ASSUME MachineType, NEW accurate \in BOOLEAN
    PROVE  Booted(accurate) \in Machines
  <1>1. PICK t \in Shapes : disk = Sram[t]
    BY DEF MachineType
  <1> QED
    BY <1>1, ShapeExists DEF Booted, Machines, Places

\* HoldType, with the hold as it was or over.
LEMMA HoldKept == ASSUME HoldType, UNCHANGED hold PROVE HoldType'
  BY DEF HoldType

\* The hold is over.
LEMMA HoldOver == ASSUME hold' = NotHolding PROVE HoldType'
  BY StridesAssumption DEF HoldType, NotHolding

\* Every handler of the run loop and of the rewind hold keeps the types.
LEMMA LoopTyped == ASSUME SessionType, Background PROVE SessionType'
  <1>1. ASSUME TimerFires \/ TickPasses PROVE SessionType'
    BY <1>1, HoldKept DEF TimerFires, TickPasses, SessionType, MachineType, FlagsType, mode, loop
  <1>2. ASSUME NEW n \in 1 .. MaxCatchup, NEW captures \in BOOLEAN, Tick(n, captures)
        PROVE  SessionType'
    <2>1. burst' \in [left : 0 .. MaxCatchup, captures : BOOLEAN]
      BY <1>2, BoundsAssumption DEF Tick
    <2> QED
      BY <1>2, <2>1, HoldKept DEF Tick, SessionType, MachineType, FlagsType, mode, loop
  <1>3. ASSUME NEW where \in Places, Frame(where) PROVE SessionType'
    <2> DEFINE halt == pending \/ where = "bp"
               stopped == machine.at = "stp"
               pauses == ~stopped /\ halt /\ running
    <2>1. machine \in Machines /\ At(where) \in Machines
      BY Moved DEF At, SessionType, MachineType
    <2>2. machine' \in Machines
      <3>1. \/ machine' = [At(where) EXCEPT !.at = IF @ = "bp" THEN "free" ELSE @]
            \/ machine' = At(where)
        BY <1>3 DEF Frame
      <3> QED
        BY <2>1, <3>1 DEF Machines, Places
    <2>3. MachineType'
      BY <1>3, <2>2 DEF Frame, SessionType, MachineType, mode
    <2>4. FlagsType'
      <3>1. /\ pending' = halt /\ running' = (running /\ ~pauses)
            /\ runTimer' = (runTimer /\ ~pauses)
            /\ UNCHANGED <<queued, recovery, mixed>>
        BY <1>3 DEF Frame
      <3> HIDE DEF halt, pauses
      <3>2. halt \in BOOLEAN
        BY DEF halt
      <3> QED
        BY <3>1, <3>2 DEF SessionType, FlagsType
    <2>5. burst' \in [left : 0 .. MaxCatchup, captures : BOOLEAN]
      <3>1. burst' = [burst EXCEPT !.left = IF stopped \/ pauses THEN 0 ELSE @ - 1]
            /\ burst.left # 0
        BY <1>3 DEF Frame, Free
      <3>2. burst \in [left : 0 .. MaxCatchup, captures : BOOLEAN]
        BY DEF SessionType
      <3> HIDE DEF stopped, pauses
      <3> QED
        BY <3>1, <3>2, BoundsAssumption
    <2>6. UNCHANGED <<hold, acts>>
      BY <1>3 DEF Frame
    <2> QED
      BY <2>3, <2>4, <2>5, <2>6, HoldKept DEF SessionType
  <1>4. CASE RewindTick
    <2>1. /\ UNCHANGED <<ppuAccurate, disk, running, runTimer, queued, burst, recovery, hold, acts>>
          /\ mixed' = (mixed \/ Mismatched(rb', machine', forceKeyframeNext'))
      BY <1>4 DEF RewindTick, Mixes, loop
    <2>2. machine' \in Machines /\ wanted' \in BOOLEAN /\ pending' \in BOOLEAN
      <3>1. CASE UNCHANGED <<machine, wanted, pending>>
        BY <3>1 DEF SessionType, MachineType, FlagsType
      <3>2. CASE \E s \in Decoded(Stepped(rb)), where \in Places :
                   LET r == Loaded(machine, wanted, s, TRUE)
                   IN  /\ machine' = IF r.ok THEN [r.machine EXCEPT !.at = where] ELSE r.machine
                       /\ wanted' = r.wanted
                       /\ pending' = (pending \/ (r.ok /\ where = "bp"))
        <4>1. PICK s \in Shapes, where \in Places :
                   LET r == Loaded(machine, wanted, s, TRUE)
                   IN  /\ machine' = IF r.ok THEN [r.machine EXCEPT !.at = where] ELSE r.machine
                       /\ wanted' = r.wanted
                       /\ pending' = (pending \/ (r.ok /\ where = "bp"))
          BY <3>2, DecodedShapes
        <4> DEFINE r == Loaded(machine, wanted, s, TRUE)
        <4>2. r.ok \in BOOLEAN /\ r.wanted \in BOOLEAN /\ r.machine \in Machines
          BY LoadedType DEF SessionType, MachineType
        <4> HIDE DEF r
        <4>3. [r.machine EXCEPT !.at = where] \in Machines
          BY <4>2, Moved
        <4> QED
          BY <4>1, <4>2, <4>3 DEF r
      <3> QED
        BY <1>4, <3>1, <3>2 DEF RewindTick
    <2>3. MachineType'
      BY <2>1, <2>2 DEF SessionType, MachineType
    <2>4. FlagsType'
      BY <2>1, <2>2 DEF SessionType, FlagsType
    <2> QED
      BY <2>1, <2>3, <2>4, HoldKept DEF SessionType
  <1> QED
    BY <1>1, <1>2, <1>3, <1>4 DEF Background

\* So does the trailing work of a hold.
LEMMA HoldEndTyped == ASSUME SessionType, NEW where \in Places, HoldEnd(where) PROVE SessionType'
  <1>1. machine' \in Machines
    BY Moved DEF HoldEnd, At, SessionType, MachineType
  <1>2. MachineType'
    BY <1>1 DEF HoldEnd, SessionType, MachineType, mode
  <1>3. FlagsType'
    BY DEF HoldEnd, SessionType, FlagsType, loop
  <1>4. HoldType'
    BY HoldOver DEF HoldEnd
  <1> QED
    BY <1>2, <1>3, <1>4 DEF HoldEnd, SessionType

\* So do the user's actions that load nothing.
LEMMA PlainTyped ==
    ASSUME SessionType,
           \/ \E n \in Strides : RewindBy(n)
           \/ TogglePause \/ RunToCursor \/ SaveState \/ LoadRomFails
           \/ \E where \in Places, pauses \in BOOLEAN : Step(where, pauses)
           \/ \E restarts \in BOOLEAN : Reset(restarts)
           \/ \E s \in Shapes : Rebuild(Sram[s])
    PROVE  SessionType'
  <1>1. ASSUME UserActs PROVE acts' \in 0 .. UserBound
    BY <1>1, BoundsAssumption DEF UserActs, SessionType
  <1>2. machine \in Machines /\ "free" \in Places
    BY DEF SessionType, MachineType, Places
  <1>3. ASSUME NEW n \in Strides, RewindBy(n) PROVE SessionType'
    <2>1. HoldType'
      BY <1>3 DEF RewindBy, Held, HoldType
    <2> QED
      BY <1>3, <2>1 DEF RewindBy, SessionType, MachineType, FlagsType, mode, loop
  <1>4. CASE TogglePause
    <2>1. FlagsType'
      BY <1>4 DEF TogglePause, SessionType, FlagsType
    <2> QED
      BY <1>1, <1>4, <2>1, HoldKept DEF TogglePause, SessionType, MachineType, mode
  <1>5. CASE RunToCursor
    <2>1. FlagsType'
      BY <1>5 DEF RunToCursor, SessionType, FlagsType
    <2> QED
      BY <1>1, <1>5, <2>1, HoldKept DEF RunToCursor, SessionType, MachineType, mode
  <1>6. CASE SaveState
    <2>1. machine' \in Machines
      BY <1>2, <1>6, Moved DEF SaveState, Synchronized, At
    <2> QED
      BY <1>1, <1>6, <2>1, HoldKept DEF SaveState, SessionType, MachineType, FlagsType, mode, loop
  <1>7. CASE LoadRomFails
    <2>1. HoldType'
      BY <1>7, HoldOver DEF LoadRomFails
    <2>2. FlagsType'
      BY <1>7 DEF LoadRomFails, Runs, SessionType, FlagsType
    <2> QED
      BY <1>1, <1>7, <2>1, <2>2 DEF LoadRomFails, SessionType, MachineType, mode
  <1>8. ASSUME NEW where \in Places, NEW pauses \in BOOLEAN, Step(where, pauses) PROVE SessionType'
    <2>1. machine' \in Machines
      BY <1>2, <1>8, Moved DEF Step, At
    <2>2. FlagsType'
      BY <1>8 DEF Step, Runs, SessionType, FlagsType, loop
    <2> QED
      BY <1>1, <1>8, <2>1, <2>2, HoldKept DEF Step, SessionType, MachineType, mode
  <1>9. ASSUME NEW restarts \in BOOLEAN, Reset(restarts) PROVE SessionType'
    <2>1. machine' \in Machines
      BY <1>2, <1>9, Moved DEF Reset, At
    <2>2. FlagsType'
      BY <1>9 DEF Reset, ClearRewindBuffer, SessionType, FlagsType
    <2> QED
      BY <1>1, <1>9, <2>1, <2>2, HoldKept DEF Reset, SessionType, MachineType, mode
  <1>10. ASSUME NEW s \in Shapes, Rebuild(Sram[s]) PROVE SessionType'
    BY <1>1, <1>10, HoldKept DEF Rebuild, SessionType, MachineType, FlagsType, mode, loop
  <1> QED
    BY <1>3, <1>4, <1>5, <1>6, <1>7, <1>8, <1>9, <1>10

\* So do the user's actions that load a save state, a ROM or a dump.
LEMMA LoadsTyped ==
    ASSUME SessionType,
           \/ \E s \in Shapes, current \in BOOLEAN :
                 \/ LoadState(s, current)
                 \/ \E where \in Places : ImportState(s, current, where)
           \/ LoadRom
           \/ \E toggles, loads \in BOOLEAN : Reload(toggles, loads)
           \/ \E where \in Places : LoadCrashDump(where)
    PROVE  SessionType'
  <1>1. ASSUME UserActs PROVE acts' \in 0 .. UserBound
    BY <1>1, BoundsAssumption DEF UserActs, SessionType
  <1>2. /\ machine \in Machines /\ wanted \in BOOLEAN /\ ppuAccurate \in BOOLEAN
        /\ MachineType /\ FlagsType
    BY DEF SessionType, MachineType
  <1>3. ASSUME NEW s \in Shapes, NEW current \in BOOLEAN, LoadState(s, current) PROVE SessionType'
    <2> DEFINE r == Loaded(machine, wanted, s, current)
    <2>1. r.ok \in BOOLEAN /\ r.wanted \in BOOLEAN /\ r.machine \in Machines
      BY <1>2, LoadedType
    <2>2. /\ machine' = r.machine /\ wanted' = r.wanted
          /\ ppuAccurate' = IF r.ok THEN r.wanted ELSE ppuAccurate
          /\ UNCHANGED <<disk, running, runTimer, queued, burst, pending, recovery, hold>>
          /\ mixed' = (mixed \/ Mismatched(rb', machine', forceKeyframeNext')) /\ UserActs
      BY <1>3 DEF LoadState, Mixes, loop
    <2> HIDE DEF r
    <2>3. MachineType'
      BY <1>2, <2>1, <2>2 DEF MachineType
    <2>4. FlagsType'
      BY <1>2, <2>2 DEF FlagsType
    <2> QED
      BY <1>1, <2>2, <2>3, <2>4, HoldKept DEF SessionType
  <1>4. ASSUME NEW s \in Shapes, NEW current \in BOOLEAN, NEW where \in Places,
               ImportState(s, current, where)
        PROVE  SessionType'
    <2> DEFINE r == Loaded(machine, wanted, s, current)
    <2>1. r.ok \in BOOLEAN /\ r.wanted \in BOOLEAN /\ r.machine \in Machines
      BY <1>2, LoadedType
    <2>2. /\ UserActs /\ wanted' = r.wanted
          /\ \/ /\ machine' = [r.machine EXCEPT !.at = where]
                /\ pending' = (pending \/ where = "bp")
                /\ ppuAccurate' = r.wanted
                /\ mixed' = FALSE
             \/ /\ machine' = r.machine
                /\ UNCHANGED <<ppuAccurate, pending>>
                /\ mixed' = (mixed \/ Mismatched(rb', machine', forceKeyframeNext'))
          /\ UNCHANGED <<disk, running, runTimer, queued, burst, recovery, hold>>
      BY <1>4 DEF ImportState, ClearRewindBuffer, Mixes, loop
    <2> HIDE DEF r
    <2>3. [r.machine EXCEPT !.at = where] \in Machines
      BY <2>1, Moved
    <2>4. MachineType'
      BY <1>2, <2>1, <2>2, <2>3 DEF MachineType
    <2>5. FlagsType'
      BY <1>2, <2>2 DEF FlagsType
    <2> QED
      BY <1>1, <2>2, <2>4, <2>5, HoldKept DEF SessionType
  <1>5. CASE LoadRom
    <2>1. PICK r \in Restorable : /\ machine' = r.machine /\ wanted' = r.wanted
                                  /\ ppuAccurate' = IF r.ok THEN r.wanted ELSE ppuAccurate
      BY <1>5 DEF LoadRom
    <2>2. /\ UserActs /\ hold' = NotHolding /\ pending' = FALSE
          /\ running' = TRUE /\ runTimer' = TRUE /\ mixed' = FALSE /\ recovery' = FALSE
          /\ UNCHANGED <<disk, queued, burst>>
      BY <1>5 DEF LoadRom, Runs, ClearRewindBuffer
    <2>3. Booted(wanted) \in Machines
      BY <1>2, BootedType
    <2>4. r.ok \in BOOLEAN /\ r.wanted \in BOOLEAN /\ r.machine \in Machines
      <3>1. CASE r = [ok |-> FALSE, wanted |-> wanted, machine |-> Booted(wanted)]
        BY <1>2, <2>3, <3>1
      <3>2. CASE \E s \in Shapes : r = Loaded(Booted(wanted), wanted, s, TRUE)
        BY <1>2, <2>3, <3>2, LoadedType
      <3> QED
        BY <3>1, <3>2 DEF Restorable
    <2>5. MachineType'
      BY <1>2, <2>1, <2>2, <2>4 DEF MachineType
    <2>6. FlagsType'
      BY <1>2, <2>2 DEF FlagsType
    <2> QED
      BY <1>1, <2>2, <2>5, <2>6, HoldOver DEF SessionType
  <1>6. ASSUME NEW toggles \in BOOLEAN, NEW loads \in BOOLEAN, Reload(toggles, loads)
        PROVE  SessionType'
    <2>1. PICK want \in BOOLEAN, toggle \in BOOLEAN : HotReload(want, toggle, loads)
      BY <1>2, <1>6 DEF Reload
    <2>2. UserActs /\ UNCHANGED <<disk, queued, burst, pending, recovery, hold>>
      BY <1>6 DEF Reload
    <2> DEFINE r == Loaded(Booted(want), want, machine.shape, TRUE)
    <2>3. machine.shape \in Shapes /\ "free" \in Places
      BY <1>2 DEF Machines, Places
    <2>4. Booted(want) \in Machines
      BY <1>2, BootedType
    <2>5. r.ok \in BOOLEAN /\ r.wanted \in BOOLEAN /\ r.machine \in Machines
      BY <2>3, <2>4, LoadedType
    <2>6. Synchronized \in Machines
      BY <1>2, <2>3, Moved DEF Synchronized, At
    <2>7. \/ /\ machine' = r.machine /\ wanted' = r.wanted
             /\ ppuAccurate' = IF r.ok THEN r.wanted ELSE toggle
             /\ running' = TRUE /\ runTimer' = TRUE /\ mixed' = mixed
          \/ /\ machine' = Synchronized /\ wanted' = want /\ ppuAccurate' = toggle
             /\ running' = running /\ runTimer' = FALSE /\ mixed' = mixed
      BY <2>1 DEF HotReload, Runs
    <2> HIDE DEF r
    <2>8. MachineType'
      BY <1>2, <2>2, <2>5, <2>6, <2>7 DEF MachineType
    <2>9. FlagsType'
      BY <1>2, <2>2, <2>7 DEF FlagsType
    <2> QED
      BY <1>1, <2>2, <2>8, <2>9, HoldKept DEF SessionType
  <1>7. ASSUME NEW where \in Places, LoadCrashDump(where) PROVE SessionType'
    <2> DEFINE b == Buffer!Restored(rb)
    <2>1. /\ UserActs /\ recovery' = TRUE /\ running' = FALSE /\ runTimer' = FALSE
          /\ UNCHANGED <<disk, queued, burst, hold>>
          /\ mixed' = (mixed \/ Mismatched(rb', machine', forceKeyframeNext'))
      BY <1>7 DEF LoadCrashDump, Runs, Mixes
    <2>2. /\ machine' \in Machines /\ wanted' \in BOOLEAN /\ ppuAccurate' \in BOOLEAN
          /\ pending' \in BOOLEAN
      <3>1. CASE UNCHANGED <<machine, mode, pending>>
        BY <1>2, <3>1 DEF mode, FlagsType
      <3>2. CASE \E s \in Decoded(b) :
                   LET r == Loaded(machine, wanted, s, TRUE) IN
                   /\ machine' = IF r.ok THEN [r.machine EXCEPT !.at = where] ELSE r.machine
                   /\ wanted' = r.wanted
                   /\ ppuAccurate' = IF r.ok THEN r.wanted ELSE ppuAccurate
                   /\ pending' = (pending \/ (r.ok /\ where = "bp"))
        <4>1. PICK s \in Shapes :
                   LET r == Loaded(machine, wanted, s, TRUE) IN
                   /\ machine' = IF r.ok THEN [r.machine EXCEPT !.at = where] ELSE r.machine
                   /\ wanted' = r.wanted
                   /\ ppuAccurate' = IF r.ok THEN r.wanted ELSE ppuAccurate
                   /\ pending' = (pending \/ (r.ok /\ where = "bp"))
          BY <3>2, DecodedShapes
        <4> DEFINE r == Loaded(machine, wanted, s, TRUE)
        <4>2. r.ok \in BOOLEAN /\ r.wanted \in BOOLEAN /\ r.machine \in Machines
          BY <1>2, LoadedType
        <4> HIDE DEF r
        <4>3. [r.machine EXCEPT !.at = where] \in Machines
          BY <4>2, Moved
        <4> QED
          BY <1>2, <4>1, <4>2, <4>3 DEF r
      <3> QED
        BY <1>7, <3>1, <3>2 DEF LoadCrashDump
    <2>3. MachineType'
      BY <1>2, <2>1, <2>2 DEF MachineType
    <2>4. FlagsType'
      BY <1>2, <2>1, <2>2 DEF FlagsType
    <2> QED
      BY <1>1, <2>1, <2>3, <2>4, HoldKept DEF SessionType
  <1> QED
    BY <1>3, <1>4, <1>5, <1>6, <1>7

\* Every step keeps the types of the session.
LEMMA SessionTyped == ASSUME SessionType, [Next]_vars PROVE SessionType'
  <1>1. CASE UNCHANGED vars
    BY <1>1, HoldKept DEF vars, mode, loop, SessionType, MachineType, FlagsType
  <1>2. CASE Background
    BY <1>2, LoopTyped
  <1>3. ASSUME NEW where \in Places, HoldEnd(where) PROVE SessionType'
    BY <1>3, HoldEndTyped
  <1>4. CASE User
    BY <1>4, PlainTyped, LoadsTyped DEF User
  <1> QED
    BY <1>1, <1>2, <1>3, <1>4 DEF Next

-----------------------------------------------------------------------------
(* What a step does to the ring *)

\* The ring and the shape of the machine stay, or the change is accounted for.
Kept ==
    /\ UNCHANGED ring
    /\ (machine'.shape = machine.shape /\ mixed' = mixed) \/ Mixes

\* A frame is captured.
Captured ==
    /\ Buffer!PushFrame(machine.shape, 1)
    /\ machine'.shape = machine.shape /\ mixed' = mixed

\* A hot reload announces a change of length.
Announced == Buffer!ForceKeyframeOnNextPush /\ mixed' = mixed

\* A rewind tick takes frames back.
TakenBack ==
    /\ rb' = Buffer!DropLastOf(Stepped(rb), 1)
    /\ UNCHANGED <<pushedSoFar, forceKeyframeNext>>
    /\ Mixes

\* A crash dump is loaded.
Redumped ==
    /\ rb' = Buffer!Restored(rb)
    /\ pushedSoFar' = rb'.ringSize
    /\ forceKeyframeNext' = FALSE
    /\ Mixes

\* Every step treats the ring in one of six ways.
LEMMA RingStep ==
    ASSUME SessionType, [Next]_vars
    PROVE  Kept \/ Captured \/ ClearRewindBuffer \/ Announced \/ TakenBack \/ Redumped
  <1>1. machine \in Machines /\ "free" \in Places /\ wanted \in BOOLEAN /\ MachineType
    BY DEF SessionType, MachineType, Places
  <1>2. CASE UNCHANGED vars
    BY <1>2 DEF vars, ring, Kept
  <1>3. CASE Background
    <2>1. CASE TimerFires \/ TickPasses
      BY <2>1 DEF TimerFires, TickPasses, Kept
    <2>2. ASSUME NEW n \in 1 .. MaxCatchup, NEW captures \in BOOLEAN, Tick(n, captures)
          PROVE  Kept
      BY <2>2 DEF Tick, Kept
    <2>3. ASSUME NEW where \in Places, Frame(where) PROVE Kept \/ Captured
      <3>1. At(where) \in Machines /\ At(where).shape = machine.shape
        BY <1>1, Moved DEF At
      <3>2. [At(where) EXCEPT !.at = IF @ = "bp" THEN "free" ELSE @].shape = machine.shape
        BY <3>1 DEF Machines
      <3>3. mixed' = mixed
        BY <2>3 DEF Frame
      <3>4. \/ /\ Buffer!PushFrame(machine.shape, 1)
               /\ machine' = [At(where) EXCEPT !.at = IF @ = "bp" THEN "free" ELSE @]
            \/ machine' = At(where) /\ UNCHANGED ring
        BY <2>3 DEF Frame
      <3> QED
        BY <3>1, <3>2, <3>3, <3>4 DEF Kept, Captured
    <2>4. CASE RewindTick
      BY <2>4 DEF RewindTick, TakenBack
    <2> QED
      BY <1>3, <2>1, <2>2, <2>3, <2>4 DEF Background
  <1>4. ASSUME NEW where \in Places, HoldEnd(where) PROVE Kept
    BY <1>1, <1>4, Moved DEF HoldEnd, At, Kept
  <1>5. CASE User
    <2>1. CASE \/ \E n \in Strides : RewindBy(n)
               \/ TogglePause \/ RunToCursor \/ LoadRomFails
               \/ \E s \in Shapes : Rebuild(Sram[s])
      BY <2>1 DEF RewindBy, TogglePause, RunToCursor, LoadRomFails, Rebuild, Kept
    <2>2. CASE SaveState
      BY <1>1, <2>2, Moved DEF SaveState, Synchronized, At, Kept
    <2>3. ASSUME NEW where \in Places, NEW pauses \in BOOLEAN, Step(where, pauses) PROVE Kept
      BY <1>1, <2>3, Moved DEF Step, At, Kept
    <2>4. ASSUME NEW restarts \in BOOLEAN, Reset(restarts) PROVE ClearRewindBuffer
      BY <2>4 DEF Reset
    <2>5. ASSUME NEW s \in Shapes, NEW current \in BOOLEAN, LoadState(s, current) PROVE Kept
      BY <2>5 DEF LoadState, Kept
    <2>6. ASSUME NEW s \in Shapes, NEW current \in BOOLEAN, NEW where \in Places,
                 ImportState(s, current, where)
          PROVE  Kept \/ ClearRewindBuffer
      BY <2>6 DEF ImportState, Kept
    <2>7. CASE LoadRom
      BY <2>7 DEF LoadRom
    <2>8. ASSUME NEW toggles \in BOOLEAN, NEW loads \in BOOLEAN, Reload(toggles, loads)
          PROVE  Kept \/ Announced
      <3>1. PICK want, toggle : HotReload(want, toggle, loads)
        BY <2>8 DEF Reload
      <3>2. Synchronized.shape = machine.shape
        BY <1>1, Moved DEF Synchronized, At
      <3> QED
        BY <3>1, <3>2 DEF HotReload, ReloadForces, Kept, Announced
    <2>9. ASSUME NEW where \in Places, LoadCrashDump(where) PROVE Redumped
      BY <2>9 DEF LoadCrashDump, Redumped
    <2> QED
      BY <1>5, <2>1, <2>2, <2>3, <2>4, <2>5, <2>6, <2>7, <2>8, <2>9 DEF User
  <1> QED
    BY <1>2, <1>3, <1>4, <1>5 DEF Next

\* Stepping back drops some number of frames, none at all included.
LEMMA SteppedBack ==
    ASSUME NEW b, b.ringSize \in Nat, HoldType
    PROVE  Stepped(b) = b \/ \E n \in Nat : Stepped(b) = Ring!DropLastOf(b, n)
  <1> DEFINE n == IF hold.stride + 1 < b.ringSize THEN hold.stride + 1 ELSE b.ringSize
  <1>1. hold.stride \in Nat
    BY StridesAssumption DEF HoldType
  <1>2. n \in Nat
    BY <1>1
  <1>3. Stepped(b) = IF n = 0 THEN b ELSE Buffer!DropLastOf(b, n - 1)
    BY DEF Stepped
  <1> HIDE DEF n
  <1>4. CASE n = 0
    BY <1>3, <1>4
  <1>5. CASE n # 0
    <2>1. n - 1 \in Nat
      BY <1>2, <1>5
    <2>2. Stepped(b) = Ring!DropLastOf(b, n - 1)
      BY <1>3, <1>5, SameDrop
    <2> QED
      BY <2>1, <2>2
  <1> QED
    BY <1>4, <1>5

\* The frames a rewind tick takes back leave with two calls of dropLast().
LEMMA TakenBackSound ==
    ASSUME NEW b, Ring!Sound(b), HoldType, NEW c, c = Buffer!DropLastOf(Stepped(b), 1)
    PROVE  /\ Ring!Sound(c) /\ c.ringSize \in 0 .. b.ringSize
           /\ Ring!Fitting(b) => Ring!Fitting(c)
           /\ Ring!RingInv(b) => Ring!RingInv(c)
  <1>1. b.ringSize \in 0 .. Capacity
    BY DEF Ring!Sound, Ring!BufferType
  <1>2. b.ringSize \in Nat
    BY <1>1, RingConstants
  <1> DEFINE d == Stepped(b)
  <1>3. d = b \/ \E n \in Nat : d = Ring!DropLastOf(b, n)
    BY <1>2, SteppedBack
  <1>4. c = Ring!DropLastOf(d, 1)
    BY SameDrop
  <1> HIDE DEF d
  <1>5. /\ Ring!Sound(d) /\ d.ringSize \in 0 .. b.ringSize
        /\ Ring!Fitting(b) => Ring!Fitting(d)
        /\ Ring!RingInv(b) => Ring!RingInv(d)
    <2>1. CASE d = b
      BY <1>2, <2>1
    <2>2. ASSUME NEW n \in Nat, d = Ring!DropLastOf(b, n)
          PROVE  /\ Ring!Sound(d) /\ d.ringSize \in 0 .. b.ringSize
                 /\ Ring!Fitting(b) => Ring!Fitting(d)
                 /\ Ring!RingInv(b) => Ring!RingInv(d)
      <3>1. /\ Ring!Sound(d) /\ d.ringSize \in 0 .. b.ringSize
            /\ Ring!Fitting(b) => Ring!Fitting(d)
        BY <2>2, Ring!SoundDropped, RingConstants
      <3>2. Ring!RingInv(b) => Ring!RingInv(d)
        BY <2>2, Ring!RingDropped, RingConstants
      <3> QED
        BY <3>1, <3>2
    <2> QED
      BY <1>3, <2>1, <2>2
  <1>6. /\ Ring!Sound(c) /\ c.ringSize \in 0 .. d.ringSize
        /\ Ring!Fitting(d) => Ring!Fitting(c)
    BY <1>4, <1>5, Ring!SoundDropped, RingConstants
  <1>7. Ring!RingInv(d) => Ring!RingInv(c)
    BY <1>4, Ring!RingDropped, RingConstants
  <1>8. c.ringSize \in 0 .. b.ringSize
    BY <1>2, <1>5, <1>6
  <1> QED
    BY <1>5, <1>6, <1>7, <1>8

-----------------------------------------------------------------------------
(* The ring stays sound *)

\* The ring holds no more frames than were captured since it was cleared, so
\* that a dump, which counts the frames it restores, stays under MaxPushes.
SessionInv ==
    /\ SessionType
    /\ Ring!SoundInv
    /\ rb.ringSize <= pushedSoFar

\* A capture makes room and appends the machine's save state.
LEMMA CaptureSteps ==
    ASSUME Captured, SessionInv
    PROVE  /\ pushedSoFar < MaxPushes
           /\ machine.shape \in Shapes
           /\ rb' = Ring!Appended(Ring!MadeRoom(rb), Buffer!Scheduled, machine.shape, 1)
           /\ pushedSoFar' = pushedSoFar + 1 /\ forceKeyframeNext' = FALSE
           /\ machine'.shape = machine.shape /\ mixed' = mixed
  <1>1. machine.shape \in Shapes
    BY DEF SessionInv, SessionType, MachineType, Machines
  <1>2. Buffer!Appended(Buffer!MadeRoom(rb), Buffer!Scheduled, machine.shape, 1)
          = Ring!Appended(Ring!MadeRoom(rb), Buffer!Scheduled, machine.shape, 1)
    BY SameRoom, SameAppended
  <1> QED
    BY <1>1, <1>2 DEF Captured, Buffer!PushFrame

\* No handler breaks the ring or its pool.
LEMMA RingKept ==
    ASSUME SessionInv, [Next]_vars
    PROVE  Ring!SoundInv' /\ rb'.ringSize <= pushedSoFar'
  <1>1. /\ Ring!Sound(rb) /\ pushedSoFar \in 0 .. MaxPushes /\ forceKeyframeNext \in BOOLEAN
        /\ rb.ringSize <= pushedSoFar /\ HoldType /\ MaxPushes \in Nat
    BY RingConstants DEF SessionInv, SessionType, Ring!SoundInv
  <1>2. rb.ringSize \in Nat
    <2>1. rb.ringSize \in 0 .. Capacity
      BY <1>1 DEF Ring!Sound, Ring!BufferType
    <2> QED
      BY <2>1, RingConstants
  <1>3. CASE Kept \/ Announced
    <2>1. rb' = rb /\ pushedSoFar' = pushedSoFar /\ forceKeyframeNext' \in BOOLEAN
      BY <1>1, <1>3 DEF Kept, Announced, ring, Buffer!ForceKeyframeOnNextPush
    <2> QED
      BY <1>1, <2>1 DEF Ring!SoundInv
  <1>4. CASE Captured
    <2> DEFINE r == Ring!MadeRoom(rb)
    <2>1. /\ pushedSoFar < MaxPushes /\ machine.shape \in Shapes
          /\ rb' = Ring!Appended(r, Buffer!Scheduled, machine.shape, 1)
          /\ pushedSoFar' = pushedSoFar + 1 /\ forceKeyframeNext' = FALSE
      BY <1>4, CaptureSteps
    <2> DEFINE s == Buffer!Scheduled
    <2>2. Ring!Sound(r) /\ r.ringSize \in 0 .. Capacity - 1 /\ r.ringSize <= rb.ringSize
      BY <1>1, Ring!SoundRoom, RingConstants
    <2>3. rb' = Ring!Appended(r, s, machine.shape, 1) /\ 1 \in {1}
      BY <2>1
    <2> HIDE DEF r, s
    <2>4. Ring!Sound(rb') /\ rb'.ringSize = r.ringSize + 1
      BY <2>1, <2>2, <2>3, Ring!SoundAppended, RingConstants
    <2>5. pushedSoFar' \in 0 .. MaxPushes
      <3>1. pushedSoFar \in 0 .. MaxPushes /\ MaxPushes \in Nat
        BY <1>1
      <3>2. pushedSoFar < MaxPushes /\ pushedSoFar' = pushedSoFar + 1
        BY <2>1
      <3> QED
        BY <3>1, <3>2
    <2>6. rb'.ringSize <= pushedSoFar'
      <3>1. r.ringSize \in Int /\ pushedSoFar \in Int /\ rb.ringSize \in Int
        BY <1>1, <1>2, <2>2, RingConstants
      <3> QED
        BY <1>1, <2>1, <2>2, <2>4, <3>1
    <2> QED
      BY <2>1, <2>4, <2>5, <2>6 DEF Ring!SoundInv
  <1>5. CASE ClearRewindBuffer
    <2>1. Ring!Clear /\ Ring!SoundInv
      BY <1>5, SameClear DEF ClearRewindBuffer, SessionInv
    <2>2. Ring!SoundInv' /\ rb'.ringSize = 0
      BY <2>1, Ring!SoundClear, RingConstants
    <2>3. pushedSoFar' = 0
      BY <2>1 DEF Ring!Clear
    <2> QED
      BY <2>2, <2>3
  <1>6. CASE TakenBack
    <2>1. /\ rb' = Buffer!DropLastOf(Stepped(rb), 1)
          /\ pushedSoFar' = pushedSoFar /\ forceKeyframeNext' = forceKeyframeNext
      BY <1>6 DEF TakenBack
    <2>2. Ring!Sound(rb') /\ rb'.ringSize \in 0 .. rb.ringSize
      BY <1>1, <2>1, TakenBackSound
    <2> QED
      BY <1>1, <1>2, <2>1, <2>2 DEF Ring!SoundInv
  <1>7. CASE Redumped
    <2>1. rb' = Ring!Restored(rb) /\ pushedSoFar' = rb'.ringSize /\ forceKeyframeNext' = FALSE
      BY <1>7, SameRestored DEF Redumped
    <2>2. Ring!Sound(rb') /\ rb'.ringSize \in 0 .. rb.ringSize
      BY <1>1, <2>1, Ring!RestoredSound, RingConstants
    <2>3. pushedSoFar' \in 0 .. MaxPushes /\ rb'.ringSize <= pushedSoFar'
      <3>1. pushedSoFar \in Int /\ rb.ringSize \in Int /\ rb'.ringSize \in Int
        BY <1>1, <1>2, <2>2
      <3> QED
        BY <1>1, <2>1, <2>2, <3>1
    <2> QED
      BY <2>1, <2>2, <2>3 DEF Ring!SoundInv
  <1> QED
    BY <1>3, <1>4, <1>5, <1>6, <1>7, RingStep DEF SessionInv

\* The session starts with an empty ring.
LEMMA RingStarts == ASSUME Init PROVE Ring!SoundInv /\ Ring!IInv /\ rb.ringSize = 0
  <1>1. Ring!Init
    BY SameInit DEF Init
  <1>2. Ring!IInv
    BY <1>1, Ring!Initially, RingConstants
  <1>3. rb.ringSize = 0
    BY <1>1 DEF Ring!Init, Ring!NewBuffer, Ring!Buffer
  <1> QED
    BY <1>2, <1>3 DEF Ring!IInv, Ring!RingInv, Ring!RingCore, Ring!SoundInv

\* The session keeps its types and the ring stays sound.
LEMMA SessionInvariant == Spec => []SessionInv
  <1>1. Init => SessionInv
    <2> SUFFICES ASSUME Init PROVE SessionInv
      OBVIOUS
    <2>1. pushedSoFar = 0 /\ rb.ringSize = 0 /\ Ring!SoundInv
      BY RingStarts DEF Init, Buffer!Init
    <2> QED
      BY <2>1, SessionStarts DEF SessionInv
  <1>2. SessionInv /\ [Next]_vars => SessionInv'
    BY RingKept, SessionTyped DEF SessionInv
  <1> QED
    BY <1>1, <1>2, PTL DEF Spec

\* TypeOK, for every ring, policy, set of shapes and number of user actions:
\* no handler of the front end leaves the ring, the machine or the rewind hold
\* in a state that the code does not expect.
THEOREM TypeCorrect == Spec => []TypeOK
  <1>1. SessionInv => TypeOK
    <2> SUFFICES ASSUME SessionInv PROVE TypeOK
      OBVIOUS
    <2>1. Buffer!TypeOK /\ Buffer!WindowDense /\ Buffer!SlotOwnership
      BY SameSound DEF SessionInv
    <2>2. /\ machine \in [shape : Shapes, at : Places]
          /\ {wanted, ppuAccurate, running, runTimer, queued, pending, recovery, mixed}
                \subseteq BOOLEAN
      BY DEF SessionInv, SessionType, MachineType, FlagsType, Machines
    <2> QED
      BY <2>1, <2>2 DEF SessionInv, SessionType, MachineType, HoldType, TypeOK
  <1> QED
    BY <1>1, SessionInvariant, PTL

-----------------------------------------------------------------------------
(* What the frames of the ring decode to *)

\* What holds of the ring.  Unless it is mixed, every delta has the length of
\* the keyframe it was encoded against and the next capture is announced or
\* matches the newest keyframe.
DecodeInv ==
    /\ Ring!Fitting(rb)
    /\ ~mixed => Ring!RingInv(rb) /\ ~Mismatched(rb, machine, forceKeyframeNext)

\* A step that asks whether the ring is mixed now answers for the future.
LEMMA MixesAnswers ==
    ASSUME Mixes, ~mixed' PROVE ~mixed /\ ~Mismatched(rb', machine', forceKeyframeNext')
  BY DEF Mixes

\* Whether the next capture matches does not depend on more of the machine
\* than its shape.
LEMMA OnlyShape ==
    ASSUME NEW b, NEW m, NEW k, m.shape = k.shape, NEW force
    PROVE  Mismatched(b, m, force) <=> Mismatched(b, k, force)
  BY DEF Mismatched

\* Nothing but the changes the front end leaves unannounced mixes the ring.
LEMMA DecodeKept ==
    ASSUME SessionInv, Ring!Fits, DecodeInv, [Next]_vars PROVE DecodeInv'
  <1>1. Ring!Sound(rb) /\ HoldType /\ Ring!Fitting(rb)
    BY DEF SessionInv, SessionType, Ring!SoundInv, DecodeInv
  <1>2. CASE Kept
    <2>1. /\ rb' = rb /\ forceKeyframeNext' = forceKeyframeNext
          /\ (machine'.shape = machine.shape /\ mixed' = mixed) \/ Mixes
      BY <1>2 DEF Kept, ring
    <2>2. ASSUME ~mixed'
          PROVE  ~mixed /\ ~Mismatched(rb', machine', forceKeyframeNext')
      <3>1. CASE machine'.shape = machine.shape /\ mixed' = mixed
        BY <2>1, <2>2, <3>1, OnlyShape DEF DecodeInv
      <3>2. CASE Mixes
        BY <2>2, <3>2, MixesAnswers
      <3> QED
        BY <2>1, <3>1, <3>2
    <2> QED
      BY <2>1, <2>2 DEF DecodeInv
  <1>3. CASE Captured
    <2>1. /\ machine.shape \in Shapes
          /\ rb' = Ring!Appended(Ring!MadeRoom(rb), Buffer!Scheduled, machine.shape, 1)
          /\ machine'.shape = machine.shape /\ mixed' = mixed
      BY <1>3, CaptureSteps
    <2> DEFINE r == Ring!MadeRoom(rb)
               s == Buffer!Scheduled
               f == machine.shape
    <2>2. /\ Ring!Sound(r) /\ r.ringSize \in 0 .. Capacity - 1 /\ Ring!Fitting(r)
      BY <1>1, Ring!SoundRoom, RingConstants
    <2>3. rb' = Ring!Appended(r, s, f, 1) /\ 1 \in {1} /\ f \in Shapes
      BY <2>1
    <2>4. ASSUME ~mixed'
          PROVE  Ring!RingInv(rb') /\ ~Mismatched(rb', machine', forceKeyframeNext')
      <3>1. Ring!RingInv(rb) /\ ~Mismatched(rb, machine, forceKeyframeNext)
        BY <2>1, <2>4 DEF DecodeInv
      <3>2. Ring!RingInv(r)
        BY <3>1, Ring!RoomMade, RingConstants
      <3>3. forceKeyframeNext \/ Ring!Matches(rb, Size[f])
        BY <3>1, SameMatches
      <3>4. s \/ Ring!Matches(r, Size[f])
        <4>1. CASE forceKeyframeNext
          BY <4>1 DEF Buffer!Scheduled
        <4>2. CASE Ring!Matches(rb, Size[f])
          BY <3>1, <4>2, Ring!RoomMatches, RingConstants
        <4> QED
          BY <3>3, <4>1, <4>2
      <3> HIDE DEF r, s, f
      <3>5. Ring!RingInv(rb') /\ Ring!Matches(rb', Size[f])
        BY <2>2, <2>3, <3>2, <3>4, Ring!AppendedMatches, RingConstants
      <3>6. Size[machine'.shape] = Size[f]
        BY <2>1 DEF f
      <3> QED
        BY <3>5, <3>6, SameMatches
    <2> HIDE DEF r, s, f
    <2>5. Ring!Fitting(rb')
      BY <2>2, <2>3, Ring!SoundAppended, RingConstants
    <2> QED
      BY <2>4, <2>5 DEF DecodeInv
  <1>4. CASE ClearRewindBuffer
    <2>1. Ring!Clear /\ Ring!SoundInv /\ rb.pool.slotCapacity = InitialSlotBytes
      BY <1>4, SameClear DEF ClearRewindBuffer, SessionInv, DecodeInv, Ring!Fitting
    <2>2. Ring!RingInv(rb') /\ rb'.ringSize = 0
      BY <2>1, Ring!SoundClear, RingConstants
    <2>3. Ring!Fitting(rb')
      BY <2>2, Ring!RingFitting, RingConstants
    <2>4. Ring!Matches(rb', Size[machine'.shape])
      BY <2>2, Ring!EmptyMatches, RingConstants
    <2>5. ~Mismatched(rb', machine', forceKeyframeNext')
      BY <2>4, SameMatches
    <2> QED
      BY <2>2, <2>3, <2>5 DEF DecodeInv
  <1>5. CASE Announced
    <2>1. rb' = rb /\ forceKeyframeNext' = TRUE /\ mixed' = mixed
      BY <1>5 DEF Announced, Buffer!ForceKeyframeOnNextPush
    <2>2. ~Mismatched(rb', machine', forceKeyframeNext')
      BY <2>1, SameMatches
    <2> QED
      BY <2>1, <2>2 DEF DecodeInv
  <1>6. CASE TakenBack
    <2>1. rb' = Buffer!DropLastOf(Stepped(rb), 1) /\ Mixes
      BY <1>6 DEF TakenBack
    <2>2. Ring!Fitting(rb') /\ (Ring!RingInv(rb) => Ring!RingInv(rb'))
      BY <1>1, <2>1, TakenBackSound
    <2> QED
      BY <2>1, <2>2, MixesAnswers DEF DecodeInv
  <1>7. CASE Redumped
    <2>1. rb' = Ring!Restored(rb) /\ Mixes
      BY <1>7, SameRestored DEF Redumped
    <2>2. Ring!Fitting(rb')
      BY <1>1, <2>1, Ring!RestoredSound, RingConstants
    <2>3. Ring!RingInv(rb) => Ring!RingInv(rb')
      BY <2>1, Ring!RestoredRing, RingConstants
    <2> QED
      BY <2>1, <2>2, <2>3, MixesAnswers DEF DecodeInv
  <1> QED
    BY <1>2, <1>3, <1>4, <1>5, <1>6, <1>7, RingStep DEF SessionInv

\* RingDecodes, as long as no save state outgrows a slot of the pool: of
\* everything that changes the machine's shape, only the two that the property
\* exempts can leave a delta of another length than its keyframe's.
THEOREM DecodesTheorem == ASSUME Ring!Fits PROVE Spec => []RingDecodes
  <1>1. Init => DecodeInv
    <2> SUFFICES ASSUME Init PROVE DecodeInv
      OBVIOUS
    <2>1. Ring!RingInv(rb) /\ rb.ringSize = 0
      BY RingStarts DEF Ring!IInv
    <2>2. Ring!Fitting(rb)
      BY <2>1, Ring!RingFitting, RingConstants
    <2>3. Ring!Matches(rb, Size[machine.shape])
      BY <2>1, Ring!EmptyMatches, RingConstants
    <2>4. ~Mismatched(rb, machine, forceKeyframeNext)
      BY <2>3, SameMatches
    <2> QED
      BY <2>1, <2>2, <2>4 DEF DecodeInv
  <1>2. SessionInv /\ DecodeInv /\ [Next]_vars => DecodeInv'
    BY DecodeKept
  <1>3. DecodeInv => RingDecodes
    <2> SUFFICES ASSUME DecodeInv, ~mixed PROVE Buffer!DeltaNamesItsBase
      BY DEF RingDecodes
    <2>1. Ring!OwnBase(rb)
      BY DEF DecodeInv, Ring!RingInv, Ring!RingCore
    <2> QED
      BY <2>1, SameBase
  <1> QED
    BY <1>1, <1>2, <1>3, SessionInvariant, PTL DEF Spec

-----------------------------------------------------------------------------
(* Halting breakpoints *)

\* A tick is only ever in progress while the loop runs.
BurstInv == ~Free => running

\* The frames of a tick do not outlast the loop they run in.
LEMMA BurstKept ==
    ASSUME SessionType, BurstInv, [Next]_vars PROVE BurstInv'
  <1>1. CASE ~Free
    <2>1. CASE UNCHANGED vars
      BY <2>1 DEF vars, loop, BurstInv, Free
    <2>2. CASE TimerFires
      BY <2>2 DEF TimerFires, loop, BurstInv, Free
    <2>3. ASSUME NEW where \in Places, Frame(where) PROVE BurstInv'
      <3> DEFINE halt == pending \/ where = "bp"
                 stopped == machine.at = "stp"
                 pauses == ~stopped /\ halt /\ running
      <3>1. /\ running' = (running /\ ~pauses)
            /\ burst' = [burst EXCEPT !.left = IF stopped \/ pauses THEN 0 ELSE @ - 1]
        BY <2>3 DEF Frame
      <3> HIDE DEF halt, stopped, pauses
      <3>2. burst'.left = IF stopped \/ pauses THEN 0 ELSE burst.left - 1
        BY <3>1 DEF SessionType
      <3> QED
        BY <1>1, <3>1, <3>2 DEF BurstInv, Free
    <2> QED
      BY <1>1, <2>1, <2>2, <2>3
      DEF Next, Background, User, TickPasses, Tick, RewindTick, HoldEnd, RewindBy, TogglePause,
          RunToCursor, SaveState, LoadRomFails, Step, Reset, LoadState, ImportState, LoadRom,
          Reload, Rebuild, LoadCrashDump, UserActs
  <1>2. CASE Free
    <2>1. ASSUME NEW n \in 1 .. MaxCatchup, NEW captures \in BOOLEAN, Tick(n, captures)
          PROVE  BurstInv'
      BY <2>1 DEF Tick, loop, BurstInv
    <2>2. ASSUME UNCHANGED burst PROVE BurstInv'
      BY <1>2, <2>2 DEF BurstInv, Free
    <2> QED
      BY <1>2, <2>1, <2>2
      DEF Next, Background, User, vars, TimerFires, TickPasses, Frame, RewindTick, HoldEnd,
          RewindBy, TogglePause, RunToCursor, SaveState, LoadRomFails, Step, Reset, LoadState,
          ImportState, LoadRom, Reload, Rebuild, LoadCrashDump
  <1> QED
    BY <1>1, <1>2

\* What BreakpointHolds says of one step.
Halts ==
    /\ ~Free /\ ~pending /\ pending' =>
          machine'.at = "bp" /\ ~running' /\ ~runTimer' /\ burst'.left = 0 /\ rb' = rb
    /\ machine.at = "bp" /\ ~running /\ ~hold.holding /\ acts' = acts =>
          machine' = machine

\* A frame that hits a breakpoint while the loop runs.
LEMMA FrameHalts ==
    ASSUME SessionType, BurstInv, NEW where \in Places, Frame(where) PROVE Halts
  <1> DEFINE halt == pending \/ where = "bp"
             stopped == machine.at = "stp"
             pauses == ~stopped /\ halt /\ running
  <1>1. /\ ~Free /\ (stopped => where = "stp")
        /\ pending' = halt
        /\ running' = (running /\ ~pauses) /\ runTimer' = (runTimer /\ ~pauses)
        /\ burst' = [burst EXCEPT !.left = IF stopped \/ pauses THEN 0 ELSE @ - 1]
        /\ halt => machine' = At(where) /\ UNCHANGED ring
    BY DEF Frame, Captures
  <1>2. running
    BY <1>1 DEF BurstInv
  <1>3. ASSUME ~pending, pending'
        PROVE  machine'.at = "bp" /\ ~running' /\ ~runTimer' /\ burst'.left = 0 /\ rb' = rb
    <2>1. where = "bp" /\ halt
      BY <1>1, <1>3
    <2>2. ~stopped /\ pauses
      BY <1>1, <1>2, <2>1
    <2>3. machine' = At(where) /\ rb' = rb
      BY <1>1, <2>1 DEF ring
    <2>4. machine'.at = "bp"
      BY <2>1, <2>3 DEF At, SessionType, MachineType, Machines
    <2> HIDE DEF pauses, stopped, halt
    <2>5. burst'.left = 0
      BY <1>1, <2>2 DEF SessionType
    <2> QED
      BY <1>1, <2>2, <2>3, <2>4, <2>5
  <1> QED
    BY <1>2, <1>3 DEF Halts

\* Every other step leaves the machine alone, counts as the user's or happens
\* outside of a tick.
LEMMA StepHalts ==
    ASSUME SessionType, BurstInv, [Next]_vars PROVE Halts
  <1>1. CASE \E where \in Places : Frame(where)
    BY <1>1, FrameHalts
  <1>2. CASE TimerFires \/ UNCHANGED vars
    BY <1>2 DEF TimerFires, vars, Halts
  <1>3. CASE Free /\ UNCHANGED machine
    BY <1>3 DEF Halts
  <1>4. CASE RewindTick
    BY <1>4 DEF RewindTick, Halts
  <1>5. ASSUME NEW where \in Places, HoldEnd(where) PROVE Halts
    BY <1>5 DEF HoldEnd, SessionType, HoldType, Halts
  <1>6. CASE UserActs
    BY <1>6 DEF UserActs, SessionType, Halts
  <1> QED
    BY <1>1, <1>2, <1>3, <1>4, <1>5, <1>6
    DEF Next, Background, User, TickPasses, Tick, RewindBy, TogglePause,
        RunToCursor, SaveState, LoadRomFails, Step, Reset, LoadState, ImportState, LoadRom,
        Reload, Rebuild, LoadCrashDump

\* BreakpointHolds: no tick, capture or stale timer moves the CPU off the
\* breakpoint it stopped on.
THEOREM BreakpointTheorem == Spec => BreakpointHolds
  <1>1. Init => SessionType /\ BurstInv
    BY SessionStarts DEF Init, BurstInv, Free
  <1>2. SessionType /\ BurstInv /\ [Next]_vars => SessionType' /\ BurstInv' /\ Halts
    BY SessionTyped, BurstKept, StepHalts
  <1>3. SessionType /\ BurstInv /\ [Next]_vars => [Halts]_vars
    BY <1>2
  <1> QED
    BY <1>1, <1>2, <1>3, PTL DEF Spec, BreakpointHolds, Halts
=============================================================================
