------------------------------ MODULE Project ------------------------------
(***************************************************************************)
(* The project of a ROM: the tables kept in memory while a project is open *)
(* (target-kintsuki/project.cpp), the directory they are saved to, and the *)
(* host calls and hooks that open, edit, save and drop them                *)
(* (libkintsuki.cpp).                                                      *)
(*                                                                         *)
(* A file, like the table it holds, is a function from row numbers, ROM    *)
(* offsets or addresses to rows; a missing file reads like an empty one.   *)
(* save() writes one file per step.  A write can be refused, can be cut    *)
(* short with or without ofstream noticing before it is destroyed, and the *)
(* process can die in it.  A cut falls between two rows.                   *)
(* One of the three processor flags of a label stands for all three; hit   *)
(* times and comments are left out.                                        *)
(***************************************************************************)
EXTENDS Integers, Sequences, FiniteSets

CONSTANTS
    Roms,        \* ROM images; an image stands for its SHA too
    NoRom,       \* no ROM is loaded
    RomSize,     \* their sizes
    Addrs,       \* bus addresses; below the ROM size they are ROM offsets
    Entries,     \* the ones that hold data, labels and the like
    Returns,     \* how routines return: RTS (0), RTL (1), RTI (2)
    Names,       \* names of bookmarks
    HashName,    \* the one of them that starts with '#'
    Regs,        \* destinations of DMA transfers
    Flags,       \* values of the processor flag, 0 or 1, routines are called with
    Unreadable,  \* files that may turn out to be unreadable
    Intervals,   \* autosave intervals the host asks for, 0 for none
    LoadBound,   \* bound: ROMs loaded
    EditBound,   \* bound: changes made to tables
    FaultBound   \* bound: failed reads and writes, and deaths of the process

ASSUME RomsAssumption == NoRom \notin Roms /\ RomSize \in [Roms -> Nat \ {0}]
ASSUME AddrsAssumption == Addrs \subseteq Nat /\ Entries \subseteq Addrs /\ Returns \subseteq 0 .. 2 /\ Flags \subseteq 0 .. 1
VARIABLES
    rom,     \* the loaded ROM
    proj,    \* the open project, and the files that failed without save() or
             \* open() taking notice
    disk,    \* its directory
    saving,  \* the file that save() is about to write, 0 outside of save()
    auto,    \* autosave interval, frames since the last autosave
    io       \* loads, edits and faults so far

vars == <<rom, proj, disk, saving, auto, io>>

Order == <<"manifest", "toml", "map", "functions", "bookmarks", "breakpoints",
           "dma_log", "labels">>
Files == {Order[i] : i \in DOMAIN Order}
ASSUME BoundsAssumption ==
    /\ Intervals \subseteq Nat /\ Unreadable \subseteq Files
    /\ \E n \in Intervals : \A k \in Intervals : k <= n
    /\ LoadBound \in Nat /\ EditBound \in Nat /\ FaultBound \in Nat

\* The tables with a dirty flag of their own.
Tables == Files \ {"manifest", "toml", "map"}

Classes == {"unknown", "code", "operand", "data", "graphics", "palette", "tilemap"}
Unknown == [cls |-> "unknown", sticky |-> FALSE]
Empty == <<>>
\* The manifest is never read back: one text stands for all.
Manifest == <<"bml">>

\* g_projectAutosaveFrames starts at 60 frames: the longest interval.
DefaultInterval == CHOOSE n \in Intervals : \A k \in Intervals : k <= n

Closed ==
    [open |-> FALSE, size |-> 0, mem |-> [f \in Files |-> Empty],
     dirty |-> FALSE, stale |-> {}, lost |-> {}]

-----------------------------------------------------------------------------
(* Edits, as functions from a project to a project *)

Edited(p, f, table) ==
    [p EXCEPT !.mem[f] = table, !.dirty = TRUE, !.stale = @ \cup ({f} \cap Tables)]

Marked(p, map) == IF map = p.mem["map"] THEN p ELSE Edited(p, "map", map)

Span(a, len) == a .. a + len - 1

\* Fault: auto-classification overwrites what the user marked.
MarkAutoAlways(p, a, len, cls) ==
    Marked(p, [o \in DOMAIN p.mem["map"] |->
                IF o \in Span(a, len) THEN [cls |-> cls, sticky |-> FALSE]
                                      ELSE p.mem["map"][o]])

MarkAuto(p, a, len, cls) ==
    Marked(p, [o \in DOMAIN p.mem["map"] |->
                IF o \in Span(a, len) /\ ~p.mem["map"][o].sticky
                THEN [cls |-> cls, sticky |-> FALSE] ELSE p.mem["map"][o]])

MarkUser(p, a, len, cls) ==
    Marked(p, [o \in DOMAIN p.mem["map"] |->
                IF o \in Span(a, len)
                THEN [cls |-> cls, sticky |-> cls # "unknown"] ELSE p.mem["map"][o]])

InRom(p, a) == a < p.size

NoteExec(p, a, len) ==
    MarkAuto(MarkAuto(p, a, 1, "code"), a + 1, len - 1, "operand")

ClassifyByDest(reg) ==
    CASE reg = "vmdata" -> "graphics" [] reg = "cgdata" -> "palette"
      [] reg = "oamdata" -> "tilemap" [] OTHER -> "data"

NoteDmaProvenance(p, a, len, reg) ==
    LET log  == p.mem["dma_log"]
        same == {i \in DOMAIN log : log[i].src = a /\ log[i].size = len /\ log[i].reg = reg}
    IN  Edited(p, "dma_log",
          IF same = {}
          THEN Append(log, [src |-> a, size |-> len, reg |-> reg, hits |-> 1])
          ELSE [i \in DOMAIN log |->
                 IF i \in same THEN [log[i] EXCEPT !.hits = @ + 1] ELSE log[i]])

With(table, k, row) ==
    [j \in DOMAIN table \cup {k} |-> IF j = k THEN row ELSE table[j]]

Without(table, k) == [j \in DOMAIN table \ {k} |-> table[j]]

NoteFunctionExit(p, entry, pc, kind) ==
    LET funcs == p.mem["functions"]
        slot  == IF entry \in DOMAIN funcs THEN funcs[entry]
                                           ELSE [calls |-> 0, exits |-> Empty]
        exit  == [pc |-> pc, kind |-> kind]
        seen  == \E i \in DOMAIN slot.exits : slot.exits[i] = exit
    IN  Edited(p, "functions",
          With(funcs, entry,
            [calls |-> slot.calls + 1,
             exits |-> IF seen THEN slot.exits ELSE Append(slot.exits, exit)]))

NoLabel == [name |-> "", flag |-> -1]

\* force is never set: the first writer of a flag wins.
RecordEntryFlags(p, a, flag) ==
    LET labels == p.mem["labels"]
        slot   == IF a \in DOMAIN labels THEN labels[a] ELSE NoLabel
    IN  IF slot.flag >= 0 THEN p
        ELSE Edited(p, "labels", With(labels, a, [slot EXCEPT !.flag = flag]))

SetLabel(p, a, flag) ==
    Edited(p, "labels", With(p.mem["labels"], a, [name |-> "name", flag |-> flag]))

ClearLabel(p, a) ==
    IF a \in DOMAIN p.mem["labels"]
    THEN Edited(p, "labels", Without(p.mem["labels"], a)) ELSE p

Holding(p, name) ==
    {i \in DOMAIN p.mem["bookmarks"] : p.mem["bookmarks"][i].name = name}

SetBookmark(p, name, a) ==
    LET b == [name |-> name, addr |-> a]
        v == p.mem["bookmarks"]
    IN  Edited(p, "bookmarks",
          IF Holding(p, name) = {} THEN Append(v, b)
          ELSE [i \in DOMAIN v |-> IF i \in Holding(p, name) THEN b ELSE v[i]])

Erase(s, i) == SubSeq(s, 1, i - 1) \o SubSeq(s, i + 1, Len(s))

\* Fault: the table changes and its own dirty flag stays down.
ClearBookmarkQuietly(p, name) ==
    IF Holding(p, name) = {} THEN p
    ELSE [p EXCEPT !.dirty = TRUE,
                   !.mem["bookmarks"] = Erase(@, CHOOSE i \in Holding(p, name) : TRUE)]

ClearBookmark(p, name) ==
    IF Holding(p, name) = {} THEN p
    ELSE Edited(p, "bookmarks",
           Erase(p.mem["bookmarks"], CHOOSE i \in Holding(p, name) : TRUE))

AddBreakpoint(p, a) == Edited(p, "breakpoints", Append(p.mem["breakpoints"], a))

RemoveBreakpoint(p, i) ==
    IF i \in DOMAIN p.mem["breakpoints"]
    THEN Edited(p, "breakpoints", Erase(p.mem["breakpoints"], i)) ELSE p

ClearBreakpoints(p) ==
    IF p.mem["breakpoints"] = Empty THEN p ELSE Edited(p, "breakpoints", Empty)

-----------------------------------------------------------------------------
(* What emulation and the host do to the open project *)

HostFree == saving = 0

Changes(p) ==
    /\ HostFree /\ proj.open
    /\ p # proj
    /\ io.edits < EditBound
    /\ proj' = p
    /\ io' = [io EXCEPT !.edits = @ + 1]
    /\ UNCHANGED <<rom, disk, saving, auto>>

\* An instruction executed, a byte read, a DMA transfer started, a routine
\* called and left.
Exec(a, len) == InRom(proj, a) /\ Changes(NoteExec(proj, a, len))

Read(a) ==
    /\ InRom(proj, a)
    /\ proj.mem["map"][a].cls = "unknown"
    /\ Changes(MarkAuto(proj, a, 1, "data"))

Dma(a, len, reg) ==
    /\ InRom(proj, a)
    /\ Changes(NoteDmaProvenance(MarkAuto(proj, a, len, ClassifyByDest(reg)), a, len, reg))

Call(a, flag) == Changes(RecordEntryFlags(proj, a, flag))

Return(entry, pc, kind) == Changes(NoteFunctionExit(proj, entry, pc, kind))

Emulation ==
    \/ \E a \in Addrs : Exec(a, 2)
    \/ \E a \in Entries, reg \in Regs : Dma(a, 2, reg)
    \/ \E a \in Entries : Read(a)
    \/ \E a \in Entries, flag \in Flags : Call(a, flag)
    \/ \E a \in Entries, kind \in Returns : Return(a, a, kind)

UserEdit ==
    \/ \E a \in Entries, cls \in {"unknown", "code"} : Changes(MarkUser(proj, a, 1, cls))
    \/ \E a \in Entries :
          \/ Changes(SetLabel(proj, a, 0))
          \/ \E name \in Names : Changes(SetBookmark(proj, name, a))
          \/ Changes(ClearLabel(proj, a))
          \/ Changes(AddBreakpoint(proj, a))
    \/ \E name \in Names : Changes(ClearBookmark(proj, name))
    \/ \E i \in 1 .. EditBound : Changes(RemoveBreakpoint(proj, i))
    \/ Changes(ClearBreakpoints(proj))

-----------------------------------------------------------------------------
(* Opening and dropping *)

\* Reading the exits back knows RTL and takes every other kind for RTS.
Reread(func) ==
    [func EXCEPT !.exits = [i \in DOMAIN @ |->
        [@[i] EXCEPT !.kind = IF @ = 1 THEN 1 ELSE 0]]]

\* A row that starts with '#' is skipped as a comment; one bookmark has that name.
Uncommented(v) ==
    LET hashed == {i \in DOMAIN v : v[i].name = HashName}
    IN  IF hashed = {} THEN v ELSE Erase(v, CHOOSE i \in hashed : TRUE)

\* Fault: the map keeps the size it was stored with.
LoadedAsStored(f, file, r) ==
    CASE f = "manifest" -> Manifest
      [] f = "toml" -> IF file = Empty THEN <<r>> ELSE file
      [] f = "map" /\ file = Empty -> [o \in 0 .. RomSize[r] - 1 |-> Unknown]
      [] f = "functions" -> [a \in DOMAIN file |-> Reread(file[a])]
      [] f = "bookmarks" -> Uncommented(file)
      [] OTHER -> file

\* What open() with ROM r makes of a file's bytes: the stored SHA is kept, the
\* map gets the size of r, rows that look like comments are skipped.
Loaded(f, file, r) ==
    CASE f = "manifest" -> Manifest
      [] f = "toml" -> IF file = Empty THEN <<r>> ELSE file
      [] f = "map" -> [o \in 0 .. RomSize[r] - 1 |->
                        IF o \in DOMAIN file THEN file[o] ELSE Unknown]
      [] f = "functions" -> [a \in DOMAIN file |-> Reread(file[a])]
      [] f = "bookmarks" -> Uncommented(file)
      [] OTHER -> file

\* The previous project is dropped as it is.  A file that cannot be read
\* counts as missing.
ProjectOpen(unread) ==
    /\ HostFree /\ rom # NoRom
    /\ io.faults + Cardinality(unread) <= FaultBound
    /\ proj' = [open |-> TRUE, size |-> RomSize[rom], dirty |-> TRUE, stale |-> {},
                lost |-> unread, mem |-> [f \in Files |->
                    Loaded(f, IF f \in unread THEN Empty ELSE disk[f], rom)]]
    /\ auto' = [auto EXCEPT !.since = 0]
    /\ io' = [io EXCEPT !.faults = @ + Cardinality(unread)]
    /\ UNCHANGED <<rom, disk, saving>>

\* create_directories() fails: the previous project is gone all the same.
ProjectOpenFails ==
    /\ HostFree /\ rom # NoRom
    /\ proj' = Closed
    /\ UNCHANGED <<rom, disk, saving, auto, io>>

ProjectClose ==
    /\ HostFree /\ proj.open
    /\ proj' = Closed
    /\ auto' = [auto EXCEPT !.since = 0]
    /\ UNCHANGED <<rom, disk, saving, io>>

\* load_rom leaves the project of the previous ROM open.
LoadRom(r) ==
    /\ HostFree
    /\ io.loads < LoadBound
    /\ rom' = r
    /\ io' = [io EXCEPT !.loads = @ + 1]
    /\ UNCHANGED <<proj, disk, saving, auto>>

Destroy ==
    /\ HostFree
    /\ rom' = NoRom
    /\ proj' = Closed
    /\ UNCHANGED <<disk, saving, auto, io>>

-----------------------------------------------------------------------------
(* Saving *)

\* save() writes this file: the first three always, a table when it changed.
Due(p, i) == Order[i] \notin Tables \/ Order[i] \in p.stale

\* The next file at or after i, 0 when save() is through.
NextDue(p, i) ==
    LET due == {j \in i .. Len(Order) : Due(p, j)}
    IN  IF due = {} THEN 0 ELSE CHOOSE j \in due : \A k \in due : j <= k

SaveBegins == saving' = IF proj.dirty THEN NextDue(proj, 1) ELSE 0

ProjectSave ==
    /\ HostFree /\ proj.open
    /\ SaveBegins
    /\ UNCHANGED <<rom, proj, disk, auto, io>>

\* run_frames(n): emulation, then the autosave.
RunFrames(n) ==
    /\ HostFree /\ proj.open /\ auto.every > 0
    /\ LET since == auto.since + n
       IN  IF since >= auto.every
           THEN SaveBegins /\ auto' = [auto EXCEPT !.since = 0]
           ELSE auto' = [auto EXCEPT !.since = since] /\ UNCHANGED saving
    /\ UNCHANGED <<rom, proj, disk, io>>

SetAutosave(n) ==
    /\ HostFree
    /\ auto' = [auto EXCEPT !.every = n]
    /\ UNCHANGED <<rom, proj, disk, saving, io>>

\* Fault: the end of save() leaves the project dirty.
ContinueStaysDirty(p) == saving' = NextDue(p, saving + 1) /\ proj' = p

\* save() goes on with the project as its last write left it.
Continue(p) ==
    LET next == NextDue(p, saving + 1)
    IN  /\ saving' = next
        /\ proj' = [p EXCEPT !.dirty = next # 0]

Cuts(table) ==
    {Empty} \cup {[k \in {j \in DOMAIN table : j < c} |-> table[k]] : c \in DOMAIN table}

Saving(f) == saving # 0 /\ f = Order[saving]

WriteFile(f) ==
    /\ Saving(f)
    /\ disk' = [disk EXCEPT ![f] = proj.mem[f]]
    /\ Continue([proj EXCEPT !.stale = @ \ {f}, !.lost = @ \ {f}])
    /\ UNCHANGED <<rom, auto, io>>

WriteFails(f, file) ==
    /\ Saving(f)
    /\ io.faults < FaultBound
    /\ disk' = [disk EXCEPT ![f] = file]
    /\ io' = [io EXCEPT !.faults = @ + 1]
    /\ UNCHANGED <<rom, auto>>

\* writeFile() returns false, the file untouched or cut: save() gives up and
\* the project stays dirty, unless it was the manifest.
WriteFileFails(f, file) ==
    /\ WriteFails(f, file)
    /\ IF f = "manifest" THEN Continue([proj EXCEPT !.lost = @ \cup {f}])
                         ELSE saving' = 0 /\ UNCHANGED proj

\* writeFile() returns true: the bytes were still in the stream's buffer when
\* good() was asked, and did not reach the file when the stream was destroyed.
WriteFileFailsLate(f, file) ==
    /\ WriteFails(f, file)
    /\ Continue([proj EXCEPT !.stale = @ \ {f}, !.lost = @ \cup {f}])

SaveStep ==
    \E f \in Files :
        \/ WriteFile(f)
        \/ \E file \in Cuts(proj.mem[f]) : WriteFileFails(f, file) \/ WriteFileFailsLate(f, file)
        \/ WriteFileFails(f, disk[f])

\* The process dies between two files of save() or in the middle of one, and
\* is started again.  Elsewhere its death loses what Destroy loses.
Crash ==
    /\ io.faults < FaultBound
    /\ \E f \in Files :
          /\ Saving(f)
          /\ \E file \in Cuts(proj.mem[f]) \cup {disk[f]} : disk' = [disk EXCEPT ![f] = file]
    /\ rom' = NoRom
    /\ proj' = Closed
    /\ saving' = 0
    /\ auto' = [every |-> DefaultInterval, since |-> 0]
    /\ io' = [io EXCEPT !.faults = @ + 1]

-----------------------------------------------------------------------------

Init ==
    /\ rom = NoRom
    /\ proj = Closed
    /\ disk = [f \in Files |-> Empty]
    /\ saving = 0
    /\ auto = [every |-> DefaultInterval, since |-> 0]
    /\ io = [loads |-> 0, edits |-> 0, faults |-> 0]

Frames == \E n \in 1 .. 2 : RunFrames(n)

\* At most one file of the directory cannot be read.
Opens == ProjectOpen({}) \/ \E f \in Unreadable : ProjectOpen({f})

Next ==
    \/ Emulation \/ UserEdit
    \/ \E r \in Roms : LoadRom(r)
    \/ Opens
    \/ ProjectOpenFails \/ ProjectClose \/ Destroy
    \/ ProjectSave \/ Frames \/ \E n \in Intervals : SetAutosave(n)
    \/ SaveStep
    \/ Crash

\* The host keeps running frames, and save() runs to its end.
Spec == Init /\ [][Next]_vars /\ WF_vars(Frames) /\ WF_vars(SaveStep)

-----------------------------------------------------------------------------
(* Properties *)

MapOK(map) == \A o \in DOMAIN map : map[o] \in [cls : Classes, sticky : BOOLEAN]

BookmarksOK(v) ==
    /\ v \in Seq([name : Names, addr : Entries])
    /\ \A i, j \in DOMAIN v : v[i].name = v[j].name => i = j

\* The project is well formed: a map as long as the ROM it was opened with
\* (Impl.map, "size == rom_size"), one bookmark per name, one DMA row per
\* transfer, and dirty tables only in a dirty project.
TypeOK ==
    /\ rom \in Roms \cup {NoRom}
    /\ proj.open \in BOOLEAN /\ proj.dirty \in BOOLEAN
    /\ proj.stale \subseteq Tables /\ proj.lost \subseteq Files
    /\ proj.stale # {} => proj.dirty
    /\ DOMAIN proj.mem["map"] = 0 .. proj.size - 1
    /\ MapOK(proj.mem["map"]) /\ MapOK(disk["map"])
    /\ BookmarksOK(proj.mem["bookmarks"]) /\ BookmarksOK(disk["bookmarks"])
    /\ \A i, j \in DOMAIN proj.mem["dma_log"] :
          LET log == proj.mem["dma_log"]
          IN  [log[i] EXCEPT !.hits = 0] = [log[j] EXCEPT !.hits = 0] => i = j
    /\ saving \in 0 .. Len(Order) /\ (saving # 0 => proj.open /\ proj.dirty)
    /\ auto.every \in Intervals /\ auto.since \in Nat
    /\ io \in [loads : 0 .. LoadBound, edits : 0 .. EditBound, faults : 0 .. FaultBound]

\* Whatever failed, was retried or crashed before: a table whose dirty flag is
\* down is on disk as it is in memory (or is what open() made of the file), all
\* files are when the project is clean, and the stored SHA stays the project's.
\* Exempt are files that failed without a report: the manifest, a write that
\* failed in the stream's destructor, a file open() could not read.
CleanIsOnDisk ==
    proj.open =>
        \A f \in Files \ proj.lost :
            /\ f \in Tables \ proj.stale =>
                  proj.mem[f] \in {disk[f], Loaded(f, disk[f], rom)}
            /\ f \notin Tables /\ ~proj.dirty => proj.mem[f] = disk[f]
            /\ f = "toml" /\ disk[f] # Empty => proj.mem[f] = disk[f]

\* Nothing the emulated program does changes a byte the user marked, the name
\* of a label or a flag that is known ("user wins", "first writer wins").
UserMarksWin ==
    [][Emulation =>
        /\ \A o \in DOMAIN proj.mem["map"] :
              proj.mem["map"][o].sticky => proj'.mem["map"][o] = proj.mem["map"][o]
        /\ \A a \in DOMAIN proj.mem["labels"] :
              /\ a \in DOMAIN proj'.mem["labels"]
              /\ LET old == proj.mem["labels"][a]
                     new == proj'.mem["labels"][a]
                 IN  new.name = old.name /\ (old.flag >= 0 => new.flag = old.flag)]_vars

\* A save that failed is repaired: if the host does not reopen the project for
\* ever, a dirty project with autosave on is eventually saved, or closed, or
\* autosave is turned off.
AutosaveRepairs ==
    <>[][~Opens]_vars =>
        ((proj.dirty /\ auto.every > 0) ~> (~proj.dirty \/ auto.every = 0))

=============================================================================
