---------------------------- MODULE ProjectProofs ----------------------------
(***************************************************************************)
(* Proofs about Project, for every set of ROMs and addresses, every        *)
(* autosave interval and every bound on loads, edits and faults.           *)
(***************************************************************************)
EXTENDS Project, SequenceTheorems, FiniteSetTheorems, TLAPS

-----------------------------------------------------------------------------
(* Files *)

\* The eight files, in the order save() writes them.
LEMMA OrderIs ==
    /\ Len(Order) = 8 /\ DOMAIN Order = 1 .. 8
    /\ Order[1] = "manifest" /\ Order[2] = "toml" /\ Order[3] = "map"
    /\ Order[4] = "functions" /\ Order[5] = "bookmarks" /\ Order[6] = "breakpoints"
    /\ Order[7] = "dma_log" /\ Order[8] = "labels"
  BY DEF Order

\* The files, and the ones that are tables.
LEMMA FilesAre ==
    /\ Files = {"manifest", "toml", "map", "functions", "bookmarks", "breakpoints",
                "dma_log", "labels"}
    /\ Tables = {"functions", "bookmarks", "breakpoints", "dma_log", "labels"}
  <1>1. Files = {Order[i] : i \in 1 .. 8}
    BY OrderIs DEF Files
  <1>2. Files = {"manifest", "toml", "map", "functions", "bookmarks", "breakpoints",
                "dma_log", "labels"}
    BY <1>1, OrderIs
  <1>. QED
    BY <1>2 DEF Tables

\* A nonempty set of positions has a first one.
LEMMA FirstExists ==
    ASSUME NEW S, S \subseteq 1 .. 8, S # {}
    PROVE \E j \in S : \A k \in S : j <= k
  <1>1. CASE \E j \in S : j <= 4
    <2>1. PICK j \in S : j <= 4
      BY <1>1
    <2>2. 1 \in S \/ 2 \in S \/ 3 \in S \/ 4 \in S
      BY <2>1
    <2>. QED
      BY <2>2
  <1>2. CASE ~ \E j \in S : j <= 4
    <2>1. S \subseteq 5 .. 8
      BY <1>2
    <2>2. 5 \in S \/ 6 \in S \/ 7 \in S \/ 8 \in S
      <3>1. PICK j \in S : j \in 5 .. 8
        BY <2>1
      <3>. QED
        BY <3>1
    <2>. QED
      BY <2>1, <2>2
  <1>. QED
    BY <1>1, <1>2

\* NextDue is the first file that is due, if any is.
LEMMA NextDueIs ==
    ASSUME NEW p, NEW i \in 1 .. 9
    PROVE /\ NextDue(p, i) \in {0} \cup (i .. 8)
          /\ NextDue(p, i) # 0 => Due(p, NextDue(p, i))
          /\ \A j \in i .. 8 : Due(p, j) => NextDue(p, i) # 0 /\ NextDue(p, i) <= j
  <1>. DEFINE due == {j \in i .. 8 : Due(p, j)}
  <1>1. NextDue(p, i) = IF due = {} THEN 0 ELSE CHOOSE j \in due : \A k \in due : j <= k
    BY OrderIs DEF NextDue
  <1>2. CASE due = {}
    BY <1>1, <1>2
  <1>3. CASE due # {}
    <2>1. due \subseteq 1 .. 8
      OBVIOUS
    <2>2. \E j \in due : \A k \in due : j <= k
      BY <1>3, <2>1, FirstExists
    <2>3. NextDue(p, i) \in due /\ \A k \in due : NextDue(p, i) <= k
      BY <1>1, <1>3, <2>2
    <2>. QED
      BY <2>3
  <1>. QED
    BY <1>2, <1>3

\* For a table the ROM does not matter.
LEMMA TablesIgnoreRom ==
    ASSUME NEW f \in Tables, NEW file, NEW r, NEW s
    PROVE Loaded(f, file, r) = Loaded(f, file, s)
  BY FilesAre DEF Loaded

-----------------------------------------------------------------------------
(* Edits *)

\* A project as a record, whatever its tables hold.
ProjectRecord(p) ==
    /\ p = [k \in {"open", "size", "mem", "dirty", "stale", "lost"} |-> p[k]]
    /\ p.mem = [f \in Files |-> p.mem[f]]
    /\ p.stale \subseteq Tables

\* An edit replaces one table and raises its flags.
LEMMA EditedIs ==
    ASSUME NEW p, ProjectRecord(p), NEW f \in Files, NEW table
    PROVE /\ ProjectRecord(Edited(p, f, table))
          /\ Edited(p, f, table).mem[f] = table
          /\ \A g \in Files \ {f} : Edited(p, f, table).mem[g] = p.mem[g]
          /\ Edited(p, f, table).dirty
          /\ Edited(p, f, table).stale = p.stale \cup ({f} \cap Tables)
          /\ Edited(p, f, table).open = p.open
          /\ Edited(p, f, table).size = p.size
          /\ Edited(p, f, table).lost = p.lost
  <1>. DEFINE q == Edited(p, f, table)
  <1>1. q.mem = [p.mem EXCEPT ![f] = table]
    BY DEF Edited, ProjectRecord
  <1>2. /\ q.dirty /\ q.stale = p.stale \cup ({f} \cap Tables)
        /\ q.open = p.open /\ q.size = p.size /\ q.lost = p.lost
    BY DEF Edited, ProjectRecord
  <1>3. q = [k \in {"open", "size", "mem", "dirty", "stale", "lost"} |-> q[k]]
    BY DEF Edited, ProjectRecord
  <1>4. q.mem = [g \in Files |-> IF g = f THEN table ELSE p.mem[g]]
    BY <1>1 DEF ProjectRecord
  <1>5. q.mem[f] = table /\ \A g \in Files \ {f} : q.mem[g] = p.mem[g]
    BY <1>4
  <1>6. ProjectRecord(q)
    BY <1>2, <1>3, <1>4 DEF ProjectRecord
  <1>. QED
    BY <1>2, <1>5, <1>6

LabelsOK(t) == \A a \in DOMAIN t : t[a] \in [name : {"", "name"}, flag : -1 .. 1]

\* What an edit may do: it marks what it changes, and leaves the manifest and
\* the stored SHA alone.
OnlyEdits(p, q) ==
    /\ ProjectRecord(q)
    /\ q.open = p.open /\ q.size = p.size /\ q.lost = p.lost
    /\ p.stale \subseteq q.stale
    /\ p.dirty => q.dirty
    /\ \A f \in Files : q.mem[f] # p.mem[f] =>
          q.dirty /\ f \notin {"manifest", "toml"} /\ (f \in Tables => f \in q.stale)
    /\ LabelsOK(p.mem["labels"]) => LabelsOK(q.mem["labels"])

\* Changing nothing is an edit.
LEMMA NoEdit ==
    ASSUME NEW p, ProjectRecord(p)
    PROVE OnlyEdits(p, p)
  BY DEF OnlyEdits

\* So is replacing a table other than the labels.
LEMMA OneEdit ==
    ASSUME NEW p, ProjectRecord(p), NEW f \in Files \ {"manifest", "toml", "labels"}, NEW table
    PROVE OnlyEdits(p, Edited(p, f, table))
  <1>. DEFINE q == Edited(p, f, table)
  <1>1. /\ ProjectRecord(q) /\ q.open = p.open /\ q.size = p.size /\ q.lost = p.lost
        /\ q.dirty /\ q.stale = p.stale \cup ({f} \cap Tables)
        /\ \A g \in Files \ {f} : q.mem[g] = p.mem[g]
    BY EditedIs
  <1>2. q.mem["labels"] = p.mem["labels"]
    BY <1>1, FilesAre
  <1>. HIDE DEF q
  <1>3. ASSUME NEW g \in Files, q.mem[g] # p.mem[g]
        PROVE q.dirty /\ g \notin {"manifest", "toml"} /\ (g \in Tables => g \in q.stale)
    <2>1. g = f
      BY <1>1, <1>3
    <2>. QED
      BY <1>1, <2>1
  <1>4. OnlyEdits(p, q)
    BY <1>1, <1>2, <1>3 DEF OnlyEdits
  <1>. QED
    BY <1>4 DEF q

\* So is replacing the labels by labels.
LEMMA LabelEdit ==
    ASSUME NEW p, ProjectRecord(p), NEW table,
           LabelsOK(p.mem["labels"]) => LabelsOK(table)
    PROVE OnlyEdits(p, Edited(p, "labels", table))
  <1>. DEFINE q == Edited(p, "labels", table)
  <1>0. "labels" \in Files /\ "labels" \in Tables
    BY FilesAre
  <1>1. /\ ProjectRecord(q) /\ q.open = p.open /\ q.size = p.size /\ q.lost = p.lost
        /\ q.dirty /\ q.stale = p.stale \cup ({"labels"} \cap Tables)
        /\ \A g \in Files \ {"labels"} : q.mem[g] = p.mem[g]
        /\ q.mem["labels"] = table
    BY <1>0, EditedIs
  <1>. HIDE DEF q
  <1>3. ASSUME NEW g \in Files, q.mem[g] # p.mem[g]
        PROVE q.dirty /\ g \notin {"manifest", "toml"} /\ (g \in Tables => g \in q.stale)
    <2>1. g = "labels"
      BY <1>1, <1>3
    <2>. QED
      BY <1>0, <1>1, <2>1
  <1>4. OnlyEdits(p, q)
    BY <1>1, <1>3 DEF OnlyEdits
  <1>. QED
    BY <1>4 DEF q

\* Edits compose.
LEMMA EditsCompose ==
    ASSUME NEW p, NEW q, NEW r, OnlyEdits(p, q), OnlyEdits(q, r)
    PROVE OnlyEdits(p, r)
  <1>1. ASSUME NEW f \in Files, r.mem[f] # p.mem[f]
        PROVE r.dirty /\ f \notin {"manifest", "toml"} /\ (f \in Tables => f \in r.stale)
    <2>1. CASE r.mem[f] # q.mem[f]
      BY <2>1 DEF OnlyEdits
    <2>2. CASE r.mem[f] = q.mem[f]
      <3>1. q.dirty /\ f \notin {"manifest", "toml"} /\ (f \in Tables => f \in q.stale)
        BY <1>1, <2>2 DEF OnlyEdits
      <3>. QED
        BY <3>1 DEF OnlyEdits
    <2>. QED
      BY <2>1, <2>2
  <1>2. /\ ProjectRecord(r) /\ r.open = p.open /\ r.size = p.size /\ r.lost = p.lost
        /\ p.stale \subseteq r.stale /\ (p.dirty => r.dirty)
        /\ LabelsOK(p.mem["labels"]) => LabelsOK(r.mem["labels"])
    BY DEF OnlyEdits
  <1>. QED
    BY <1>1, <1>2 DEF OnlyEdits

-----------------------------------------------------------------------------
(* What emulation changes, and what it leaves alone *)

\* Bytes the user marked, in map q as in map p.
KeepsMarks(p, q) ==
    /\ DOMAIN q.mem["map"] = DOMAIN p.mem["map"]
    /\ \A o \in DOMAIN p.mem["map"] :
          p.mem["map"][o].sticky => q.mem["map"][o] = p.mem["map"][o]

\* Automatic classification leaves what the user marked, and the labels.
LEMMA MarkAutoIs ==
    ASSUME NEW p, ProjectRecord(p), NEW a, NEW len, NEW cls
    PROVE /\ OnlyEdits(p, MarkAuto(p, a, len, cls))
          /\ KeepsMarks(p, MarkAuto(p, a, len, cls))
          /\ MarkAuto(p, a, len, cls).mem["labels"] = p.mem["labels"]
  <1>. DEFINE map == [o \in DOMAIN p.mem["map"] |->
                        IF o \in Span(a, len) /\ ~p.mem["map"][o].sticky
                        THEN [cls |-> cls, sticky |-> FALSE] ELSE p.mem["map"][o]]
              q == MarkAuto(p, a, len, cls)
  <1>0. "map" \in Files \ {"manifest", "toml", "labels"} /\ "labels" \in Files \ {"map"}
    BY FilesAre
  <1>1. q = IF map = p.mem["map"] THEN p ELSE Edited(p, "map", map)
    BY DEF MarkAuto, Marked
  <1>2. q.mem["map"] = map /\ q.mem["labels"] = p.mem["labels"] /\ OnlyEdits(p, q)
    <2>. HIDE DEF map
    <2>1. CASE map = p.mem["map"]
      BY <1>1, <2>1, NoEdit
    <2>2. CASE map # p.mem["map"]
      BY <1>0, <1>1, <2>2, OneEdit, EditedIs
    <2>. QED
      BY <2>1, <2>2
  <1>3. KeepsMarks(p, q)
    BY <1>2 DEF KeepsMarks
  <1>. QED
    BY <1>2, <1>3

\* An executed instruction classifies twice.
LEMMA NoteExecIs ==
    ASSUME NEW p, ProjectRecord(p), NEW a, NEW len
    PROVE /\ OnlyEdits(p, NoteExec(p, a, len))
          /\ KeepsMarks(p, NoteExec(p, a, len))
          /\ NoteExec(p, a, len).mem["labels"] = p.mem["labels"]
  <1>. DEFINE q == MarkAuto(p, a, 1, "code")
              r == MarkAuto(q, a + 1, len - 1, "operand")
  <1>1. OnlyEdits(p, q) /\ KeepsMarks(p, q) /\ q.mem["labels"] = p.mem["labels"]
    BY MarkAutoIs
  <1>2. ProjectRecord(q)
    BY <1>1 DEF OnlyEdits
  <1>. HIDE DEF q
  <1>3. OnlyEdits(q, r) /\ KeepsMarks(q, r) /\ r.mem["labels"] = q.mem["labels"]
    BY <1>2, MarkAutoIs
  <1>4. NoteExec(p, a, len) = r
    BY DEF NoteExec, q
  <1>. HIDE DEF r
  <1>5. OnlyEdits(p, r) /\ r.mem["labels"] = p.mem["labels"]
    BY <1>1, <1>3, EditsCompose
  <1>6. KeepsMarks(p, r)
    BY <1>1, <1>3 DEF KeepsMarks
  <1>. QED
    BY <1>4, <1>5, <1>6

\* A DMA transfer is logged.
LEMMA NoteDmaIs ==
    ASSUME NEW p, ProjectRecord(p), NEW a, NEW len, NEW reg
    PROVE /\ OnlyEdits(p, NoteDmaProvenance(p, a, len, reg))
          /\ KeepsMarks(p, NoteDmaProvenance(p, a, len, reg))
          /\ NoteDmaProvenance(p, a, len, reg).mem["labels"] = p.mem["labels"]
  <1>0. /\ "dma_log" \in Files \ {"manifest", "toml", "labels"}
        /\ {"labels", "map"} \subseteq Files \ {"dma_log"}
    BY FilesAre
  <1>1. PICK table : NoteDmaProvenance(p, a, len, reg) = Edited(p, "dma_log", table)
    BY DEF NoteDmaProvenance
  <1>2. OnlyEdits(p, Edited(p, "dma_log", table))
    BY <1>0, OneEdit
  <1>3. /\ Edited(p, "dma_log", table).mem["map"] = p.mem["map"]
        /\ Edited(p, "dma_log", table).mem["labels"] = p.mem["labels"]
    BY <1>0, EditedIs
  <1>. QED
    BY <1>1, <1>2, <1>3 DEF KeepsMarks

\* The exit of a routine is noted.
LEMMA NoteExitIs ==
    ASSUME NEW p, ProjectRecord(p), NEW entry, NEW pc, NEW kind
    PROVE /\ OnlyEdits(p, NoteFunctionExit(p, entry, pc, kind))
          /\ KeepsMarks(p, NoteFunctionExit(p, entry, pc, kind))
          /\ NoteFunctionExit(p, entry, pc, kind).mem["labels"] = p.mem["labels"]
  <1>0. /\ "functions" \in Files \ {"manifest", "toml", "labels"}
        /\ {"labels", "map"} \subseteq Files \ {"functions"}
    BY FilesAre
  <1>1. PICK table : NoteFunctionExit(p, entry, pc, kind) = Edited(p, "functions", table)
    BY DEF NoteFunctionExit
  <1>2. OnlyEdits(p, Edited(p, "functions", table))
    BY <1>0, OneEdit
  <1>3. /\ Edited(p, "functions", table).mem["map"] = p.mem["map"]
        /\ Edited(p, "functions", table).mem["labels"] = p.mem["labels"]
    BY <1>0, EditedIs
  <1>. QED
    BY <1>1, <1>2, <1>3 DEF KeepsMarks

\* What the user said of a label, in table t as in table s.
KeepsLabels(s, t) ==
    \A a \in DOMAIN s :
        /\ a \in DOMAIN t
        /\ t[a].name = s[a].name /\ (s[a].flag >= 0 => t[a].flag = s[a].flag)

\* A call tells the flag of a label only if it was unknown.
LEMMA RecordFlagsIs ==
    ASSUME NEW p, ProjectRecord(p), NEW a, NEW flag \in Flags
    PROVE /\ OnlyEdits(p, RecordEntryFlags(p, a, flag))
          /\ LabelsOK(p.mem["labels"]) =>
                KeepsLabels(p.mem["labels"], RecordEntryFlags(p, a, flag).mem["labels"])
          /\ RecordEntryFlags(p, a, flag).mem["map"] = p.mem["map"]
  <1>. DEFINE labels == p.mem["labels"]
              slot == IF a \in DOMAIN labels THEN labels[a] ELSE NoLabel
              table == With(labels, a, [slot EXCEPT !.flag = flag])
              q == RecordEntryFlags(p, a, flag)
  <1>0. "labels" \in Files /\ "map" \in Files \ {"labels"} /\ flag \in 0 .. 1
    BY FilesAre, AddrsAssumption
  <1>1. q = IF slot.flag >= 0 THEN p ELSE Edited(p, "labels", table)
    BY DEF RecordEntryFlags
  <1>2. LabelsOK(labels) => slot \in [name : {"", "name"}, flag : -1 .. 1]
    <2>1. NoLabel \in [name : {"", "name"}, flag : -1 .. 1]
      BY DEF NoLabel
    <2>. QED
      BY <2>1 DEF LabelsOK
  <1>3. table = [j \in DOMAIN labels \cup {a} |->
                  IF j = a THEN [slot EXCEPT !.flag = flag] ELSE labels[j]]
    BY DEF With
  <1>. HIDE DEF labels
  <1>4. LabelsOK(labels) => [slot EXCEPT !.flag = flag] \in [name : {"", "name"}, flag : -1 .. 1]
    <2>. HIDE DEF slot
    <2>1. flag \in -1 .. 1
      BY <1>0
    <2>. QED
      BY <1>2, <2>1
  <1>5. LabelsOK(labels) => LabelsOK(table)
    <2>. HIDE DEF slot, table
    <2>. QED
      BY <1>3, <1>4 DEF LabelsOK
  <1>6. LabelsOK(labels) /\ ~(slot.flag >= 0) => KeepsLabels(labels, table)
    <2>1. ASSUME LabelsOK(labels), ~(slot.flag >= 0), NEW j \in DOMAIN labels
          PROVE /\ j \in DOMAIN table
                /\ table[j].name = labels[j].name /\ (labels[j].flag >= 0 => table[j].flag = labels[j].flag)
      <3>1. CASE j # a
        <4>. HIDE DEF slot, table
        <4>. QED
          BY <1>3, <3>1
      <3>2. CASE j = a
        <4>1. slot = labels[j]
          BY <3>2
        <4>. HIDE DEF slot, table
        <4>2. table[j] = [slot EXCEPT !.flag = flag] /\ j \in DOMAIN table
          BY <1>3, <3>2
        <4>3. [slot EXCEPT !.flag = flag].name = slot.name
          BY <1>2, <2>1
        <4>. QED
          BY <2>1, <4>1, <4>2, <4>3
      <3>. QED
        BY <3>1, <3>2
    <2>. HIDE DEF slot, table
    <2>. QED
      BY <2>1 DEF KeepsLabels
  <1>. HIDE DEF slot, table
  <1>7. CASE slot.flag >= 0
    BY <1>1, <1>7, NoEdit DEF KeepsLabels, labels
  <1>8. CASE ~(slot.flag >= 0)
    <2>1. q = Edited(p, "labels", table)
      BY <1>1, <1>8
    <2>2. q.mem["labels"] = table /\ q.mem["map"] = p.mem["map"]
      BY <1>0, <2>1, EditedIs
    <2>3. OnlyEdits(p, q)
      BY <1>5, <2>1, LabelEdit DEF labels
    <2>. QED
      BY <1>6, <1>8, <2>2, <2>3 DEF labels
  <1>. QED
    BY <1>7, <1>8

-----------------------------------------------------------------------------
(* The inductive invariant *)

Shas == {<<r>> : r \in Roms}

\* Project and directory are tables of files; the stored SHA is one or missing.
Shape ==
    /\ rom \in Roms \cup {NoRom}
    /\ ProjectRecord(proj)
    /\ disk = [f \in Files |-> disk[f]]
    /\ proj.open => proj.mem["toml"] \in Shas
    /\ disk["toml"] \in {Empty} \cup Shas
    /\ LabelsOK(proj.mem["labels"]) /\ LabelsOK(disk["labels"])

\* While save() runs the project is open and dirty, the file it is about to write
\* is due, and of the files it always writes the ones before it are on disk.
SaveInv ==
    saving # 0 =>
        /\ saving \in 1 .. 8
        /\ proj.open /\ proj.dirty
        /\ Due(proj, saving)
        /\ \A i \in 1 .. 3 : i < saving =>
              Order[i] \in proj.lost \/ proj.mem[Order[i]] = disk[Order[i]]

IInv == Shape /\ SaveInv /\ CleanIsOnDisk

-----------------------------------------------------------------------------
(* Edits of the user *)

\* What the user does is an edit.
LEMMA UserEditIs ==
    ASSUME NEW p, ProjectRecord(p)
    PROVE /\ \A a, len, cls : OnlyEdits(p, MarkUser(p, a, len, cls))
          /\ \A a : OnlyEdits(p, SetLabel(p, a, 0)) /\ OnlyEdits(p, ClearLabel(p, a))
          /\ \A name, a : OnlyEdits(p, SetBookmark(p, name, a))
          /\ \A name : OnlyEdits(p, ClearBookmark(p, name))
          /\ \A a : OnlyEdits(p, AddBreakpoint(p, a))
          /\ \A i : OnlyEdits(p, RemoveBreakpoint(p, i))
          /\ OnlyEdits(p, ClearBreakpoints(p))
  <1>0. {"map", "bookmarks", "breakpoints"} \subseteq Files \ {"manifest", "toml", "labels"}
    BY FilesAre
  <1>1. ASSUME NEW a, NEW len, NEW cls PROVE OnlyEdits(p, MarkUser(p, a, len, cls))
    <2>1. \/ MarkUser(p, a, len, cls) = p
          \/ \E table : MarkUser(p, a, len, cls) = Edited(p, "map", table)
      BY DEF MarkUser, Marked
    <2>. QED
      BY <1>0, <2>1, NoEdit, OneEdit
  <1>2. ASSUME NEW a PROVE OnlyEdits(p, SetLabel(p, a, 0))
    <2>. DEFINE labels == p.mem["labels"]
                row == [name |-> "name", flag |-> 0]
                table == With(labels, a, row)
    <2>1. table = [j \in DOMAIN labels \cup {a} |-> IF j = a THEN row ELSE labels[j]]
      BY DEF With
    <2>2. row \in [name : {"", "name"}, flag : -1 .. 1]
      OBVIOUS
    <2>3. LabelsOK(labels) => LabelsOK(table)
      <3>. HIDE DEF table, labels, row
      <3>. QED
        BY <2>1, <2>2 DEF LabelsOK
    <2>. QED
      BY <2>3, LabelEdit DEF SetLabel
  <1>3. ASSUME NEW a PROVE OnlyEdits(p, ClearLabel(p, a))
    <2>. DEFINE labels == p.mem["labels"]
                table == Without(labels, a)
    <2>1. table = [j \in DOMAIN labels \ {a} |-> labels[j]]
      BY DEF Without
    <2>2. LabelsOK(labels) => LabelsOK(table)
      <3>. HIDE DEF table, labels
      <3>. QED
        BY <2>1 DEF LabelsOK
    <2>3. OnlyEdits(p, Edited(p, "labels", table))
      BY <2>2, LabelEdit
    <2>. QED
      BY <2>3, NoEdit DEF ClearLabel
  <1>4. ASSUME NEW name, NEW a PROVE OnlyEdits(p, SetBookmark(p, name, a))
    <2>1. PICK table : SetBookmark(p, name, a) = Edited(p, "bookmarks", table)
      BY DEF SetBookmark
    <2>. QED
      BY <1>0, <2>1, OneEdit
  <1>5. ASSUME NEW name PROVE OnlyEdits(p, ClearBookmark(p, name))
    <2>1. \/ ClearBookmark(p, name) = p
          \/ \E table : ClearBookmark(p, name) = Edited(p, "bookmarks", table)
      BY DEF ClearBookmark
    <2>. QED
      BY <1>0, <2>1, NoEdit, OneEdit
  <1>6. ASSUME NEW a PROVE OnlyEdits(p, AddBreakpoint(p, a))
    BY <1>0, OneEdit DEF AddBreakpoint
  <1>7. ASSUME NEW i PROVE OnlyEdits(p, RemoveBreakpoint(p, i))
    <2>1. \/ RemoveBreakpoint(p, i) = p
          \/ \E table : RemoveBreakpoint(p, i) = Edited(p, "breakpoints", table)
      BY DEF RemoveBreakpoint
    <2>. QED
      BY <1>0, <2>1, NoEdit, OneEdit
  <1>8. OnlyEdits(p, ClearBreakpoints(p))
    <2>1. \/ ClearBreakpoints(p) = p
          \/ \E table : ClearBreakpoints(p) = Edited(p, "breakpoints", table)
      BY DEF ClearBreakpoints
    <2>. QED
      BY <1>0, <2>1, NoEdit, OneEdit
  <1>. QED
    BY <1>1, <1>2, <1>3, <1>4, <1>5, <1>6, <1>7, <1>8

\* Emulation and the user edit the open project, outside of save().
LEMMA ChangesAreEdits ==
    ASSUME ProjectRecord(proj), Emulation \/ UserEdit
    PROVE OnlyEdits(proj, proj') /\ saving = 0 /\ UNCHANGED <<rom, disk, saving>>
  <1>. USE DEF Changes, HostFree
  <1>1. CASE UserEdit
    BY <1>1, UserEditIs DEF UserEdit
  <1>2. ASSUME NEW a \in Addrs, Exec(a, 2)
        PROVE OnlyEdits(proj, proj') /\ saving = 0 /\ UNCHANGED <<rom, disk, saving>>
    BY <1>2, NoteExecIs DEF Exec
  <1>3. ASSUME NEW a \in Entries, NEW reg \in Regs, Dma(a, 2, reg)
        PROVE OnlyEdits(proj, proj') /\ saving = 0 /\ UNCHANGED <<rom, disk, saving>>
    <2>. DEFINE q == MarkAuto(proj, a, 2, ClassifyByDest(reg))
    <2>1. OnlyEdits(proj, q)
      BY MarkAutoIs
    <2>2. OnlyEdits(q, NoteDmaProvenance(q, a, 2, reg))
      BY <2>1, NoteDmaIs DEF OnlyEdits
    <2>. QED
      BY <1>3, <2>1, <2>2, EditsCompose DEF Dma
  <1>4. ASSUME NEW a \in Entries, Read(a)
        PROVE OnlyEdits(proj, proj') /\ saving = 0 /\ UNCHANGED <<rom, disk, saving>>
    BY <1>4, MarkAutoIs DEF Read
  <1>5. ASSUME NEW a \in Entries, NEW flag \in Flags, Call(a, flag)
        PROVE OnlyEdits(proj, proj') /\ saving = 0 /\ UNCHANGED <<rom, disk, saving>>
    BY <1>5, RecordFlagsIs DEF Call
  <1>6. ASSUME NEW a \in Entries, NEW kind \in Returns, Return(a, a, kind)
        PROVE OnlyEdits(proj, proj') /\ saving = 0 /\ UNCHANGED <<rom, disk, saving>>
    BY <1>6, NoteExitIs DEF Return
  <1>. QED
    BY <1>1, <1>2, <1>3, <1>4, <1>5, <1>6 DEF Emulation

\* What the parts of the invariant say of the next state.
LEMMA Primes ==
    /\ LabelsOK(proj.mem["labels"])' <=> LabelsOK(proj'.mem["labels"])
    /\ LabelsOK(disk["labels"])' <=> LabelsOK(disk'["labels"])
    /\ ProjectRecord(proj)' <=> ProjectRecord(proj')
    /\ Due(proj, saving)' <=> Due(proj', saving')
  BY DEF LabelsOK, ProjectRecord, Due

\* Edits preserve the invariant.
LEMMA EditStep ==
    ASSUME IInv, Emulation \/ UserEdit
    PROVE IInv'
  <1>0. OnlyEdits(proj, proj') /\ saving = 0 /\ UNCHANGED <<rom, disk, saving>>
    BY ChangesAreEdits DEF IInv, Shape
  <1>1. Shape'
    BY <1>0, Primes, FilesAre DEF IInv, Shape, OnlyEdits
  <1>2. SaveInv'
    BY <1>0 DEF SaveInv
  <1>3. ASSUME proj'.open, NEW f \in Files \ proj'.lost
        PROVE /\ f \in Tables \ proj'.stale =>
                    proj'.mem[f] \in {disk'[f], Loaded(f, disk'[f], rom')}
              /\ f \notin Tables /\ ~proj'.dirty => proj'.mem[f] = disk'[f]
              /\ f = "toml" /\ disk'[f] # Empty => proj'.mem[f] = disk'[f]
    <2>1. /\ f \in Tables \ proj.stale => proj.mem[f] \in {disk[f], Loaded(f, disk[f], rom)}
          /\ f \notin Tables /\ ~proj.dirty => proj.mem[f] = disk[f]
          /\ f = "toml" /\ disk[f] # Empty => proj.mem[f] = disk[f]
      BY <1>0, <1>3 DEF IInv, CleanIsOnDisk, OnlyEdits
    <2>2. CASE proj'.mem[f] = proj.mem[f]
      BY <1>0, <2>1, <2>2 DEF OnlyEdits
    <2>3. CASE proj'.mem[f] # proj.mem[f]
      BY <1>0, <2>3 DEF OnlyEdits
    <2>. QED
      BY <2>2, <2>3
  <1>4. CleanIsOnDisk'
    BY <1>3 DEF CleanIsOnDisk
  <1>. QED
    BY <1>1, <1>2, <1>4 DEF IInv

-----------------------------------------------------------------------------
(* Opening and dropping a project *)

\* open() takes labels as they are, and keeps a stored SHA.
LEMMA LoadedIs ==
    ASSUME NEW file, NEW r
    PROVE /\ Loaded("labels", file, r) = file
          /\ Loaded("toml", file, r) = IF file = Empty THEN <<r>> ELSE file
  BY DEF Loaded

\* An empty file holds labels.
LEMMA EmptyLabels == LabelsOK(Empty)
  <1>1. DOMAIN Empty = {}
    BY DEF Empty
  <1>. QED
    BY <1>1 DEF LabelsOK

\* No project is a project without tables.
LEMMA ClosedIs ==
    /\ ProjectRecord(Closed) /\ ~Closed.open /\ LabelsOK(Closed.mem["labels"])
  <1>1. Closed.mem = [f \in Files |-> Empty] /\ Closed.stale = {} /\ ~Closed.open
    BY DEF Closed
  <1>2. Closed = [k \in {"open", "size", "mem", "dirty", "stale", "lost"} |-> Closed[k]]
    BY DEF Closed
  <1>. QED
    BY <1>1, <1>2, FilesAre, EmptyLabels DEF ProjectRecord

\* Dropping the project preserves the invariant, whatever became of the files.
LEMMA CloseStep ==
    ASSUME IInv, proj' = Closed, rom' \in Roms \cup {NoRom}, saving' = 0,
           disk' = [f \in Files |-> disk'[f]],
           disk'["toml"] \in {Empty} \cup Shas, LabelsOK(disk'["labels"])
    PROVE IInv'
  <1>1. Shape'
    BY ClosedIs, Primes DEF Shape, Shas
  <1>2. SaveInv' /\ CleanIsOnDisk'
    BY ClosedIs DEF SaveInv, CleanIsOnDisk
  <1>. QED
    BY <1>1, <1>2 DEF IInv

\* So does opening one, with or without files that cannot be read.
LEMMA OpenStep ==
    ASSUME IInv, NEW unread \in SUBSET Files, ProjectOpen(unread)
    PROVE IInv'
  <1>. DEFINE read == [f \in Files |-> IF f \in unread THEN Empty ELSE disk[f]]
  <1>0. {"labels", "toml"} \subseteq Files /\ {"labels"} \subseteq Tables
    BY FilesAre
  <1>1. /\ rom \in Roms /\ rom' = rom /\ disk' = disk /\ saving = 0 /\ saving' = 0
        /\ proj'.open /\ proj'.dirty /\ proj'.stale = {} /\ proj'.lost = unread
        /\ proj'.mem = [f \in Files |-> Loaded(f, IF f \in unread THEN Empty ELSE disk[f], rom)]
    BY DEF ProjectOpen, HostFree, IInv, Shape
  <1>2. proj' = [k \in {"open", "size", "mem", "dirty", "stale", "lost"} |-> proj'[k]]
    BY DEF ProjectOpen
  <1>3. ProjectRecord(proj')
    BY <1>1, <1>2 DEF ProjectRecord
  <1>4. \A f \in Files : proj'.mem[f] = Loaded(f, read[f], rom)
    BY <1>1
  <1>5. proj'.mem["toml"] \in Shas
    <2>1. read["toml"] \in {Empty} \cup Shas
      BY <1>0 DEF IInv, Shape
    <2>2. proj'.mem["toml"] = IF read["toml"] = Empty THEN <<rom>> ELSE read["toml"]
      BY <1>0, <1>4, LoadedIs
    <2>. HIDE DEF read
    <2>. QED
      BY <1>1, <2>1, <2>2 DEF Shas
  <1>6. LabelsOK(proj'.mem["labels"])
    <2>1. proj'.mem["labels"] = read["labels"]
      BY <1>0, <1>4, LoadedIs
    <2>2. LabelsOK(read["labels"])
      BY <1>0, EmptyLabels DEF IInv, Shape
    <2>. QED
      BY <2>1, <2>2
  <1>7. Shape'
    BY <1>1, <1>3, <1>5, <1>6, Primes DEF IInv, Shape
  <1>8. CleanIsOnDisk'
    <2>1. ASSUME NEW f \in Files \ unread
          PROVE proj'.mem[f] = Loaded(f, disk'[f], rom')
      BY <1>1
    <2>2. disk'["toml"] # Empty => Loaded("toml", disk'["toml"], rom') = disk'["toml"]
      BY LoadedIs
    <2>. QED
      BY <1>1, <2>1, <2>2 DEF CleanIsOnDisk
  <1>9. SaveInv'
    BY <1>1 DEF SaveInv
  <1>. QED
    BY <1>7, <1>8, <1>9 DEF IInv

\* So does loading another ROM under an open project.
LEMMA LoadRomStep ==
    ASSUME IInv, NEW r \in Roms, LoadRom(r)
    PROVE IInv'
  <1>1. rom' \in Roms /\ UNCHANGED <<proj, disk, saving>> /\ saving = 0
    BY DEF LoadRom, HostFree
  <1>2. CleanIsOnDisk'
    <2>1. \A f \in Tables : Loaded(f, disk'[f], rom') = Loaded(f, disk[f], rom)
      BY <1>1, TablesIgnoreRom
    <2>. QED
      BY <1>1, <2>1 DEF IInv, CleanIsOnDisk
  <1>3. Shape' /\ SaveInv'
    BY <1>1, Primes DEF IInv, Shape, SaveInv
  <1>. QED
    BY <1>2, <1>3 DEF IInv

-----------------------------------------------------------------------------
(* Saving *)

\* No file is written twice by one save().
LEMMA OrderInjective == \A i, j \in 1 .. 8 : Order[i] = Order[j] => i = j
  BY OrderIs

\* The first three files are always due.
LEMMA AlwaysDue ==
    ASSUME NEW p, NEW i \in 1 .. 3
    PROVE Due(p, i) /\ Order[i] \in Files /\ Order[i] \notin Tables
  BY OrderIs, FilesAre DEF Due

\* save() begins with the manifest, or has nothing to do.
LEMMA SaveBeginsStep ==
    ASSUME IInv, saving = 0, proj.open, SaveBegins, UNCHANGED <<rom, proj, disk>>
    PROVE IInv'
  <1>1. saving' # 0 => saving' = 1 /\ proj.dirty
    BY NextDueIs, AlwaysDue DEF SaveBegins
  <1>2. SaveInv'
    BY <1>1, AlwaysDue, Primes DEF SaveInv
  <1>3. Shape' /\ CleanIsOnDisk'
    BY Primes DEF IInv, Shape, CleanIsOnDisk
  <1>. QED
    BY <1>2, <1>3 DEF IInv

\* save() goes on after the write of f: the bytes are in the file, or were lost
\* without a report.
LEMMA ContinueStep ==
    ASSUME IInv, NEW f, Saving(f), NEW p, Continue(p), rom' = rom,
           ProjectRecord(p), p.open = proj.open, p.mem = proj.mem,
           p.stale = proj.stale \ {f}, proj.lost \ {f} \subseteq p.lost,
           disk' = [disk EXCEPT ![f] = disk'[f]],
           disk'[f] = proj.mem[f] \/ f \in p.lost,
           f = "toml" => disk'[f] \in {Empty, proj.mem[f]},
           f = "labels" => LabelsOK(disk'[f])
    PROVE IInv'
  <1>0. /\ saving \in 1 .. 8 /\ f = Order[saving] /\ f \in Files
        /\ proj.open /\ {"toml", "labels"} \subseteq Files
    <2>1. saving \in 1 .. 8 /\ f = Order[saving] /\ proj.open
      BY DEF Saving, IInv, SaveInv
    <2>. QED
      BY <2>1, OrderIs, FilesAre
  <1>1. /\ ProjectRecord(proj') /\ proj'.open = p.open /\ proj'.mem = p.mem
        /\ proj'.stale = p.stale /\ proj'.lost = p.lost
        /\ proj'.dirty <=> saving' # 0
    BY DEF Continue, ProjectRecord
  <1>2. /\ saving' \in {0} \cup (saving + 1 .. 8)
        /\ saving' # 0 => Due(p, saving')
        /\ \A j \in saving + 1 .. 8 : Due(p, j) => saving' # 0 /\ saving' <= j
    BY <1>0, NextDueIs DEF Continue
  <1>3. /\ disk' = [g \in Files |-> disk'[g]]
        /\ \A g \in Files \ {f} : disk'[g] = disk[g]
    BY <1>0 DEF IInv, Shape
  <1>4. \A i \in 1 .. 3 : i <= saving =>
           Order[i] \in p.lost \/ p.mem[Order[i]] = disk'[Order[i]]
    <2>. TAKE i \in 1 .. 3
    <2>1. CASE i = saving
      BY <1>0, <2>1
    <2>2. CASE i < saving
      <3>1. Order[i] \in Files \ {f}
        BY <1>0, <2>2, AlwaysDue, OrderInjective
      <3>2. Order[i] \in proj.lost \/ proj.mem[Order[i]] = disk[Order[i]]
        BY <2>2, <1>0 DEF IInv, SaveInv
      <3>. QED
        BY <1>3, <3>1, <3>2
    <2>. QED
      BY <1>0, <2>1, <2>2
  <1>5. \A i \in 1 .. 3 : saving' = 0 \/ i < saving' => i <= saving
    BY <1>0, <1>2, AlwaysDue
  <1>6. SaveInv'
    BY <1>0, <1>1, <1>2, <1>4, <1>5, Primes DEF SaveInv, Due
  <1>7. Shape'
    BY <1>0, <1>1, <1>3, Primes DEF IInv, Shape
  <1>8. CleanIsOnDisk'
    <2>1. ASSUME NEW g \in Files \ p.lost
          PROVE /\ g \in Tables \ p.stale => p.mem[g] \in {disk'[g], Loaded(g, disk'[g], rom')}
                /\ g \notin Tables /\ saving' = 0 => p.mem[g] = disk'[g]
                /\ g = "toml" /\ disk'[g] # Empty => p.mem[g] = disk'[g]
      <3>1. CASE g = f
        BY <2>1, <3>1
      <3>2. CASE g # f
        <4>1. g \in Files \ proj.lost /\ disk'[g] = disk[g]
          BY <1>3, <2>1, <3>2
        <4>2. /\ g \in Tables \ proj.stale => proj.mem[g] \in {disk[g], Loaded(g, disk[g], rom)}
              /\ g = "toml" /\ disk[g] # Empty => proj.mem[g] = disk[g]
          BY <1>0, <4>1 DEF IInv, CleanIsOnDisk
        <4>3. g \notin Tables /\ saving' = 0 => p.mem[g] = disk'[g]
          <5>1. g \notin Tables => \E i \in 1 .. 3 : g = Order[i]
            BY FilesAre, OrderIs
          <5>. QED
            BY <1>4, <1>5, <2>1, <5>1
        <4>. QED
          BY <3>2, <4>1, <4>2, <4>3
      <3>. QED
        BY <3>1, <3>2
    <2>. QED
      BY <1>1, <2>1 DEF CleanIsOnDisk
  <1>. QED
    BY <1>6, <1>7, <1>8 DEF IInv

\* A part of the labels is labels.
LEMMA CutLabels ==
    ASSUME NEW table, LabelsOK(table), NEW file \in Cuts(table)
    PROVE LabelsOK(file)
  <1>1. CASE file = Empty
    BY <1>1, EmptyLabels
  <1>2. ASSUME NEW c \in DOMAIN table, file = [k \in {j \in DOMAIN table : j < c} |-> table[k]]
        PROVE LabelsOK(file)
    BY <1>2 DEF LabelsOK
  <1>. QED
    BY <1>1, <1>2 DEF Cuts

\* A cut of the one row of project.toml leaves nothing.
LEMMA CutSha ==
    ASSUME NEW table \in Shas, NEW file \in Cuts(table)
    PROVE file = Empty
  <1>1. PICK r \in Roms : table = <<r>>
    BY DEF Shas
  <1>2. DOMAIN table = {1}
    BY <1>1
  <1>3. ASSUME NEW c \in DOMAIN table, file = [k \in {j \in DOMAIN table : j < c} |-> table[k]]
        PROVE file = Empty
    <2>1. {j \in DOMAIN table : j < c} = {}
      BY <1>2
    <2>2. file = [k \in {} |-> table[k]]
      BY <1>3, <2>1
    <2>. QED
      BY <2>2 DEF Empty
  <1>. QED
    BY <1>3 DEF Cuts

\* The file being written is due.
LEMMA SavingIs ==
    ASSUME IInv, NEW f, Saving(f)
    PROVE /\ saving \in 1 .. 8 /\ f = Order[saving] /\ f \in Files
          /\ proj.open /\ proj.dirty /\ (f \in Tables => f \in proj.stale)
  <1>1. saving \in 1 .. 8 /\ f = Order[saving] /\ proj.open /\ proj.dirty /\ Due(proj, saving)
    BY DEF Saving, IInv, SaveInv
  <1>. QED
    BY <1>1, OrderIs, FilesAre DEF Due

\* A write that reaches the file.
LEMMA WriteStep ==
    ASSUME IInv, NEW f, WriteFile(f)
    PROVE IInv'
  <1>. DEFINE p == [proj EXCEPT !.stale = @ \ {f}, !.lost = @ \ {f}]
  <1>1. Saving(f) /\ Continue(p) /\ rom' = rom /\ disk' = [disk EXCEPT ![f] = proj.mem[f]]
    BY DEF WriteFile
  <1>2. ProjectRecord(proj)
    BY DEF IInv, Shape
  <1>3. p = [k \in {"open", "size", "mem", "dirty", "stale", "lost"} |-> p[k]]
    BY <1>2 DEF ProjectRecord
  <1>4. /\ p.open = proj.open /\ p.mem = proj.mem
        /\ p.stale = proj.stale \ {f} /\ p.lost = proj.lost \ {f}
    BY <1>2 DEF ProjectRecord
  <1>5. ProjectRecord(p)
    BY <1>2, <1>3, <1>4 DEF ProjectRecord
  <1>6. disk'[f] = proj.mem[f] /\ disk' = [disk EXCEPT ![f] = disk'[f]]
    BY <1>1, SavingIs DEF IInv, Shape
  <1>. HIDE DEF p
  <1>. QED
    BY <1>1, <1>4, <1>5, <1>6, ContinueStep DEF IInv, Shape

\* A write that fails when the stream is destroyed.
LEMMA LateStep ==
    ASSUME IInv, NEW f, NEW file \in Cuts(proj.mem[f]), WriteFileFailsLate(f, file)
    PROVE IInv'
  <1>. DEFINE p == [proj EXCEPT !.stale = @ \ {f}, !.lost = @ \cup {f}]
  <1>1. Saving(f) /\ Continue(p) /\ rom' = rom /\ disk' = [disk EXCEPT ![f] = file]
    BY DEF WriteFileFailsLate, WriteFails
  <1>2. ProjectRecord(proj) /\ proj.open
    BY <1>1, SavingIs DEF IInv, Shape
  <1>3. p = [k \in {"open", "size", "mem", "dirty", "stale", "lost"} |-> p[k]]
    BY <1>2 DEF ProjectRecord
  <1>4. /\ p.open = proj.open /\ p.mem = proj.mem
        /\ p.stale = proj.stale \ {f} /\ p.lost = proj.lost \cup {f}
    BY <1>2 DEF ProjectRecord
  <1>5. ProjectRecord(p)
    BY <1>2, <1>3, <1>4 DEF ProjectRecord
  <1>6. disk'[f] = file /\ disk' = [disk EXCEPT ![f] = disk'[f]]
    BY <1>1, SavingIs DEF IInv, Shape
  <1>7. f = "toml" => file = Empty
    BY <1>2, CutSha DEF IInv, Shape
  <1>8. f = "labels" => LabelsOK(file)
    BY CutLabels DEF IInv, Shape
  <1>. HIDE DEF p
  <1>. QED
    BY <1>1, <1>4, <1>5, <1>6, <1>7, <1>8, ContinueStep

\* A write that fails and says so: save() gives up, or goes on past the manifest.
LEMMA FailStep ==
    ASSUME IInv, NEW f, NEW file \in Cuts(proj.mem[f]) \cup {disk[f]}, WriteFileFails(f, file)
    PROVE IInv'
  <1>. DEFINE p == [proj EXCEPT !.lost = @ \cup {f}]
  <1>1. Saving(f) /\ rom' = rom /\ disk' = [disk EXCEPT ![f] = file]
    BY DEF WriteFileFails, WriteFails
  <1>2. ProjectRecord(proj) /\ proj.open /\ f \in Files
    BY <1>1, SavingIs DEF IInv, Shape
  <1>3. /\ disk'[f] = file /\ disk' = [disk EXCEPT ![f] = disk'[f]]
        /\ disk' = [g \in Files |-> disk'[g]] /\ \A g \in Files \ {f} : disk'[g] = disk[g]
    BY <1>1, <1>2 DEF IInv, Shape
  <1>4. f = "toml" => file \in {Empty, disk[f]}
    BY <1>2, CutSha DEF IInv, Shape
  <1>5. f = "labels" => LabelsOK(file)
    BY CutLabels DEF IInv, Shape
  <1>6. CASE f = "manifest"
    <2>1. Continue(p)
      BY <1>6 DEF WriteFileFails
    <2>2. p = [k \in {"open", "size", "mem", "dirty", "stale", "lost"} |-> p[k]]
      BY <1>2 DEF ProjectRecord
    <2>3. /\ p.open = proj.open /\ p.mem = proj.mem
          /\ p.stale = proj.stale /\ p.lost = proj.lost \cup {f}
      BY <1>2 DEF ProjectRecord
    <2>4. proj.stale = proj.stale \ {f}
      BY <1>2, <1>6, FilesAre DEF ProjectRecord
    <2>5. ProjectRecord(p)
      BY <1>2, <2>2, <2>3 DEF ProjectRecord
    <2>. HIDE DEF p
    <2>. QED
      BY <1>1, <1>3, <1>6, <2>1, <2>3, <2>4, <2>5, ContinueStep
  <1>7. CASE f # "manifest"
    <2>1. saving' = 0 /\ proj' = proj
      BY <1>7 DEF WriteFileFails
    <2>2. Shape'
      <3>1. disk'["toml"] \in {Empty} \cup Shas
        BY <1>3, <1>4, FilesAre DEF IInv, Shape
      <3>2. LabelsOK(disk'["labels"])
        BY <1>3, <1>5, FilesAre DEF IInv, Shape
      <3>. QED
        BY <1>1, <1>3, <2>1, <3>1, <3>2, Primes DEF IInv, Shape
    <2>3. CleanIsOnDisk'
      <3>1. ASSUME NEW g \in Files \ proj.lost
            PROVE /\ g \in Tables \ proj.stale => proj.mem[g] \in {disk'[g], Loaded(g, disk'[g], rom')}
                  /\ g \notin Tables /\ ~proj.dirty => proj.mem[g] = disk'[g]
                  /\ g = "toml" /\ disk'[g] # Empty => proj.mem[g] = disk'[g]
        <4>1. /\ g \in Tables \ proj.stale => proj.mem[g] \in {disk[g], Loaded(g, disk[g], rom)}
              /\ g \notin Tables /\ ~proj.dirty => proj.mem[g] = disk[g]
              /\ g = "toml" /\ disk[g] # Empty => proj.mem[g] = disk[g]
          BY <1>2, <3>1 DEF IInv, CleanIsOnDisk
        <4>2. CASE g = f
          BY <1>1, <1>3, <1>4, <4>1, <4>2, SavingIs
        <4>3. CASE g # f
          BY <1>1, <1>3, <4>1, <4>3
        <4>. QED
          BY <4>2, <4>3
      <3>. QED
        BY <2>1, <3>1 DEF CleanIsOnDisk
    <2>4. SaveInv'
      BY <2>1 DEF SaveInv
    <2>. QED
      BY <2>2, <2>3, <2>4 DEF IInv
  <1>. QED
    BY <1>6, <1>7

\* The process dies in a write.
LEMMA CrashStep ==
    ASSUME IInv, Crash
    PROVE IInv'
  <1>1. PICK f \in Files :
           /\ Saving(f)
           /\ \E file \in Cuts(proj.mem[f]) \cup {disk[f]} : disk' = [disk EXCEPT ![f] = file]
    BY DEF Crash
  <1>2. PICK file \in Cuts(proj.mem[f]) \cup {disk[f]} :
           Saving(f) /\ disk' = [disk EXCEPT ![f] = file]
    BY <1>1
  <1>3. /\ disk' = [g \in Files |-> disk'[g]] /\ disk'[f] = file
        /\ \A g \in Files \ {f} : disk'[g] = disk[g]
    BY <1>2 DEF IInv, Shape
  <1>4. proj.open
    BY <1>2, SavingIs
  <1>5. disk'["toml"] \in {Empty} \cup Shas
    BY <1>3, <1>4, CutSha, FilesAre DEF IInv, Shape
  <1>6. LabelsOK(disk'["labels"])
    BY <1>3, CutLabels, FilesAre DEF IInv, Shape
  <1>. QED
    BY <1>3, <1>5, <1>6, CloseStep DEF Crash

-----------------------------------------------------------------------------
(* Theorems *)

\* At first there is no project and no file.
LEMMA InitEstablishes == Init => IInv
  <1>. SUFFICES ASSUME Init PROVE IInv
    OBVIOUS
  <1>1. Shape
    BY ClosedIs, EmptyLabels, FilesAre DEF Init, Shape
  <1>2. SaveInv /\ CleanIsOnDisk
    BY ClosedIs DEF Init, SaveInv, CleanIsOnDisk
  <1>. QED
    BY <1>1, <1>2 DEF IInv

\* Every step preserves the invariant.
LEMMA StepPreserves == IInv /\ [Next]_vars => IInv'
  <1>. SUFFICES ASSUME IInv, [Next]_vars PROVE IInv'
    OBVIOUS
  <1>0. rom \in Roms \cup {NoRom} /\ disk = [f \in Files |-> disk[f]]
        /\ disk["toml"] \in {Empty} \cup Shas /\ LabelsOK(disk["labels"])
    BY DEF IInv, Shape
  <1>1. CASE Emulation \/ UserEdit
    BY <1>1, EditStep
  <1>2. ASSUME NEW r \in Roms, LoadRom(r) PROVE IInv'
    BY <1>2, LoadRomStep
  <1>3. CASE Opens
    BY <1>3, OpenStep, BoundsAssumption DEF Opens
  <1>4. CASE ProjectOpenFails \/ ProjectClose
    BY <1>0, <1>4, CloseStep DEF ProjectOpenFails, ProjectClose, HostFree
  <1>5. CASE Destroy
    BY <1>0, <1>5, CloseStep DEF Destroy, HostFree
  <1>6. CASE ProjectSave
    BY <1>6, SaveBeginsStep DEF ProjectSave, HostFree
  <1>7. ASSUME NEW n, RunFrames(n) PROVE IInv'
    <2>1. CASE SaveBegins
      BY <1>7, <2>1, SaveBeginsStep DEF RunFrames, HostFree
    <2>2. CASE UNCHANGED saving
      BY <1>7, <2>2, Primes DEF RunFrames, HostFree, IInv, Shape, SaveInv, CleanIsOnDisk
    <2>. QED
      BY <1>7, <2>1, <2>2 DEF RunFrames
  <1>8. ASSUME NEW n \in Intervals, SetAutosave(n) PROVE IInv'
    BY <1>8, Primes DEF SetAutosave, HostFree, IInv, Shape, SaveInv, CleanIsOnDisk
  <1>9. CASE SaveStep
    BY <1>9, WriteStep, LateStep, FailStep DEF SaveStep
  <1>10. CASE Crash
    BY <1>10, CrashStep
  <1>11. CASE UNCHANGED vars
    BY <1>11, Primes DEF vars, IInv, Shape, SaveInv, CleanIsOnDisk
  <1>. QED
    BY <1>1, <1>2, <1>3, <1>4, <1>5, <1>6, <1>7, <1>8, <1>9, <1>10, <1>11 DEF Next, Frames

\* The invariant the theorems about projects rest on.
THEOREM Invariant == Spec => []IInv
  <1>. QED
    BY InitEstablishes, StepPreserves, PTL DEF Spec

\* Whatever failed, was retried or crashed before, what the dirty flags call clean is
\* on disk, but for the files that failed without a report.
THEOREM CleanTheorem == Spec => []CleanIsOnDisk
  <1>1. IInv => CleanIsOnDisk
    BY DEF IInv
  <1>. QED
    BY <1>1, Invariant, PTL

\* No event of emulation touches what the user marked.
LEMMA EmulationKeeps ==
    ASSUME Shape, Emulation
    PROVE KeepsMarks(proj, proj') /\ KeepsLabels(proj.mem["labels"], proj'.mem["labels"])
  <1>. USE DEF Changes
  <1>0. ProjectRecord(proj) /\ LabelsOK(proj.mem["labels"])
    BY DEF Shape
  <1>1. ASSUME NEW q, q.mem["labels"] = proj.mem["labels"]
        PROVE KeepsLabels(proj.mem["labels"], q.mem["labels"])
    BY <1>1 DEF KeepsLabels
  <1>2. ASSUME NEW a \in Addrs, Exec(a, 2)
        PROVE KeepsMarks(proj, proj') /\ proj'.mem["labels"] = proj.mem["labels"]
    BY <1>0, <1>2, NoteExecIs DEF Exec
  <1>3. ASSUME NEW a \in Entries, NEW reg \in Regs, Dma(a, 2, reg)
        PROVE KeepsMarks(proj, proj') /\ proj'.mem["labels"] = proj.mem["labels"]
    <2>. DEFINE q == MarkAuto(proj, a, 2, ClassifyByDest(reg))
                r == NoteDmaProvenance(q, a, 2, reg)
    <2>1. OnlyEdits(proj, q) /\ KeepsMarks(proj, q) /\ q.mem["labels"] = proj.mem["labels"]
      BY <1>0, MarkAutoIs
    <2>2. KeepsMarks(q, r) /\ r.mem["labels"] = q.mem["labels"]
      BY <2>1, NoteDmaIs DEF OnlyEdits
    <2>3. proj' = r
      BY <1>3 DEF Dma
    <2>. HIDE DEF q, r
    <2>. QED
      BY <2>1, <2>2, <2>3 DEF KeepsMarks
  <1>4. ASSUME NEW a \in Entries, Read(a)
        PROVE KeepsMarks(proj, proj') /\ proj'.mem["labels"] = proj.mem["labels"]
    BY <1>0, <1>4, MarkAutoIs DEF Read
  <1>5. ASSUME NEW a \in Entries, NEW flag \in Flags, Call(a, flag)
        PROVE KeepsMarks(proj, proj') /\ KeepsLabels(proj.mem["labels"], proj'.mem["labels"])
    BY <1>0, <1>5, RecordFlagsIs DEF Call, KeepsMarks
  <1>6. ASSUME NEW a \in Entries, NEW kind \in Returns, Return(a, a, kind)
        PROVE KeepsMarks(proj, proj') /\ proj'.mem["labels"] = proj.mem["labels"]
    BY <1>0, <1>6, NoteExitIs DEF Return
  <1>. QED
    BY <1>1, <1>2, <1>3, <1>4, <1>5, <1>6 DEF Emulation

\* Nothing the emulated program does changes a byte the user marked, the name of a
\* label or a flag that is known.
THEOREM UserWins == Spec => UserMarksWin
  <1>1. IInv /\ [Next]_vars =>
          [Emulation =>
            /\ \A o \in DOMAIN proj.mem["map"] :
                  proj.mem["map"][o].sticky => proj'.mem["map"][o] = proj.mem["map"][o]
            /\ \A a \in DOMAIN proj.mem["labels"] :
                  /\ a \in DOMAIN proj'.mem["labels"]
                  /\ LET old == proj.mem["labels"][a]
                         new == proj'.mem["labels"][a]
                     IN  new.name = old.name /\ (old.flag >= 0 => new.flag = old.flag)]_vars
    BY EmulationKeeps DEF IInv, KeepsMarks, KeepsLabels
  <1>. QED
    BY <1>1, Invariant, PTL DEF Spec, UserMarksWin

-----------------------------------------------------------------------------
(* Well-formed tables *)

Bookmarks == [name : Names, addr : Entries]

Transfers == [src : Nat, size : Nat, reg : Regs, hits : Nat]

\* One row per transfer.
LogOK(log) ==
    /\ log \in Seq(Transfers)
    /\ \A i, j \in DOMAIN log :
          log[i].src = log[j].src /\ log[i].size = log[j].size /\ log[i].reg = log[j].reg => i = j

\* What TypeOK asks of a table or a file.
TableOK(f, table) ==
    /\ f = "map" => MapOK(table)
    /\ f = "bookmarks" => BookmarksOK(table)
    /\ f = "dma_log" => LogOK(table)

\* A file without rows is well formed.
LEMMA EmptyTable == \A f : TableOK(f, Empty)
  <1>1. DOMAIN Empty = {} /\ Empty \in Seq(Bookmarks) /\ Empty \in Seq(Transfers)
    BY EmptySeq DEF Empty
  <1> QED
    BY <1>1 DEF TableOK, MapOK, BookmarksOK, LogOK, Bookmarks

\* A sequence cut short is a sequence.
LEMMA CutSeq ==
    ASSUME NEW S, NEW seq \in Seq(S), NEW c \in DOMAIN seq,
           NEW cut, cut = [k \in {j \in DOMAIN seq : j < c} |-> seq[k]]
    PROVE  cut \in Seq(S) /\ DOMAIN cut \subseteq DOMAIN seq /\ \A k \in DOMAIN cut : cut[k] = seq[k]
  <1>1. Len(seq) \in Nat /\ DOMAIN seq = 1 .. Len(seq) /\ \A k \in 1 .. Len(seq) : seq[k] \in S
    BY LenProperties, ElementOfSeq
  <1>2. {j \in DOMAIN seq : j < c} = 1 .. c - 1 /\ c - 1 \in Nat
    BY <1>1
  <1>3. cut \in [1 .. c - 1 -> S]
    BY <1>1, <1>2
  <1>4. ASSUME NEW n \in Nat, cut \in [1 .. n -> S] PROVE cut \in Seq(S)
    BY <1>4, SeqDef
  <1>5. cut \in Seq(S)
    BY <1>2, <1>3, <1>4
  <1> QED
    BY <1>5

\* Nor does a cut between two rows break a table.
LEMMA CutTable ==
    ASSUME NEW f, NEW table, TableOK(f, table), NEW file \in Cuts(table)
    PROVE  TableOK(f, file)
  <1>1. CASE file = Empty
    BY <1>1, EmptyTable
  <1>2. ASSUME NEW c \in DOMAIN table, file = [k \in {j \in DOMAIN table : j < c} |-> table[k]]
        PROVE  TableOK(f, file)
    <2>1. f = "map" => MapOK(file)
      BY <1>2 DEF TableOK, MapOK
    <2>2. f = "bookmarks" => BookmarksOK(file)
      <3>1. f = "bookmarks" => /\ table \in Seq(Bookmarks)
                               /\ \A i, j \in DOMAIN table : table[i].name = table[j].name => i = j
        BY DEF TableOK, BookmarksOK, Bookmarks
      <3>2. f = "bookmarks" => /\ file \in Seq(Bookmarks)
                               /\ DOMAIN file \subseteq DOMAIN table
                               /\ \A k \in DOMAIN file : file[k] = table[k]
        BY <1>2, <3>1, CutSeq
      <3> QED
        BY <3>1, <3>2 DEF BookmarksOK, Bookmarks
    <2>3. f = "dma_log" => LogOK(file)
      <3>1. f = "dma_log" => LogOK(table)
        BY DEF TableOK
      <3>2. f = "dma_log" => /\ file \in Seq(Transfers)
                             /\ DOMAIN file \subseteq DOMAIN table
                             /\ \A k \in DOMAIN file : file[k] = table[k]
        BY <1>2, <3>1, CutSeq DEF LogOK
      <3> QED
        BY <3>1, <3>2 DEF LogOK
    <2> QED
      BY <2>1, <2>2, <2>3 DEF TableOK
  <1> QED
    BY <1>1, <1>2 DEF Cuts

\* Erasing an element keeps the others in their order.
LEMMA Erases ==
    ASSUME NEW S, NEW seq \in Seq(S), NEW i \in DOMAIN seq
    PROVE  /\ Erase(seq, i) \in Seq(S)
           /\ Len(Erase(seq, i)) = Len(seq) - 1
           /\ \A k \in 1 .. Len(seq) - 1 :
                 Erase(seq, i)[k] = IF k < i THEN seq[k] ELSE seq[k + 1]
  <1>0. /\ Len(seq) \in Nat /\ DOMAIN seq = 1 .. Len(seq) /\ i \in 1 .. Len(seq)
        /\ \A j \in 1 .. Len(seq) : seq[j] \in S
    BY LenProperties, ElementOfSeq
  <1>1. i - 1 \in Int /\ i + 1 \in Int /\ Len(seq) \in Int /\ 1 \in Int
    BY <1>0
  <1>2. (\A j \in 1 .. i - 1 : seq[j] \in S) /\ (\A j \in i + 1 .. Len(seq) : seq[j] \in S)
    BY <1>0
  <1> DEFINE low == SubSeq(seq, 1, i - 1)
             high == SubSeq(seq, i + 1, Len(seq))
             rest == Erase(seq, i)
  <1>3. /\ low \in Seq(S) /\ Len(low) = IF 1 <= i - 1 THEN (i - 1) - 1 + 1 ELSE 0
        /\ \A k \in 1 .. (i - 1) - 1 + 1 : low[k] = seq[1 + k - 1]
    BY <1>1, <1>2, SubSeqProperties
  <1>4. /\ high \in Seq(S)
        /\ Len(high) = IF i + 1 <= Len(seq) THEN Len(seq) - (i + 1) + 1 ELSE 0
        /\ \A k \in 1 .. Len(seq) - (i + 1) + 1 : high[k] = seq[i + 1 + k - 1]
    BY <1>1, <1>2, SubSeqProperties
  <1>5. rest = low \o high
    BY DEF Erase
  <1> HIDE DEF low, high, rest
  <1>6. /\ rest \in Seq(S) /\ Len(rest) = Len(low) + Len(high)
        /\ \A k \in 1 .. Len(low) + Len(high) :
              rest[k] = IF k <= Len(low) THEN low[k] ELSE high[k - Len(low)]
    BY <1>3, <1>4, <1>5, ConcatProperties
  <1>7. Len(low) = i - 1 /\ Len(high) = Len(seq) - i
    BY <1>0, <1>3, <1>4
  <1>8. ASSUME NEW k \in 1 .. Len(seq) - 1
        PROVE  rest[k] = IF k < i THEN seq[k] ELSE seq[k + 1]
    <2>1. rest[k] = IF k <= Len(low) THEN low[k] ELSE high[k - Len(low)]
      BY <1>0, <1>6, <1>7
    <2>2. CASE k < i
      <3>1. low[k] = seq[1 + k - 1] /\ 1 + k - 1 = k /\ k <= Len(low)
        BY <1>0, <1>3, <1>7, <2>2
      <3> QED
        BY <2>1, <2>2, <3>1
    <2>3. CASE ~(k < i)
      <3>1. k - (i - 1) \in 1 .. Len(seq) - (i + 1) + 1 /\ i + 1 + (k - (i - 1)) - 1 = k + 1
        BY <1>0, <2>3
      <3>2. ~(k <= Len(low)) /\ k - Len(low) = k - (i - 1)
        BY <1>0, <1>7, <2>3
      <3>3. high[k - (i - 1)] = seq[k + 1]
        BY <1>4, <3>1
      <3> QED
        BY <2>1, <2>3, <3>2, <3>3
    <2> QED
      BY <2>2, <2>3
  <1>9. Len(rest) = Len(seq) - 1
    BY <1>0, <1>6, <1>7
  <1>10. rest = Erase(seq, i)
    BY DEF rest
  <1> QED
    BY <1>6, <1>8, <1>9, <1>10

\* Bookmarks but for one.
LEMMA EraseBookmark ==
    ASSUME NEW v, BookmarksOK(v), NEW i \in DOMAIN v
    PROVE  BookmarksOK(Erase(v, i))
  <1>1. /\ v \in Seq(Bookmarks) /\ Len(v) \in Nat /\ DOMAIN v = 1 .. Len(v)
        /\ \A j, k \in DOMAIN v : v[j].name = v[k].name => j = k
    BY LenProperties DEF BookmarksOK, Bookmarks
  <1> DEFINE w == Erase(v, i)
  <1>2. /\ w \in Seq(Bookmarks) /\ Len(w) = Len(v) - 1
        /\ \A k \in 1 .. Len(v) - 1 : w[k] = IF k < i THEN v[k] ELSE v[k + 1]
    <2> HIDE DEF Bookmarks
    <2>1. v \in Seq(Bookmarks)
      BY <1>1
    <2>2. /\ Erase(v, i) \in Seq(Bookmarks) /\ Len(Erase(v, i)) = Len(v) - 1
          /\ \A k \in 1 .. Len(v) - 1 : Erase(v, i)[k] = IF k < i THEN v[k] ELSE v[k + 1]
      BY <2>1, Erases
    <2> QED
      BY <2>2
  <1> HIDE DEF w
  <1>3. DOMAIN w = 1 .. Len(v) - 1
    BY <1>2, LenProperties
  <1>4. ASSUME NEW j \in DOMAIN w, NEW k \in DOMAIN w, w[j].name = w[k].name PROVE j = k
    <2> DEFINE a == IF j < i THEN j ELSE j + 1
               b == IF k < i THEN k ELSE k + 1
    <2>1. w[j] = v[a] /\ w[k] = v[b] /\ a \in DOMAIN v /\ b \in DOMAIN v
      BY <1>1, <1>2, <1>3
    <2>2. a = b
      BY <1>1, <1>4, <2>1
    <2>3. j \in Int /\ k \in Int /\ i \in Int
      BY <1>1, <1>3
    <2> QED
      BY <2>2, <2>3
  <1>5. BookmarksOK(w)
    BY <1>2, <1>4 DEF BookmarksOK, Bookmarks
  <1> QED
    BY <1>5 DEF w

\* Bookmarks with one added or replaced.
LEMMA SetBookmarks ==
    ASSUME NEW v, BookmarksOK(v), NEW name \in Names, NEW a \in Entries,
           NEW b, b = [name |-> name, addr |-> a]
    PROVE  LET held == {i \in DOMAIN v : v[i].name = name}
           IN  BookmarksOK(IF held = {} THEN Append(v, b)
                           ELSE [i \in DOMAIN v |-> IF i \in held THEN b ELSE v[i]])
  <1> DEFINE held == {i \in DOMAIN v : v[i].name = name}
  <1>1. /\ v \in Seq(Bookmarks) /\ Len(v) \in Nat /\ DOMAIN v = 1 .. Len(v)
        /\ \A j, k \in DOMAIN v : v[j].name = v[k].name => j = k
        /\ \A j \in 1 .. Len(v) : v[j] \in Bookmarks
    BY LenProperties, ElementOfSeq DEF BookmarksOK, Bookmarks
  <1>2. b \in Bookmarks /\ b.name = name
    BY DEF Bookmarks
  <1>3. CASE held = {}
    <2> DEFINE w == Append(v, b)
    <2>1. /\ w \in Seq(Bookmarks) /\ Len(w) = Len(v) + 1
          /\ \A i \in 1 .. Len(v) : w[i] = v[i]
          /\ w[Len(v) + 1] = b
      BY <1>1, <1>2, AppendProperties
    <2> HIDE DEF w
    <2>2. DOMAIN w = 1 .. Len(v) + 1
      BY <2>1, LenProperties
    <2>3. ASSUME NEW j \in DOMAIN w, NEW k \in DOMAIN w, w[j].name = w[k].name PROVE j = k
      <3>1. \A i \in 1 .. Len(v) : v[i].name # name
        BY <1>1, <1>3
      <3> QED
        BY <1>1, <1>2, <2>1, <2>2, <2>3, <3>1
    <2>4. BookmarksOK(w)
      BY <2>1, <2>3 DEF BookmarksOK, Bookmarks
    <2> QED
      BY <1>3, <2>4 DEF w
  <1>4. CASE held # {}
    <2> DEFINE w == [i \in DOMAIN v |-> IF i \in held THEN b ELSE v[i]]
    <2>1. w \in [1 .. Len(v) -> Bookmarks]
      BY <1>1, <1>2
    <2>2. w \in Seq(Bookmarks)
      BY <1>1, <2>1, SeqDef
    <2>3. \A i \in DOMAIN v : w[i].name = v[i].name
      BY <1>2
    <2>4. DOMAIN w = DOMAIN v
      OBVIOUS
    <2> HIDE DEF w
    <2>5. BookmarksOK(w)
      BY <1>1, <2>2, <2>3, <2>4 DEF BookmarksOK, Bookmarks
    <2> QED
      BY <1>4, <2>5 DEF w
  <1> QED
    BY <1>3, <1>4

\* A transfer noted in the log.
LEMMA NoteTransfer ==
    ASSUME NEW log, LogOK(log), NEW a \in Nat, NEW len \in Nat, NEW reg \in Regs,
           NEW row, row = [src |-> a, size |-> len, reg |-> reg, hits |-> 1]
    PROVE  LET same == {i \in DOMAIN log : log[i].src = a /\ log[i].size = len /\ log[i].reg = reg}
           IN  LogOK(IF same = {} THEN Append(log, row)
                     ELSE [i \in DOMAIN log |->
                            IF i \in same THEN [log[i] EXCEPT !.hits = @ + 1] ELSE log[i]])
  <1> DEFINE same == {i \in DOMAIN log : log[i].src = a /\ log[i].size = len /\ log[i].reg = reg}
  <1>1. /\ log \in Seq(Transfers) /\ Len(log) \in Nat /\ DOMAIN log = 1 .. Len(log)
        /\ \A i \in 1 .. Len(log) : log[i] \in Transfers
        /\ \A i, j \in DOMAIN log :
              log[i].src = log[j].src /\ log[i].size = log[j].size /\ log[i].reg = log[j].reg => i = j
    BY LenProperties, ElementOfSeq DEF LogOK
  <1>2. row \in Transfers /\ row.src = a /\ row.size = len /\ row.reg = reg
    BY DEF Transfers
  <1>3. CASE same = {}
    <2> DEFINE w == Append(log, row)
    <2>1. /\ w \in Seq(Transfers) /\ Len(w) = Len(log) + 1
          /\ \A i \in 1 .. Len(log) : w[i] = log[i]
          /\ w[Len(log) + 1] = row
      BY <1>1, <1>2, AppendProperties
    <2> HIDE DEF w
    <2>2. DOMAIN w = 1 .. Len(log) + 1
      BY <2>1, LenProperties
    <2>3. ASSUME NEW j \in DOMAIN w, NEW k \in DOMAIN w,
                 w[j].src = w[k].src, w[j].size = w[k].size, w[j].reg = w[k].reg
          PROVE  j = k
      <3>1. \A i \in 1 .. Len(log) : ~(log[i].src = a /\ log[i].size = len /\ log[i].reg = reg)
        BY <1>1, <1>3
      <3> QED
        BY <1>1, <1>2, <2>1, <2>2, <2>3, <3>1
    <2>4. LogOK(w)
      BY <2>1, <2>3 DEF LogOK
    <2> QED
      BY <1>3, <2>4 DEF w
  <1>4. CASE same # {}
    <2> DEFINE w == [i \in DOMAIN log |->
                       IF i \in same THEN [log[i] EXCEPT !.hits = @ + 1] ELSE log[i]]
    <2>1. \A x \in Transfers :
             /\ [x EXCEPT !.hits = @ + 1] \in Transfers
             /\ [x EXCEPT !.hits = @ + 1].src = x.src /\ [x EXCEPT !.hits = @ + 1].size = x.size
             /\ [x EXCEPT !.hits = @ + 1].reg = x.reg
      BY DEF Transfers
    <2>2. \A i \in 1 .. Len(log) :
             /\ w[i] \in Transfers
             /\ w[i].src = log[i].src /\ w[i].size = log[i].size /\ w[i].reg = log[i].reg
      BY <1>1, <2>1
    <2>3. DOMAIN w = 1 .. Len(log) /\ w = [i \in 1 .. Len(log) |-> w[i]]
      BY <1>1
    <2> HIDE DEF w
    <2>4. w \in Seq(Transfers)
      BY <1>1, <2>2, <2>3, SeqDef
    <2>5. LogOK(w)
      BY <1>1, <2>2, <2>3, <2>4 DEF LogOK
    <2> QED
      BY <1>4, <2>5 DEF w
  <1> QED
    BY <1>3, <1>4

\* What open() makes of a well-formed file is well formed.
LEMMA LoadedTable ==
    ASSUME NEW f, NEW file, TableOK(f, file), NEW r
    PROVE  TableOK(f, Loaded(f, file, r))
  <1>1. CASE f = "map"
    <2>1. Loaded(f, file, r) = [o \in 0 .. RomSize[r] - 1 |-> IF o \in DOMAIN file THEN file[o] ELSE Unknown]
      BY <1>1 DEF Loaded
    <2>2. Unknown \in [cls : Classes, sticky : BOOLEAN]
      BY DEF Unknown, Classes
    <2>3. MapOK(file)
      BY <1>1 DEF TableOK
    <2>4. MapOK(Loaded(f, file, r))
      BY <2>1, <2>2, <2>3 DEF MapOK
    <2> QED
      BY <1>1, <2>4 DEF TableOK
  <1>2. CASE f = "bookmarks"
    <2>1. Loaded(f, file, r) = Uncommented(file) /\ BookmarksOK(file)
      BY <1>2 DEF Loaded, TableOK
    <2>2. BookmarksOK(Uncommented(file))
      BY <2>1, EraseBookmark DEF Uncommented
    <2> QED
      BY <1>2, <2>1, <2>2 DEF TableOK
  <1>3. CASE f = "dma_log"
    BY <1>3 DEF Loaded, TableOK
  <1>4. CASE f \notin {"map", "bookmarks", "dma_log"}
    BY <1>4 DEF TableOK
  <1> QED
    BY <1>1, <1>2, <1>3, <1>4

-----------------------------------------------------------------------------
(* Types *)

\* A well-formed project.
WellFormed(p) ==
    /\ ProjectRecord(p)
    /\ p.open \in BOOLEAN /\ p.dirty \in BOOLEAN /\ p.lost \subseteq Files
    /\ p.stale # {} => p.dirty
    /\ DOMAIN p.mem["map"] = 0 .. p.size - 1
    /\ \A f \in Files : TableOK(f, p.mem[f])

\* While save() runs, the tables it is through with are clean.
PassedInv == \A j \in 1 .. 8 : saving # 0 /\ j < saving => Order[j] \notin proj.stale

CountsOK ==
    /\ auto \in [every : Intervals, since : Nat]
    /\ io \in [loads : 0 .. LoadBound, edits : 0 .. EditBound, faults : 0 .. FaultBound]

WellInv ==
    /\ WellFormed(proj)
    /\ \A f \in Files : TableOK(f, disk[f])
    /\ PassedInv
    /\ CountsOK

\* A table replaced by a well-formed one.
LEMMA WellEdited ==
    ASSUME NEW p, WellFormed(p), NEW f \in Files, NEW table, TableOK(f, table),
           f = "map" => DOMAIN table = DOMAIN p.mem["map"]
    PROVE  WellFormed(Edited(p, f, table))
  <1> DEFINE q == Edited(p, f, table)
  <1>1. /\ ProjectRecord(q) /\ q.mem[f] = table /\ \A g \in Files \ {f} : q.mem[g] = p.mem[g]
        /\ q.stale = p.stale \cup ({f} \cap Tables)
        /\ q.open = p.open /\ q.size = p.size /\ q.lost = p.lost
    BY EditedIs DEF WellFormed
  <1>2. q.dirty = TRUE
    BY DEF Edited, WellFormed, ProjectRecord
  <1>3. "map" \in Files
    BY FilesAre
  <1> HIDE DEF q
  <1>4. DOMAIN q.mem["map"] = 0 .. q.size - 1
    BY <1>1, <1>3 DEF WellFormed
  <1>5. \A g \in Files : TableOK(g, q.mem[g])
    BY <1>1 DEF WellFormed
  <1>6. WellFormed(q)
    BY <1>1, <1>2, <1>4, <1>5 DEF WellFormed
  <1> QED
    BY <1>6 DEF q

\* Tables TypeOK asks nothing of.
LEMMA OtherTable ==
    ASSUME NEW p, WellFormed(p), NEW f \in {"functions", "breakpoints", "labels"}, NEW table
    PROVE  WellFormed(Edited(p, f, table))
  <1>1. f \in Files /\ TableOK(f, table) /\ f # "map"
    BY FilesAre DEF TableOK
  <1> QED
    BY <1>1, WellEdited

\* The map with some of its bytes classified.
LEMMA WellMarked ==
    ASSUME NEW p, WellFormed(p), NEW map, DOMAIN map = DOMAIN p.mem["map"],
           \A o \in DOMAIN map : map[o] \in [cls : Classes, sticky : BOOLEAN]
    PROVE  WellFormed(Marked(p, map))
  <1>1. TableOK("map", map) /\ "map" \in Files
    BY FilesAre DEF TableOK, MapOK
  <1>2. WellFormed(Edited(p, "map", map))
    BY <1>1, WellEdited
  <1> QED
    BY <1>2 DEF Marked

\* Classifying bytes keeps a project well formed, whoever does it.
LEMMA WellClassified ==
    ASSUME NEW p, WellFormed(p), NEW a, NEW len, NEW cls \in Classes
    PROVE  WellFormed(MarkAuto(p, a, len, cls)) /\ WellFormed(MarkUser(p, a, len, cls))
  <1>1. \A o \in DOMAIN p.mem["map"] : p.mem["map"][o] \in [cls : Classes, sticky : BOOLEAN]
    BY FilesAre DEF WellFormed, TableOK, MapOK
  <1>2. /\ [cls |-> cls, sticky |-> FALSE] \in [cls : Classes, sticky : BOOLEAN]
        /\ [cls |-> cls, sticky |-> cls # "unknown"] \in [cls : Classes, sticky : BOOLEAN]
    OBVIOUS
  <1> DEFINE auto1 == [o \in DOMAIN p.mem["map"] |->
                        IF o \in Span(a, len) /\ ~p.mem["map"][o].sticky
                        THEN [cls |-> cls, sticky |-> FALSE] ELSE p.mem["map"][o]]
             user1 == [o \in DOMAIN p.mem["map"] |->
                        IF o \in Span(a, len)
                        THEN [cls |-> cls, sticky |-> cls # "unknown"] ELSE p.mem["map"][o]]
  <1>3. /\ DOMAIN auto1 = DOMAIN p.mem["map"]
        /\ \A o \in DOMAIN auto1 : auto1[o] \in [cls : Classes, sticky : BOOLEAN]
    BY <1>1, <1>2
  <1>4. /\ DOMAIN user1 = DOMAIN p.mem["map"]
        /\ \A o \in DOMAIN user1 : user1[o] \in [cls : Classes, sticky : BOOLEAN]
    BY <1>1, <1>2
  <1>5. MarkAuto(p, a, len, cls) = Marked(p, auto1) /\ MarkUser(p, a, len, cls) = Marked(p, user1)
    BY DEF MarkAuto, MarkUser
  <1> HIDE DEF auto1, user1
  <1>6. WellFormed(Marked(p, auto1))
    BY <1>3, WellMarked
  <1>7. WellFormed(Marked(p, user1))
    BY <1>4, WellMarked
  <1> QED
    BY <1>5, <1>6, <1>7

\* Emulation keeps the open project well formed.
LEMMA WellEmulation ==
    ASSUME WellFormed(proj), Emulation
    PROVE  WellFormed(proj')
  <1> USE DEF Changes
  <1>0. "code" \in Classes /\ "operand" \in Classes /\ "data" \in Classes
        /\ \A reg : ClassifyByDest(reg) \in Classes
    BY DEF Classes, ClassifyByDest
  <1>1. ASSUME NEW a \in Addrs, Exec(a, 2) PROVE WellFormed(proj')
    <2> DEFINE q == MarkAuto(proj, a, 1, "code")
    <2>1. WellFormed(q)
      BY <1>0, WellClassified
    <2> HIDE DEF q
    <2>2. WellFormed(MarkAuto(q, a + 1, 2 - 1, "operand"))
      BY <1>0, <2>1, WellClassified
    <2> QED
      BY <1>1, <2>2 DEF Exec, NoteExec, q
  <1>2. ASSUME NEW a \in Entries, NEW reg \in Regs, Dma(a, 2, reg) PROVE WellFormed(proj')
    <2> DEFINE q == MarkAuto(proj, a, 2, ClassifyByDest(reg))
               row == [src |-> a, size |-> 2, reg |-> reg, hits |-> 1]
    <2>1. WellFormed(q)
      BY <1>0, WellClassified
    <2>2. proj' = NoteDmaProvenance(q, a, 2, reg)
      BY <1>2 DEF Dma
    <2> HIDE DEF q
    <2> DEFINE log == q.mem["dma_log"]
               same == {i \in DOMAIN log : log[i].src = a /\ log[i].size = 2 /\ log[i].reg = reg}
               table == IF same = {} THEN Append(log, row)
                        ELSE [i \in DOMAIN log |->
                               IF i \in same THEN [log[i] EXCEPT !.hits = @ + 1] ELSE log[i]]
    <2>3. LogOK(log) /\ a \in Nat /\ "dma_log" \in Files
      BY <2>1, FilesAre, AddrsAssumption DEF WellFormed, TableOK
    <2>4. proj' = Edited(q, "dma_log", table)
      BY <2>2 DEF NoteDmaProvenance
    <2>5. LogOK(table)
      <3> HIDE DEF log
      <3> QED
        BY <2>3, NoteTransfer
    <2> HIDE DEF table
    <2>6. TableOK("dma_log", table)
      BY <2>5 DEF TableOK
    <2> QED
      BY <2>1, <2>3, <2>4, <2>6, WellEdited
  <1>3. ASSUME NEW a \in Entries, Read(a) PROVE WellFormed(proj')
    BY <1>0, <1>3, WellClassified DEF Read
  <1>4. ASSUME NEW a \in Entries, NEW flag \in Flags, Call(a, flag) PROVE WellFormed(proj')
    <2>1. proj' = proj \/ \E table : proj' = Edited(proj, "labels", table)
      BY <1>4 DEF Call, RecordEntryFlags
    <2> QED
      BY <2>1, OtherTable
  <1>5. ASSUME NEW a \in Entries, NEW kind \in Returns, Return(a, a, kind) PROVE WellFormed(proj')
    <2>1. \E table : proj' = Edited(proj, "functions", table)
      BY <1>5 DEF Return, NoteFunctionExit
    <2> QED
      BY <2>1, OtherTable
  <1> QED
    BY <1>1, <1>2, <1>3, <1>4, <1>5 DEF Emulation

\* So does the user.
LEMMA WellUserEdit ==
    ASSUME WellFormed(proj), UserEdit
    PROVE  WellFormed(proj')
  <1> USE DEF Changes
  <1> DEFINE v == proj.mem["bookmarks"]
  <1>0. BookmarksOK(v) /\ "bookmarks" \in Files
    BY FilesAre DEF WellFormed, TableOK
  <1>1. ASSUME NEW table, BookmarksOK(table) PROVE WellFormed(Edited(proj, "bookmarks", table))
    BY <1>0, <1>1, WellEdited DEF TableOK
  <1>2. ASSUME NEW a \in Entries, NEW cls \in {"unknown", "code"}, Changes(MarkUser(proj, a, 1, cls))
        PROVE  WellFormed(proj')
    <2>1. cls \in Classes
      BY DEF Classes
    <2> QED
      BY <1>2, <2>1, WellClassified
  <1>3. ASSUME NEW a \in Entries, Changes(SetLabel(proj, a, 0)) PROVE WellFormed(proj')
    BY <1>3, OtherTable DEF SetLabel
  <1>4. ASSUME NEW a \in Entries, NEW name \in Names, Changes(SetBookmark(proj, name, a))
        PROVE  WellFormed(proj')
    <2> DEFINE b == [name |-> name, addr |-> a]
               held == {i \in DOMAIN v : v[i].name = name}
               table == IF held = {} THEN Append(v, b)
                        ELSE [i \in DOMAIN v |-> IF i \in held THEN b ELSE v[i]]
    <2>1. proj' = Edited(proj, "bookmarks", table)
      BY <1>4 DEF SetBookmark, Holding
    <2>2. BookmarksOK(table)
      <3> HIDE DEF v
      <3> QED
        BY <1>0, SetBookmarks
    <2> HIDE DEF table
    <2> QED
      BY <1>1, <2>1, <2>2
  <1>5. ASSUME NEW a \in Entries, Changes(ClearLabel(proj, a)) PROVE WellFormed(proj')
    BY <1>5, OtherTable DEF ClearLabel
  <1>6. ASSUME NEW a \in Entries, Changes(AddBreakpoint(proj, a)) PROVE WellFormed(proj')
    BY <1>6, OtherTable DEF AddBreakpoint
  <1>7. ASSUME NEW name \in Names, Changes(ClearBookmark(proj, name)) PROVE WellFormed(proj')
    <2> DEFINE i == CHOOSE i \in Holding(proj, name) : TRUE
    <2>1. CASE Holding(proj, name) = {}
      BY <1>7, <2>1 DEF ClearBookmark
    <2>2. CASE Holding(proj, name) # {}
      <3>1. i \in DOMAIN v
        BY <2>2 DEF Holding
      <3>2. proj' = Edited(proj, "bookmarks", Erase(v, i))
        BY <1>7, <2>2 DEF ClearBookmark
      <3> HIDE DEF i, v
      <3>3. BookmarksOK(Erase(v, i))
        BY <1>0, <3>1, EraseBookmark
      <3> QED
        BY <1>1, <3>2, <3>3
    <2> QED
      BY <2>1, <2>2
  <1>8. ASSUME NEW i, Changes(RemoveBreakpoint(proj, i)) PROVE WellFormed(proj')
    BY <1>8, OtherTable DEF RemoveBreakpoint
  <1>9. ASSUME Changes(ClearBreakpoints(proj)) PROVE WellFormed(proj')
    BY <1>9, OtherTable DEF ClearBreakpoints
  <1> HIDE DEF Changes
  <1> QED
    BY <1>2, <1>3, <1>4, <1>5, <1>6, <1>7, <1>8, <1>9 DEF UserEdit

\* No project is well formed.
LEMMA WellClosed == WellFormed(Closed) /\ Closed.stale = {}
  <1>1. /\ Closed.open = FALSE /\ Closed.dirty = FALSE /\ Closed.lost = {} /\ Closed.stale = {}
        /\ Closed.size = 0 /\ Closed.mem = [f \in Files |-> Empty]
    BY DEF Closed
  <1>2. DOMAIN Closed.mem["map"] = 0 .. Closed.size - 1
    <2>1. Closed.mem["map"] = Empty /\ DOMAIN Empty = {} /\ 0 .. 0 - 1 = {}
      BY <1>1, FilesAre DEF Empty
    <2> QED
      BY <1>1, <2>1
  <1>3. \A f \in Files : TableOK(f, Closed.mem[f])
    BY <1>1, EmptyTable
  <1> QED
    BY <1>1, <1>2, <1>3, ClosedIs DEF WellFormed

\* What the parts of the invariant say of the next state.
LEMMA WellPrimes ==
    /\ WellFormed(proj)' <=> WellFormed(proj')
    /\ \A f \in Files : TableOK(f, disk[f])' <=> TableOK(f, disk'[f])
  BY DEF WellFormed, ProjectRecord, TableOK, MapOK, BookmarksOK, LogOK, Transfers

\* Dropping the project.
LEMMA WellCloseStep ==
    ASSUME WellInv, proj' = Closed, saving' = 0, CountsOK',
           \A f \in Files : TableOK(f, disk'[f])
    PROVE  WellInv'
  BY WellClosed, WellPrimes DEF WellInv, PassedInv

\* Steps that leave the project and the directory alone, outside of save().
LEMMA WellOutside ==
    ASSUME WellInv, UNCHANGED <<proj, disk>>, saving' \in {0, 1}, CountsOK'
    PROVE  WellInv'
  BY WellPrimes DEF WellInv, PassedInv

\* Edits.
LEMMA WellEditStep ==
    ASSUME IInv, WellInv, Emulation \/ UserEdit
    PROVE  WellInv'
  <1>1. WellFormed(proj') /\ saving' = 0 /\ disk' = disk
    BY WellEmulation, WellUserEdit, ChangesAreEdits DEF WellInv, IInv, Shape
  <1>2. CountsOK'
    <2>1. /\ auto' = auto /\ io.edits < EditBound /\ io' = [io EXCEPT !.edits = @ + 1]
      BY DEF Emulation, UserEdit, Exec, Read, Dma, Call, Return, Changes
    <2>2. io.edits + 1 \in 0 .. EditBound
      BY <2>1, BoundsAssumption DEF WellInv, CountsOK
    <2> QED
      BY <2>1, <2>2 DEF WellInv, CountsOK
  <1> QED
    BY <1>1, <1>2, WellPrimes DEF WellInv, PassedInv

\* open().
LEMMA WellOpenStep ==
    ASSUME IInv, WellInv, NEW unread \in SUBSET Files, IsFiniteSet(unread), ProjectOpen(unread)
    PROVE  WellInv'
  <1> DEFINE read == [f \in Files |-> IF f \in unread THEN Empty ELSE disk[f]]
  <1>1. /\ rom \in Roms /\ saving' = 0 /\ disk' = disk
        /\ proj'.open = TRUE /\ proj'.dirty = TRUE /\ proj'.stale = {} /\ proj'.lost = unread
        /\ proj'.size = RomSize[rom]
        /\ proj'.mem = [f \in Files |-> Loaded(f, IF f \in unread THEN Empty ELSE disk[f], rom)]
    BY DEF ProjectOpen, HostFree, IInv, Shape
  <1>2. proj' = [k \in {"open", "size", "mem", "dirty", "stale", "lost"} |-> proj'[k]]
    BY DEF ProjectOpen
  <1>3. ProjectRecord(proj')
    BY <1>1, <1>2 DEF ProjectRecord
  <1>4. \A f \in Files : TableOK(f, proj'.mem[f])
    <2>1. \A f \in Files : TableOK(f, read[f])
      BY EmptyTable DEF WellInv
    <2>2. \A f \in Files : proj'.mem[f] = Loaded(f, read[f], rom)
      BY <1>1
    <2> HIDE DEF read
    <2> QED
      BY <2>1, <2>2, LoadedTable
  <1>5. DOMAIN proj'.mem["map"] = 0 .. proj'.size - 1
    <2>1. \A file : DOMAIN Loaded("map", file, rom) = 0 .. RomSize[rom] - 1
      BY DEF Loaded
    <2> QED
      BY <1>1, <2>1, FilesAre
  <1>6. WellFormed(proj')
    BY <1>1, <1>3, <1>4, <1>5 DEF WellFormed
  <1>7. CountsOK'
    <2>1. /\ auto' = [auto EXCEPT !.since = 0] /\ io' = [io EXCEPT !.faults = @ + Cardinality(unread)]
          /\ io.faults + Cardinality(unread) <= FaultBound /\ Cardinality(unread) \in Nat
      BY FS_CardinalityType DEF ProjectOpen
    <2>2. io.faults + Cardinality(unread) \in 0 .. FaultBound
      BY <2>1, BoundsAssumption DEF WellInv, CountsOK
    <2> QED
      BY <2>1, <2>2 DEF WellInv, CountsOK
  <1> QED
    BY <1>1, <1>6, <1>7, WellPrimes DEF WellInv, PassedInv

\* A file cut short or kept, in place of the table of f.
LEMMA WellFile ==
    ASSUME WellInv, IInv, NEW f \in Files, NEW file \in Cuts(proj.mem[f]) \cup {disk[f], proj.mem[f]},
           disk' = [disk EXCEPT ![f] = file]
    PROVE  \A g \in Files : TableOK(g, disk'[g])
  <1>1. TableOK(f, file)
    BY CutTable DEF WellInv, WellFormed
  <1>2. disk'[f] = file /\ \A g \in Files \ {f} : disk'[g] = disk[g]
    BY DEF IInv, Shape
  <1> QED
    BY <1>1, <1>2 DEF WellInv

\* save() goes on after the write of f.
LEMMA WellContinueStep ==
    ASSUME IInv, WellInv, NEW f, Saving(f), NEW p, Continue(p), ProjectRecord(p),
           p.open = proj.open, p.size = proj.size, p.mem = proj.mem,
           p.stale = proj.stale \ {f}, p.lost \subseteq Files,
           CountsOK', \A g \in Files : TableOK(g, disk'[g])
    PROVE  WellInv'
  <1>0. saving \in 1 .. 8 /\ saving + 1 \in 1 .. 9 /\ f = Order[saving]
    BY SavingIs
  <1>1. /\ ProjectRecord(proj') /\ proj'.open = p.open /\ proj'.size = p.size /\ proj'.mem = p.mem
        /\ proj'.stale = p.stale /\ proj'.lost = p.lost
        /\ proj'.dirty = (saving' # 0)
    BY DEF Continue, ProjectRecord
  <1>2. saving' = NextDue(p, saving + 1)
    BY DEF Continue
  <1>3. /\ saving' \in {0} \cup (saving + 1 .. 8)
        /\ \A j \in saving + 1 .. 8 : Due(p, j) => saving' # 0 /\ saving' <= j
    BY <1>0, <1>2, NextDueIs
  <1>4. ASSUME NEW j \in 1 .. 8, saving' = 0 \/ j < saving' PROVE Order[j] \notin p.stale
    <2>1. CASE j < saving
      BY <1>0, <2>1 DEF WellInv, PassedInv
    <2>2. CASE j = saving
      BY <1>0, <2>2
    <2>3. CASE j > saving
      <3>1. j \in saving + 1 .. 8
        BY <1>0, <2>3
      <3>2. ~Due(p, j)
        BY <1>0, <1>3, <1>4, <3>1
      <3> QED
        BY <3>2 DEF Due
    <2> QED
      BY <1>0, <2>1, <2>2, <2>3
  <1>5. proj'.stale # {} => saving' # 0
    <2>1. \A g \in Tables : \E j \in 1 .. 8 : g = Order[j]
      BY FilesAre, OrderIs
    <2> QED
      BY <1>1, <1>4, <2>1 DEF ProjectRecord
  <1>6. WellFormed(proj')
    BY <1>1, <1>5 DEF WellFormed, WellInv
  <1>7. PassedInv'
    BY <1>1, <1>4 DEF PassedInv
  <1> QED
    BY <1>6, <1>7, WellPrimes DEF WellInv

\* One file of save(), written or failed.
LEMMA WellSaveStep ==
    ASSUME IInv, WellInv, SaveStep
    PROVE  WellInv'
  <1>0. ProjectRecord(proj) /\ proj.lost \subseteq Files
    BY DEF WellInv, WellFormed
  <1>1. ASSUME NEW f \in Files, NEW p, p \in {[proj EXCEPT !.stale = @ \ {f}, !.lost = @ \ {f}],
                                              [proj EXCEPT !.stale = @ \ {f}, !.lost = @ \cup {f}]}
        PROVE  /\ ProjectRecord(p) /\ p.open = proj.open /\ p.size = proj.size /\ p.mem = proj.mem
               /\ p.stale = proj.stale \ {f} /\ p.lost \subseteq Files
    <2>1. p = [k \in {"open", "size", "mem", "dirty", "stale", "lost"} |-> p[k]]
      <3>1. CASE p = [proj EXCEPT !.stale = @ \ {f}, !.lost = @ \ {f}]
        BY <1>0, <3>1 DEF ProjectRecord
      <3>2. CASE p = [proj EXCEPT !.stale = @ \ {f}, !.lost = @ \cup {f}]
        BY <1>0, <3>2 DEF ProjectRecord
      <3> QED
        BY <1>1, <3>1, <3>2
    <2>2. /\ p.open = proj.open /\ p.size = proj.size /\ p.mem = proj.mem
          /\ p.stale = proj.stale \ {f} /\ p.lost \subseteq Files
      <3>1. CASE p = [proj EXCEPT !.stale = @ \ {f}, !.lost = @ \ {f}]
        BY <1>0, <3>1 DEF ProjectRecord
      <3>2. CASE p = [proj EXCEPT !.stale = @ \ {f}, !.lost = @ \cup {f}]
        BY <1>0, <3>2 DEF ProjectRecord
      <3> QED
        BY <1>1, <3>1, <3>2
    <2> QED
      BY <1>0, <2>1, <2>2 DEF ProjectRecord
  <1>2. ASSUME NEW f \in Files, WriteFile(f) PROVE WellInv'
    <2> DEFINE p == [proj EXCEPT !.stale = @ \ {f}, !.lost = @ \ {f}]
    <2>1. /\ Saving(f) /\ Continue(p) /\ disk' = [disk EXCEPT ![f] = proj.mem[f]]
          /\ UNCHANGED <<auto, io>>
      BY <1>2 DEF WriteFile
    <2>2. CountsOK'
      BY <2>1 DEF WellInv, CountsOK
    <2>3. \A g \in Files : TableOK(g, disk'[g])
      BY <2>1, WellFile
    <2>4. /\ ProjectRecord(p) /\ p.open = proj.open /\ p.size = proj.size /\ p.mem = proj.mem
          /\ p.stale = proj.stale \ {f} /\ p.lost \subseteq Files
      BY <1>1
    <2> HIDE DEF p
    <2> QED
      BY <2>1, <2>2, <2>3, <2>4, WellContinueStep
  <1>3. ASSUME NEW f, NEW file, WriteFails(f, file) PROVE CountsOK'
    <2>1. io.faults < FaultBound /\ io' = [io EXCEPT !.faults = @ + 1] /\ auto' = auto
      BY <1>3 DEF WriteFails
    <2>2. io.faults + 1 \in 0 .. FaultBound
      BY <2>1, BoundsAssumption DEF WellInv, CountsOK
    <2> QED
      BY <2>1, <2>2 DEF WellInv, CountsOK
  <1>4. ASSUME NEW f \in Files, NEW file \in Cuts(proj.mem[f]), WriteFileFailsLate(f, file)
        PROVE  WellInv'
    <2> DEFINE p == [proj EXCEPT !.stale = @ \ {f}, !.lost = @ \cup {f}]
    <2>1. Saving(f) /\ Continue(p) /\ disk' = [disk EXCEPT ![f] = file] /\ WriteFails(f, file)
      BY <1>4 DEF WriteFileFailsLate, WriteFails
    <2>2. CountsOK'
      BY <1>3, <2>1
    <2>3. \A g \in Files : TableOK(g, disk'[g])
      BY <2>1, WellFile
    <2>4. /\ ProjectRecord(p) /\ p.open = proj.open /\ p.size = proj.size /\ p.mem = proj.mem
          /\ p.stale = proj.stale \ {f} /\ p.lost \subseteq Files
      BY <1>1
    <2> HIDE DEF p
    <2> QED
      BY <2>1, <2>2, <2>3, <2>4, WellContinueStep
  <1>5. ASSUME NEW f \in Files, NEW file \in Cuts(proj.mem[f]) \cup {disk[f]}, WriteFileFails(f, file)
        PROVE  WellInv'
    <2>1. Saving(f) /\ disk' = [disk EXCEPT ![f] = file] /\ WriteFails(f, file)
      BY <1>5 DEF WriteFileFails, WriteFails
    <2>2. CountsOK'
      BY <1>3, <2>1
    <2>3. \A g \in Files : TableOK(g, disk'[g])
      BY <2>1, WellFile
    <2>4. CASE f = "manifest"
      <3> DEFINE p == [proj EXCEPT !.lost = @ \cup {f}]
      <3>1. Continue(p)
        BY <1>5, <2>4 DEF WriteFileFails
      <3>2. p = [k \in {"open", "size", "mem", "dirty", "stale", "lost"} |-> p[k]]
        BY <1>0 DEF ProjectRecord
      <3>3. /\ p.open = proj.open /\ p.size = proj.size /\ p.mem = proj.mem
            /\ p.stale = proj.stale /\ p.lost \subseteq Files
        BY <1>0 DEF ProjectRecord
      <3>4. proj.stale = proj.stale \ {f}
        BY <1>0, <2>4, FilesAre DEF ProjectRecord
      <3>5. ProjectRecord(p)
        BY <1>0, <3>2, <3>3 DEF ProjectRecord
      <3> HIDE DEF p
      <3> QED
        BY <2>1, <2>2, <2>3, <3>1, <3>3, <3>4, <3>5, WellContinueStep
    <2>5. CASE f # "manifest"
      <3>1. saving' = 0 /\ proj' = proj
        BY <1>5, <2>5 DEF WriteFileFails
      <3>2. WellFormed(proj')
        BY <3>1 DEF WellInv
      <3> QED
        BY <2>2, <2>3, <3>1, <3>2, WellPrimes DEF WellInv, PassedInv
    <2> QED
      BY <2>4, <2>5
  <1> QED
    BY <1>2, <1>4, <1>5 DEF SaveStep

\* The process dies.
LEMMA WellCrashStep ==
    ASSUME IInv, WellInv, Crash
    PROVE  WellInv'
  <1>1. PICK f \in Files : \E file \in Cuts(proj.mem[f]) \cup {disk[f]} :
                              disk' = [disk EXCEPT ![f] = file]
    BY DEF Crash
  <1>2. \A g \in Files : TableOK(g, disk'[g])
    BY <1>1, WellFile
  <1>3. DefaultInterval \in Intervals
    BY BoundsAssumption DEF DefaultInterval
  <1>4. CountsOK'
    <2>1. /\ io.faults < FaultBound /\ io' = [io EXCEPT !.faults = @ + 1]
          /\ auto' = [every |-> DefaultInterval, since |-> 0]
      BY DEF Crash
    <2>2. io.faults + 1 \in 0 .. FaultBound
      BY <2>1, BoundsAssumption DEF WellInv, CountsOK
    <2> QED
      BY <1>3, <2>1, <2>2 DEF WellInv, CountsOK
  <1> QED
    BY <1>2, <1>4, WellCloseStep DEF Crash

\* At first everything is well formed.
LEMMA WellInit == Init => WellInv
  <1> SUFFICES ASSUME Init PROVE WellInv
    OBVIOUS
  <1>1. DefaultInterval \in Intervals
    BY BoundsAssumption DEF DefaultInterval
  <1>2. CountsOK
    BY <1>1, BoundsAssumption DEF Init, CountsOK
  <1>3. WellFormed(proj) /\ \A f \in Files : TableOK(f, disk[f])
    BY WellClosed, EmptyTable DEF Init
  <1>4. PassedInv
    BY DEF Init, PassedInv
  <1> QED
    BY <1>2, <1>3, <1>4 DEF WellInv

\* And stays so.
LEMMA WellStep == IInv /\ WellInv /\ [Next]_vars => WellInv'
  <1> SUFFICES ASSUME IInv, WellInv, [Next]_vars PROVE WellInv'
    OBVIOUS
  <1>0. /\ \A f \in Files : TableOK(f, disk[f])
        /\ auto \in [every : Intervals, since : Nat]
        /\ io \in [loads : 0 .. LoadBound, edits : 0 .. EditBound, faults : 0 .. FaultBound]
    BY DEF WellInv, CountsOK
  <1>1. CASE Emulation \/ UserEdit
    BY <1>1, WellEditStep
  <1>2. ASSUME NEW r \in Roms, LoadRom(r) PROVE WellInv'
    <2>1. io.loads + 1 \in 0 .. LoadBound
      BY <1>0, <1>2, BoundsAssumption DEF LoadRom
    <2>2. CountsOK'
      BY <1>0, <1>2, <2>1 DEF LoadRom, CountsOK
    <2> QED
      BY <1>2, <2>2, WellOutside DEF LoadRom, HostFree
  <1>3. CASE Opens
    <2>1. PICK unread \in SUBSET Files : IsFiniteSet(unread) /\ ProjectOpen(unread)
      BY <1>3, BoundsAssumption, FS_EmptySet, FS_Singleton DEF Opens
    <2> QED
      BY <2>1, WellOpenStep
  <1>4. CASE ProjectOpenFails \/ ProjectClose \/ Destroy
    <2>1. proj' = Closed /\ saving' = 0 /\ disk' = disk /\ io' = io
      BY <1>4 DEF ProjectOpenFails, ProjectClose, Destroy, HostFree
    <2>2. auto' \in {auto, [auto EXCEPT !.since = 0]}
      BY <1>4 DEF ProjectOpenFails, ProjectClose, Destroy
    <2>3. CountsOK'
      BY <1>0, <2>1, <2>2 DEF CountsOK
    <2> QED
      BY <1>0, <2>1, <2>3, WellCloseStep
  <1>5. ASSUME SaveBegins PROVE saving' \in {0, 1}
    BY <1>5, NextDueIs, AlwaysDue DEF SaveBegins
  <1>6. CASE ProjectSave
    <2>1. CountsOK'
      BY <1>0, <1>6 DEF ProjectSave, CountsOK
    <2> QED
      BY <1>5, <1>6, <2>1, WellOutside DEF ProjectSave
  <1>7. ASSUME NEW n \in 1 .. 2, RunFrames(n) PROVE WellInv'
    <2>1. auto.since + n \in Nat
      BY <1>0
    <2>2. auto' \in {[auto EXCEPT !.since = 0], [auto EXCEPT !.since = auto.since + n]}
          /\ io' = io /\ UNCHANGED <<proj, disk>> /\ saving' \in {0, 1}
      BY <1>5, <1>7 DEF RunFrames, HostFree
    <2>3. CountsOK'
      BY <1>0, <2>1, <2>2 DEF CountsOK
    <2> QED
      BY <2>2, <2>3, WellOutside
  <1>8. ASSUME NEW n \in Intervals, SetAutosave(n) PROVE WellInv'
    <2>1. CountsOK'
      BY <1>0, <1>8 DEF SetAutosave, CountsOK
    <2> QED
      BY <1>8, <2>1, WellOutside DEF SetAutosave, HostFree
  <1>9. CASE SaveStep
    BY <1>9, WellSaveStep
  <1>10. CASE Crash
    BY <1>10, WellCrashStep
  <1>11. CASE UNCHANGED vars
    BY <1>11, WellPrimes DEF vars, WellInv, PassedInv, CountsOK
  <1> QED
    BY <1>1, <1>2, <1>3, <1>4, <1>6, <1>7, <1>8, <1>9, <1>10, <1>11 DEF Next, Frames

\* The project is well formed: a map as long as the ROM it was opened with, one
\* bookmark per name, one DMA row per transfer, dirty tables only in a dirty project.
THEOREM TypeCorrect == Spec => []TypeOK
  <1>1. IInv /\ WellInv => TypeOK
    <2> SUFFICES ASSUME IInv, WellInv PROVE TypeOK
      OBVIOUS
    <2>1. /\ MapOK(proj.mem["map"]) /\ MapOK(disk["map"])
          /\ BookmarksOK(proj.mem["bookmarks"]) /\ BookmarksOK(disk["bookmarks"])
          /\ LogOK(proj.mem["dma_log"])
      BY FilesAre DEF WellInv, WellFormed, TableOK
    <2>2. \A i, j \in DOMAIN proj.mem["dma_log"] :
             LET log == proj.mem["dma_log"]
             IN  [log[i] EXCEPT !.hits = 0] = [log[j] EXCEPT !.hits = 0] => i = j
      <3> DEFINE log == proj.mem["dma_log"]
      <3>1. \A x, y \in Transfers : [x EXCEPT !.hits = 0] = [y EXCEPT !.hits = 0] =>
               x.src = y.src /\ x.size = y.size /\ x.reg = y.reg
        <4>1. ASSUME NEW x \in Transfers PROVE
                 /\ [x EXCEPT !.hits = 0].src = x.src /\ [x EXCEPT !.hits = 0].size = x.size
                 /\ [x EXCEPT !.hits = 0].reg = x.reg
          BY DEF Transfers
        <4> QED
          BY <4>1
      <3>2. \A i \in DOMAIN log : log[i] \in Transfers
        BY <2>1, LenProperties, ElementOfSeq DEF LogOK
      <3> QED
        BY <2>1, <3>1, <3>2 DEF LogOK
    <2>3. /\ proj.open \in BOOLEAN /\ proj.dirty \in BOOLEAN
          /\ proj.stale \subseteq Tables /\ proj.lost \subseteq Files
          /\ proj.stale # {} => proj.dirty
          /\ DOMAIN proj.mem["map"] = 0 .. proj.size - 1
      BY DEF WellInv, WellFormed, ProjectRecord
    <2>4. rom \in Roms \cup {NoRom} /\ saving \in 0 .. 8 /\ (saving # 0 => proj.open /\ proj.dirty)
      BY DEF IInv, Shape, SaveInv
    <2>5. auto.every \in Intervals /\ auto.since \in Nat
          /\ io \in [loads : 0 .. LoadBound, edits : 0 .. EditBound, faults : 0 .. FaultBound]
      BY DEF WellInv, CountsOK
    <2> QED
      BY <2>1, <2>2, <2>3, <2>4, <2>5, OrderIs DEF TypeOK
  <1>2. Init /\ [][Next]_vars /\ []IInv => []WellInv
    BY WellInit, WellStep, PTL
  <1> QED
    BY <1>1, <1>2, Invariant, PTL DEF Spec
=============================================================================
