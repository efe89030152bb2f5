---------------------------- MODULE HookRegistry ----------------------------
(***************************************************************************)
(* Who hears of an instruction, a read or a write of the emulated machine: *)
(* the callbacks and read overrides hosts register, their page counts, the *)
(* hooks of the core that are armed for them, and the project, profiler,   *)
(* tracer and PPU write log that share those hooks (libkintsuki.cpp).      *)
(*                                                                         *)
(* A kind is "exec", "read", "write" (of the CPU), "override", or "spc",   *)
(* which stands for the three kinds of the SPC700: same code, no other     *)
(* user of the hook.  A callback runs host code, which may call the        *)
(* library back: while one runs, the host's actions are its.               *)
(***************************************************************************)
EXTENDS Integers, Sequences, FiniteSets, Functions

CONSTANTS
    Kinds,          \* the kinds in use
    Addrs,          \* addresses
    PageSize,       \* addresses in a page (256)
    Ranges,         \* <<lo, hi>> ranges hosts ask for
    PageCap,        \* the largest page count (255)
    Lines,          \* length of the trace line of each address
    RingCap,        \* capacity of the tracer's ring
    HostBound       \* bound: callbacks registered since the last destroy, with
                    \* the other users of the hooks at the time

AllKinds == {"exec", "read", "write", "override", "spc"}
Users == {"project", "profile", "tracer", "ppu"}

ASSUME KindsAssumption == Kinds \subseteq AllKinds
ASSUME AddrsAssumption == Addrs \subseteq Nat /\ Ranges \subseteq Addrs \X Addrs
ASSUME SizesAssumption ==
    /\ PageSize \in Nat \ {0} /\ PageCap \in Nat \ {0} /\ RingCap \in Nat \ {0}
    /\ Lines \in [Addrs -> Nat \ {0}]
    /\ HostBound \in Nat

VARIABLES
    regs,     \* callbacks of each kind in order of registration: range, active
    pages,    \* page counts of each kind
    clamped,  \* pages whose count was clamped since the last destroy
    hook,     \* kinds whose hook of the core is armed
    users,    \* project, profile, tracer, ppu log: the ones that are on
    orphans,  \* the ones a destroy left on
    ring,     \* the tracer's ring: bytes, next position, bytes held
    log,      \* the newest bytes traced since the last start or drain
    firing    \* the dispatch in progress

vars == <<regs, pages, clamped, hook, users, orphans, ring, log, firing>>

Page(a) == a \div PageSize
PageSet == {Page(a) : a \in Addrs}

\* kind: what is dispatched, "none" if nothing is; at: the callback that runs;
\* last: end of the loop; copy: what the loop still sees of a list that moved;
\* due: callbacks that have to run; won: an override answered.
NotFiring ==
    [kind |-> "none", addr |-> 0, at |-> 0, last |-> 0, copy |-> <<>>, moved |-> FALSE,
     due |-> {}, won |-> FALSE]

Idle == firing.kind = "none"
\* Host code runs: between two dispatches, or inside a callback.
HostRuns == Idle \/ firing.at # 0

-----------------------------------------------------------------------------
(* Registering *)

Spans(range) == {p \in PageSet : Page(range[1]) <= p /\ p <= Page(range[2])}
Covers(range, a) == range[1] <= a /\ a <= range[2]

\* Fault: counts are not kept within a byte.
ClampLow(n) == IF n < 0 THEN 0 ELSE n

Clamp(n) == IF n < 0 THEN 0 ELSE IF n > PageCap THEN PageCap ELSE n

\* Fault: the page of the last address is not counted.
MarkPagesShort(counts, range, delta) ==
    [p \in PageSet |->
        IF p \in Spans(range) /\ p # Page(range[2]) THEN Clamp(counts[p] + delta) ELSE counts[p]]

MarkPages(counts, range, delta) ==
    [p \in PageSet |->
        IF p \in Spans(range) THEN Clamp(counts[p] + delta) ELSE counts[p]]

Clamping(counts, range, delta) ==
    {p \in Spans(range) : Clamp(counts[p] + delta) # counts[p] + delta}

Marks(k, range, delta) ==
    /\ pages' = [pages EXCEPT ![k] = MarkPages(@, range, delta)]
    /\ clamped' = [clamped EXCEPT ![k] = @ \cup Clamping(pages[k], range, delta)]

Active(k) == {i \in DOMAIN regs[k] : regs[k][i].active}
Registered == FoldFunction(LAMBDA s, n : Len(s) + n, 0, regs)

\* push_back() inside the loop over the same list: if the vector moves, which
\* its capacity decides, the loop goes on over the memory it left behind.
Moves(k) ==
    \/ UNCHANGED firing
    \/ /\ firing.kind = k /\ k # "override" /\ ~firing.moved
       /\ firing' = [firing EXCEPT !.moved = TRUE, !.copy = regs[k]]

AddCallback(k, range) ==
    /\ HostRuns
    /\ Registered + Cardinality(users) < HostBound
    /\ regs' = [regs EXCEPT ![k] = Append(@, [range |-> range, active |-> TRUE])]
    /\ Marks(k, range, 1)
    /\ hook' = hook \cup {k}
    /\ Moves(k)
    /\ UNCHANGED <<users, orphans, ring, log>>

\* Fault: the last exec callback takes the hook from an open project.
NeededForgetful(k, on) == k = "exec" /\ "profile" \in on

\* Who besides callbacks keeps a hook armed when the last callback goes.
Needed(k, on) ==
    \/ k = "exec" /\ {"project", "profile"} \cap on # {}
    \/ k = "read" /\ "project" \in on

\* An override that is already inactive changes nothing; a callback still
\* disarms the hook if no other is active.
RemoveCallback(k, i) ==
    /\ HostRuns
    /\ i \in DOMAIN regs[k]
    /\ k = "override" => i \in Active(k)
    /\ regs' = [regs EXCEPT ![k][i].active = FALSE]
    /\ IF i \in Active(k) THEN Marks(k, regs[k][i].range, -1)
                          ELSE UNCHANGED <<pages, clamped>>
    /\ hook' = IF Active(k) \subseteq {i} /\ ~Needed(k, users) THEN hook \ {k} ELSE hook
    /\ firing' = IF firing.kind = k THEN [firing EXCEPT !.due = @ \ {i}] ELSE firing
    /\ UNCHANGED <<users, orphans, ring, log>>

-----------------------------------------------------------------------------
(* The other users of the hooks *)

Turns(u, on) ==
    /\ HostRuns
    /\ users' = IF on THEN users \cup {u} ELSE users \ {u}
    /\ orphans' = orphans \ {u}
    /\ UNCHANGED <<regs, pages, clamped, firing>>

TurnsOn(u) == Registered + Cardinality(users \cup {u}) <= HostBound /\ Turns(u, TRUE)

ProjectOpen ==
    /\ TurnsOn("project")
    /\ hook' = hook \cup {"exec", "read"}
    /\ UNCHANGED <<ring, log>>

ProjectClose == Turns("project", FALSE) /\ UNCHANGED <<hook, ring, log>>

ProfileStart ==
    /\ TurnsOn("profile")
    /\ hook' = hook \cup {"exec"}
    /\ UNCHANGED <<ring, log>>

ProfileStop ==
    /\ Turns("profile", FALSE)
    /\ hook' = IF Active("exec") = {} /\ "project" \notin users THEN hook \ {"exec"} ELSE hook
    /\ UNCHANGED <<ring, log>>

EmptyRing == [data |-> [i \in 0 .. RingCap - 1 |-> <<0, 0>>], head |-> 0, size |-> 0]

TracerStart ==
    /\ TurnsOn("tracer")
    /\ hook' = hook \cup {"exec"}
    /\ ring' = EmptyRing /\ log' = <<>>

TracerStop ==
    /\ Turns("tracer", FALSE)
    /\ ring' = EmptyRing /\ log' = <<>>
    /\ UNCHANGED hook

\* Draining copies what is held, oldest first, and empties the ring.  Hosts ask
\* for the size first: without a ring the library divides by zero.
TracerDrain ==
    /\ HostRuns /\ "tracer" \in users
    /\ ring' = [ring EXCEPT !.head = 0, !.size = 0]
    /\ log' = <<>>
    /\ UNCHANGED <<regs, pages, clamped, hook, users, orphans, firing>>

PpuWritesStart ==
    /\ TurnsOn("ppu")
    /\ hook' = hook \cup {"write"}
    /\ UNCHANGED <<ring, log>>

PpuWritesStop ==
    /\ Turns("ppu", FALSE)
    /\ hook' = IF Active("write") = {} THEN hook \ {"write"} ELSE hook \cup {"write"}
    /\ UNCHANGED <<ring, log>>

\* destroy and create: the profiler, the tracer and the PPU log stay on without
\* a hook, and read overrides lose their list but not their hook.
Destroy ==
    /\ Idle
    /\ regs' = [k \in AllKinds |-> <<>>]
    /\ pages' = [k \in AllKinds |-> [p \in PageSet |-> 0]]
    /\ clamped' = [k \in AllKinds |-> {}]
    /\ hook' = hook \cap {"override"}
    /\ users' = users \ {"project"}
    /\ orphans' = users \ {"project"}
    /\ UNCHANGED <<ring, log, firing>>

-----------------------------------------------------------------------------
(* The machine runs *)

Newest(s, n) == SubSeq(s, IF Len(s) > n THEN Len(s) - n + 1 ELSE 1, Len(s))

\* Fault: a ring that overflows drops one byte, however long the line.
OverflowOne(n, size) == IF size + n > RingCap THEN 1 ELSE 0

\* Bytes the ring loses to a chunk of n.
Overflow(n, size) == IF size + n > RingCap THEN size + n - RingCap ELSE 0

\* tracerAppendBytes(): only the tail of a chunk longer than the ring counts.
RingPut(r, line) ==
    LET fits == IF Len(line) >= RingCap THEN [r EXCEPT !.head = 0, !.size = 0] ELSE r
        s    == Newest(line, RingCap)
        at(i) == (fits.head + i - 1) % RingCap
    IN  [data |-> [j \in DOMAIN r.data |->
                    IF \E i \in DOMAIN s : at(i) = j
                    THEN s[CHOOSE i \in DOMAIN s : at(i) = j] ELSE r.data[j]],
         head |-> (fits.head + Len(s)) % RingCap,
         size |-> fits.size - Overflow(Len(s), fits.size) + Len(s)]

RingContents(r) ==
    [i \in 1 .. r.size |-> r.data[(r.head + RingCap - r.size + i - 1) % RingCap]]

\* The trace line of address a; its bytes tell the lines and places apart.
LineOf(a) == [i \in 1 .. Lines[a] |-> <<a, i>>]

\* cOnExec() traces before it calls.
Traces(k, a) ==
    IF k = "exec" /\ "tracer" \in users
    THEN ring' = RingPut(ring, LineOf(a)) /\ log' = Newest(log \o LineOf(a), RingCap)
    ELSE UNCHANGED <<ring, log>>

\* The core reaches address a: with the hook armed and its page counted, the
\* callbacks of the kind are gone through.
Access(k, a) ==
    /\ Idle
    /\ k \in hook
    /\ Traces(k, a)
    /\ firing' = IF pages[k][Page(a)] = 0 THEN firing
                 ELSE [NotFiring EXCEPT !.kind = k, !.addr = a, !.last = Len(regs[k]),
                         !.due = {i \in Active(k) : Covers(regs[k][i].range, a)}]
    /\ UNCHANGED <<regs, pages, clamped, hook, users, orphans>>

\* What the loop of the dispatch in progress sees, and where it ends: overrides
\* are gone through by index, up to the present size.
Seen == IF firing.moved THEN firing.copy ELSE regs[firing.kind]
End == IF firing.kind = "override" THEN Len(Seen) ELSE firing.last

\* Fault: the loop asks for the range and not whether the callback is active.
MatchingAnyway == {i \in firing.at + 1 .. End : Covers(Seen[i].range, firing.addr)}

Matching ==
    {i \in firing.at + 1 .. End : Seen[i].active /\ Covers(Seen[i].range, firing.addr)}

\* The next callback is called.
Fire(i) ==
    /\ ~Idle /\ ~firing.won
    /\ i \in Matching /\ \A j \in Matching : i <= j
    /\ firing' = [firing EXCEPT !.at = i, !.due = @ \ {i}]
    /\ UNCHANGED <<regs, pages, clamped, hook, users, orphans, ring, log>>

\* An override returns a byte: no other one is asked.
Answer ==
    /\ firing.kind = "override" /\ firing.at # 0 /\ ~firing.won
    /\ firing' = [firing EXCEPT !.won = TRUE]
    /\ UNCHANGED <<regs, pages, clamped, hook, users, orphans, ring, log>>

FireEnds ==
    /\ ~Idle
    /\ firing.won \/ Matching = {}
    /\ firing' = NotFiring
    /\ UNCHANGED <<regs, pages, clamped, hook, users, orphans, ring, log>>

-----------------------------------------------------------------------------

Init ==
    /\ regs = [k \in AllKinds |-> <<>>]
    /\ pages = [k \in AllKinds |-> [p \in PageSet |-> 0]]
    /\ clamped = [k \in AllKinds |-> {}]
    /\ hook = {} /\ users = {} /\ orphans = {}
    /\ ring = EmptyRing /\ log = <<>>
    /\ firing = NotFiring

Next ==
    \/ \E k \in Kinds : \/ \E range \in Ranges : AddCallback(k, range)
                        \/ \E i \in 1 .. HostBound : RemoveCallback(k, i)
                        \/ \E a \in Addrs : Access(k, a)
    \/ ProjectOpen \/ ProjectClose \/ ProfileStart \/ ProfileStop
    \/ TracerStart \/ TracerStop \/ TracerDrain \/ PpuWritesStart \/ PpuWritesStop
    \/ Destroy
    \/ \E i \in 1 .. HostBound : Fire(i)
    \/ Answer \/ FireEnds

Spec == Init /\ [][Next]_vars

-----------------------------------------------------------------------------
(* Properties *)

Callback == [range : Ranges, active : BOOLEAN]

\* Lists, counts, hooks and the dispatch in progress have their types; only the
\* loop over a list that moved may see callbacks the registry no longer has as
\* they are, and a page is counted by no more callbacks than there are.
TypeOK ==
    /\ \A k \in AllKinds :
        /\ regs[k] \in Seq(Callback) /\ clamped[k] \subseteq PageSet
        /\ pages[k] \in [PageSet -> 0 .. PageCap]
        /\ \A p \in PageSet : pages[k][p] <= Cardinality(Active(k))
    /\ hook \subseteq AllKinds /\ orphans \subseteq users /\ users \subseteq Users
    /\ ring.head \in 0 .. RingCap - 1 /\ ring.size \in 0 .. RingCap
    /\ firing.kind \in AllKinds \cup {"none"} /\ firing.at \in 0 .. HostBound
    /\ ~Idle => /\ firing.due \subseteq Active(firing.kind)
                /\ firing.moved => \A i \in DOMAIN firing.copy : i \in DOMAIN regs[firing.kind]

\* Nothing that was asked for goes unheard: an active callback has its hook
\* armed and its pages counted once for each active callback on them, however
\* callbacks, projects and profiles came and went; an open project has its two
\* hooks and a profile the exec hook, until a destroy leaves the profile behind.
\* Pages whose count was clamped are exempt: those counts are too low.
Reachable ==
    /\ \A k \in AllKinds :
        /\ Active(k) # {} => k \in hook
        /\ \A p \in PageSet \ clamped[k] :
            pages[k][p] = Cardinality({i \in Active(k) : p \in Spans(regs[k][i].range)})
    /\ "project" \in users => {"exec", "read"} \subseteq hook
    /\ "profile" \in users \ orphans => "exec" \in hook

\* A dispatch calls each callback that was active and covered the address when
\* it began and was not removed before its turn, and calls no callback that is
\* not active then, whatever the callbacks before it register or remove.  An
\* override that answers ends it.  The loop over a list that moved is exempt.
DispatchIsComplete ==
    [][~Idle /\ ~firing.moved =>
        /\ firing'.kind = "none" /\ ~firing.won => firing.due = {}
        /\ firing'.kind # "none" /\ firing'.at # firing.at =>
                regs[firing.kind][firing'.at].active]_vars

\* What the tracer's ring gives back is the newest bytes traced since the last
\* start or drain, oldest first, whatever the lines' lengths and wherever the
\* ring wraps.
TraceKeepsNewest == RingContents(ring) = log

=============================================================================
