------------------------------ MODULE Roadmaps ------------------------------
(***************************************************************************)
(* Roadmaps (src/domain/roadmaps/operations.ts): a draft is a chain of     *)
(* milestones that are added, reordered, removed and re-pointed; a         *)
(* finalized one has a task per milestone and keeps its structure until it *)
(* is reopened.                                                            *)
(*                                                                         *)
(* An operation runs in a gate transaction at READ COMMITTED: it checks    *)
(* that the roadmap is a draft and reads the milestones, and then writes   *)
(* rows by id; other transactions commit in between, and nothing locks the *)
(* roadmap.  The reads are one action here and the writes with the commit  *)
(* another.  A write that the unique index on the sequence or a foreign    *)
(* key refuses is not taken: the operation fails.                          *)
(*                                                                         *)
(* Titles, owners, target dates, progress and archiving are left out.      *)
(***************************************************************************)
EXTENDS Naturals, FiniteSets, Functions

CONSTANTS
    Roadmaps,    \* ids of roadmaps rows
    Milestones,  \* ids of roadmap_milestones rows
    Origins,     \* catalog items: a program, or a requirement of a tier
    Editors,     \* operations in flight that read and then write
    MaxSeeds,    \* bound: how many milestones a new roadmap has
    Bump,        \* what moves sequences out of the way (10000)
    None         \* no row, no predecessor, no catalog item

VARIABLES
    roadmap,    \* the status of each roadmap
    milestone,  \* the roadmap_milestones table
    spawned,    \* milestones with a tasks row (source_ref roadmap:milestone)
    op,         \* what each operation in flight has read
    crossed     \* ghost: roadmaps on which two operations have overlapped

vars == <<roadmap, milestone, spawned, op, crossed>>

-----------------------------------------------------------------------------

\* task: task_id is set.
Row == [roadmap: Roadmaps, seq: Nat, dep: Milestones \cup {None},
        origin: Origins \cup {None}, task: BOOLEAN]

\* What the constants satisfy.
ConstantsOK ==
    /\ None \notin Milestones \cup Origins
    /\ {MaxSeeds, Bump} \subseteq Nat
    /\ IsFiniteSet(Milestones \cup Origins)
    /\ None \notin Row

\* The new sequence of each milestone that was read; 0: it was not read.
Places == [Milestones -> Nat]

Idle == [kind |-> "idle"]

Op == {Idle}
      \cup [kind: {"append"}, roadmap: Roadmaps, last: Milestones \cup {None},
            tail: Nat, fresh: SUBSET Origins]
      \cup [kind: {"reorder"}, roadmap: Roadmaps, place: Places]
      \cup [kind: {"remove"}, roadmap: Roadmaps, target: Milestones, place: Places,
            heir: Milestones \cup {None}, dependents: SUBSET Milestones]
      \cup [kind: {"depend"}, roadmap: Roadmaps, target: Milestones,
            pred: Milestones \cup {None}]
      \cup [kind: {"finalize"}, roadmap: Roadmaps, listed: SUBSET Milestones]

TypeOK ==
    /\ roadmap \in [Roadmaps -> {"absent", "draft", "finalized"}]
    /\ milestone \in [Milestones -> Row \cup {None}]
    /\ spawned \subseteq Milestones
    /\ op \in [Editors -> Op]
    /\ crossed \subseteq Roadmaps

Init ==
    /\ roadmap = [r \in Roadmaps |-> "absent"]
    /\ milestone = [m \in Milestones |-> None]
    /\ spawned = {}
    /\ op = [e \in Editors |-> Idle]
    /\ crossed = {}

-----------------------------------------------------------------------------

Rows == {m \in Milestones : milestone[m] # None}

Of(r) == {m \in Rows : milestone[m].roadmap = r}

\* The milestones that come after all others: at most one.
Tails(r) == {m \in Of(r) : \A x \in Of(r) : milestone[x].seq <= milestone[m].seq}

Last(r) == IF Of(r) = {} THEN None ELSE CHOOSE m \in Tails(r) : TRUE

Tail(r) == IF Of(r) = {} THEN 0 ELSE milestone[Last(r)].seq

Present(r) == {milestone[m].origin : m \in Of(r)}

\* Where a milestone comes among some others.
Rank(m, S) == Cardinality({x \in S : milestone[x].seq <= milestone[m].seq})

\* wouldCreateCycle: walking back from p reaches m.
WouldCreateCycle(m, p) ==
    LET cursor[n \in 0..Cardinality(Milestones)] ==
            IF n = 0 THEN p
            ELSE IF cursor[n - 1] \notin Rows THEN None
            ELSE milestone[cursor[n - 1]].dep
    IN  \E n \in DOMAIN cursor : cursor[n] = m

Placed(place) == {m \in Milestones : place[m] # 0}

\* The rows an operation in flight knows.
Refs(o) ==
    CASE o.kind = "append"   -> {o.last}
      [] o.kind = "reorder"  -> Placed(o.place)
      [] o.kind = "remove"   -> {o.target, o.heir} \cup o.dependents \cup Placed(o.place)
      [] o.kind = "depend"   -> {o.target, o.pred}
      [] o.kind = "finalize" -> o.listed
      [] OTHER               -> {}

\* An id that no row, task or operation knows is as good as a new one.
Free == (Milestones \ (Rows \cup spawned)) \ UNION {Refs(op[e]) : e \in Editors}

\* New ids for some rows: which ones makes no difference.
New(S) == CHOOSE ids \in Injection(S, Free) : TRUE

\* insertMilestones: a chain of new rows behind a predecessor.
Chained(r, ids, origins, pred, tail) ==
    [m \in Milestones |->
        IF \E i \in DOMAIN ids : ids[i] = m
        THEN LET i == CHOOSE j \in DOMAIN ids : ids[j] = m
             IN  [roadmap |-> r, seq |-> tail + i, origin |-> origins[i], task |-> FALSE,
                  dep |-> IF i = 1 THEN pred ELSE ids[i - 1]]
        ELSE milestone[m]]

Begin(e, o) ==
    /\ op[e] = Idle
    /\ op' = [op EXCEPT ![e] = o]
    /\ crossed' = IF \E d \in Editors : op[d] # Idle /\ op[d].roadmap = o.roadmap
                  THEN crossed \cup {o.roadmap} ELSE crossed
    /\ UNCHANGED <<roadmap, milestone, spawned>>

End(e) == op' = [op EXCEPT ![e] = Idle] /\ UNCHANGED crossed

-----------------------------------------------------------------------------
(* Whole roadmaps *)

\* createRoadmapOp, createComposedRoadmapOp: milestones of their own or of
\* catalog items, each item once.
Create(r, origins) ==
    /\ roadmap[r] = "absent"
    /\ \A i, j \in DOMAIN origins : origins[i] = origins[j] => i = j \/ origins[i] = None
    /\ roadmap' = [roadmap EXCEPT ![r] = "draft"]
    /\ Injection(DOMAIN origins, Free) # {}
    /\ milestone' = Chained(r, New(DOMAIN origins), origins, None, 0)
    /\ UNCHANGED <<spawned, op, crossed>>

\* duplicateRoadmapOp: a draft with the same milestones, re-mapped, no tasks.
Duplicate(s, r) ==
    /\ roadmap[s] # "absent"
    /\ roadmap[r] = "absent"
    /\ roadmap' = [roadmap EXCEPT ![r] = "draft"]
    /\ Injection(Of(s), Free) # {}
    /\ LET copy == New(Of(s))
       IN  milestone' = [m \in Milestones |->
              IF \E x \in Of(s) : copy[x] = m
              THEN LET x == CHOOSE y \in Of(s) : copy[y] = m
                       d == milestone[x].dep
                   IN  [milestone[x] EXCEPT !.roadmap = r, !.task = FALSE,
                           !.dep = IF d \in Of(s) THEN copy[d] ELSE None]
              ELSE milestone[m]]
    /\ crossed' = IF s \in crossed THEN crossed \cup {r} ELSE crossed
    /\ UNCHANGED <<spawned, op>>

\* finalizeRoadmapOp: the guarded update locks the roadmap, the milestones are
\* listed; each gets a task unless it has had one.
ReadFinalize(e, r) ==
    /\ roadmap[r] = "draft"
    /\ \A d \in Editors : op[d].kind = "finalize" => op[d].roadmap # r
    /\ Begin(e, [kind |-> "finalize", roadmap |-> r, listed |-> Of(r)])

\* Variant: a roadmap that was finalized before gets no more tasks.
FinalizeOnce(e) ==
    LET known == op[e].listed \cap spawned # {}
    IN  /\ op[e].kind = "finalize"
        /\ roadmap' = [roadmap EXCEPT ![op[e].roadmap] = "finalized"]
        /\ milestone' = [m \in Milestones |->
              IF m \in op[e].listed /\ ~known THEN [milestone[m] EXCEPT !.task = TRUE]
              ELSE milestone[m]]
        /\ spawned' = IF known THEN spawned ELSE spawned \cup op[e].listed
        /\ End(e)

WriteFinalize(e) ==
    /\ op[e].kind = "finalize"
    /\ roadmap' = [roadmap EXCEPT ![op[e].roadmap] = "finalized"]
    /\ milestone' = [m \in Milestones |->
          IF m \in Rows \cap (op[e].listed \ spawned)
          THEN [milestone[m] EXCEPT !.task = TRUE] ELSE milestone[m]]
    /\ spawned' = spawned \cup op[e].listed
    /\ End(e)

\* reopenRoadmapOp: one guarded update.
Reopen(r) ==
    /\ roadmap[r] = "finalized"
    /\ roadmap' = [roadmap EXCEPT ![r] = "draft"]
    /\ UNCHANGED <<milestone, spawned, op, crossed>>

-----------------------------------------------------------------------------
(* Milestones of a draft *)

\* addMilestoneOp (S empty) and recomposeRoadmapOp (the catalog items S that
\* the roadmap does not have yet): new milestones behind the last one.
ReadAppend(e, r, S) ==
    LET fresh == S \ Present(r)
    IN  /\ roadmap[r] = "draft"
        /\ S = {} \/ fresh # {}
        /\ Begin(e, [kind |-> "append", roadmap |-> r, last |-> Last(r),
                     tail |-> Tail(r), fresh |-> fresh])

Seeds(fresh) ==
    IF fresh = {} THEN {[i \in {1} |-> None]} ELSE Bijection(1..Cardinality(fresh), fresh)

WriteAppend(e) ==
    LET o == op[e]
    IN  /\ o.kind = "append"
        /\ o.last \in Rows \cup {None}
        /\ \E origins \in Seeds(o.fresh) :
              /\ \A i \in DOMAIN origins : \A x \in Of(o.roadmap) :
                     milestone[x].seq # o.tail + i
              /\ Injection(DOMAIN origins, Free) # {}
              /\ milestone' = Chained(o.roadmap, New(DOMAIN origins), origins, o.last, o.tail)
        /\ End(e)
        /\ UNCHANGED <<roadmap, spawned>>

\* A row's sequence after the re-sequencing of the rows that were read.
Moved(m, place) ==
    IF place[m] # 0 THEN place[m] ELSE milestone[m].seq + Bump

\* reorderMilestonesOp: the new order is one of the milestones that were read;
\* the repair clears the dependencies it has inverted.
ReadReorder(e, r, order) ==
    /\ roadmap[r] = "draft"
    /\ Begin(e, [kind |-> "reorder", roadmap |-> r,
                 place |-> [m \in Milestones |-> IF m \in Of(r) THEN order[m] ELSE 0]])

Inverted(m, place) ==
    LET d == milestone[m].dep
    IN  d # None => d \notin Of(milestone[m].roadmap) \/ Moved(d, place) >= Moved(m, place)

WriteReorder(e) ==
    LET o == op[e]
    IN  /\ o.kind = "reorder"
        /\ milestone' = [m \in Milestones |->
              IF m \in Of(o.roadmap)
              THEN [milestone[m] EXCEPT !.seq = Moved(m, o.place),
                       !.dep = IF Inverted(m, o.place) THEN None ELSE @]
              ELSE milestone[m]]
        /\ End(e)
        /\ UNCHANGED <<roadmap, spawned>>

\* Variant: from a finalized roadmap, too.
RemoveAnytime(e, m) ==
    LET r == milestone[m].roadmap
        rest == Of(r) \ {m}
    IN  /\ m \in Rows
        /\ rest # {}
        /\ Begin(e, [kind |-> "remove", roadmap |-> r, target |-> m,
                     heir |-> milestone[m].dep,
                     dependents |-> {x \in rest : milestone[x].dep = m},
                     place |-> [x \in Milestones |->
                                 IF x \in rest THEN Rank(x, rest) ELSE 0]])

\* removeMilestoneOp: its dependents are re-pointed at its predecessor, the
\* others are re-sequenced; a dependent that was not read loses the link.
ReadRemove(e, m) ==
    LET r == milestone[m].roadmap
        rest == Of(r) \ {m}
    IN  /\ m \in Rows
        /\ roadmap[r] = "draft"
        /\ rest # {}
        /\ Begin(e, [kind |-> "remove", roadmap |-> r, target |-> m,
                     heir |-> milestone[m].dep,
                     dependents |-> {x \in rest : milestone[x].dep = m},
                     place |-> [x \in Milestones |->
                                 IF x \in rest THEN Rank(x, rest) ELSE 0]])

Healed(m, o) ==
    CASE m \in o.dependents -> o.heir
      [] m \notin o.dependents /\ milestone[m].dep = o.target -> None
      [] OTHER -> milestone[m].dep

WriteRemove(e) ==
    LET o == op[e]
    IN  /\ o.kind = "remove"
        /\ o.heir \in Rows \cup {None} \/ o.dependents \cap Rows = {}
        /\ milestone' = [m \in Milestones |->
              IF m = o.target THEN None
              ELSE IF m \in Of(o.roadmap)
              THEN [milestone[m] EXCEPT !.seq = Moved(m, o.place), !.dep = Healed(m, o)]
              ELSE milestone[m]]
        /\ End(e)
        /\ UNCHANGED <<roadmap, spawned>>

\* updateMilestoneOp with a dependency: an earlier milestone of the roadmap.
ReadDepend(e, m, p) ==
    /\ m \in Rows
    /\ roadmap[milestone[m].roadmap] = "draft"
    /\ p # None =>
          /\ p \in Of(milestone[m].roadmap)
          /\ milestone[p].seq < milestone[m].seq
          /\ ~WouldCreateCycle(m, p)
    /\ Begin(e, [kind |-> "depend", roadmap |-> milestone[m].roadmap,
                 target |-> m, pred |-> p])

WriteDepend(e) ==
    LET o == op[e]
    IN  /\ o.kind = "depend"
        /\ o.target \in Rows => o.pred \in Rows \cup {None}
        /\ milestone' = IF o.target \in Rows
                        THEN [milestone EXCEPT ![o.target].dep = o.pred] ELSE milestone
        /\ End(e)
        /\ UNCHANGED <<roadmap, spawned>>

\* An operation is refused or loses its connection; it leaves nothing.
Fail(e) ==
    /\ op[e] # Idle
    /\ End(e)
    /\ UNCHANGED <<roadmap, milestone, spawned>>

-----------------------------------------------------------------------------

NewSeeds == UNION {[1..n -> Origins \cup {None}] : n \in 1..MaxSeeds}

Next ==
    \/ \E r \in Roadmaps :
          \/ \E origins \in NewSeeds : Create(r, origins)
          \/ \E s \in Roadmaps : Duplicate(s, r)
          \/ Reopen(r)
    \/ \E e \in Editors :
          \/ \E r \in Roadmaps :
                \/ ReadFinalize(e, r)
                \/ \E S \in SUBSET Origins : ReadAppend(e, r, S)
                \/ \E order \in Bijection(Of(r), 1..Cardinality(Of(r))) :
                       ReadReorder(e, r, order)
          \/ \E m \in Milestones :
                \/ ReadRemove(e, m)
                \/ \E p \in Milestones \cup {None} : ReadDepend(e, m, p)
          \/ WriteFinalize(e)
          \/ WriteAppend(e)
          \/ WriteReorder(e)
          \/ WriteRemove(e)
          \/ WriteDepend(e)
          \/ Fail(e)

Spec == Init /\ [][Next]_vars

-----------------------------------------------------------------------------
(* Properties.  They are about roadmaps on which no two operations have    *)
(* overlapped: of the others the code gives none of them.                  *)

\* The milestones of roadmaps whose edits came one after the other.
Orderly == {m \in Rows : milestone[m].roadmap \notin crossed}

\* However a draft is reordered, shortened, extended, re-pointed and copied,
\* every dependency leads to an earlier milestone of the same roadmap, so the
\* plan has no cycle.
Backward ==
    \A m \in Orderly : milestone[m].dep # None =>
        LET d == milestone[m].dep
        IN  d \in Of(milestone[m].roadmap) /\ milestone[d].seq < milestone[m].seq

\* A roadmap's sequence numbers are 1, 2, ... without a gap.
Compact ==
    \A r \in Roadmaps \ crossed :
        {milestone[m].seq : m \in Of(r)} = 1..Cardinality(Of(r))

\* Recomposition adds what is missing: a catalog item has one milestone.
OneMilestonePerOrigin ==
    \A m, x \in Orderly :
        /\ milestone[m].roadmap = milestone[x].roadmap
        /\ milestone[m].origin = milestone[x].origin
        /\ milestone[m].origin # None
        => m = x

\* A finalized roadmap has a task for every milestone, those that were added
\* after it was reopened included.
FinalizedAllTasked ==
    \A m \in Orderly : roadmap[milestone[m].roadmap] = "finalized" => milestone[m].task

\* While a roadmap stays finalized its milestones, their order and their
\* dependencies do not change.
Frozen(r) ==
    r \notin crossed /\ roadmap[r] = "finalized" /\ roadmap'[r] = "finalized" =>
        /\ Of(r)' = Of(r)
        /\ \A m \in Of(r) : milestone'[m] = milestone[m]

FinalizedFrozen == [][\A r \in Roadmaps : Frozen(r)]_vars
=============================================================================
