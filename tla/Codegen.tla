------------------------------ MODULE Codegen ------------------------------
(***************************************************************************)
(* rasql codegen: generate reads a query file, renders the store, commits  *)
(* it with rasql.sum; check says whether the store on disk is current.     *)
(* Another program edits the query file and the output directory at any    *)
(* time, and the generator may be cancelled or killed and run again.       *)
(***************************************************************************)
EXTENDS Generate

CONSTANTS
    Versions,    \* the contents the query file may have
    Edits,       \* the kinds of edits another program makes
    MaxFaults,   \* bounds the edits and crashes together
    MaxRuns

ASSUME CodegenAssumption ==
    /\ Versions \subseteq Nat \ {0}
    /\ \A v \in Versions : {"schema", "test"} \subseteq FilesOf(v) /\ FilesOf(v) \subseteq GenNames

VARIABLES
    prune, publishes,       \* the settings of the run
    source,                 \* the query file: its contents and its identity
    snapshot,               \* the snapshot of it that the run holds
    litter,                 \* directories holding an abandoned temporary file
    edits, crashes, runs    \* how many there were

settings == <<prune, publishes>>
counts == <<edits, crashes, runs>>

vars == <<fileSystem, plan, pc, commit, ctxDone, ret, history, settings, source,
          snapshot, litter, counts>>

environment == <<settings, source, litter, counts>>

Running == pc \notin {"idle", "returned"}

----------------------------------------------------------------------------
(* Where a run starts: a project without a store, or one generated before, *)
(* perhaps with its query file linked to another directory.                *)

Empty == [n \in Names |-> Absent]

Index(n) == CHOOSE i \in 1..Len(Order) : Order[i] = n

Generated(v) ==
    [n \in Names |->
        CASE n \in FilesOf(v) -> File(Index(n), Content(n, v, v, 0))
          [] n = "sum" /\ publishes -> File(5, Content("sum", v, v, v))
          [] OTHER -> Absent]

\* "Alt" is the directory of some other store.
Unrelated == [Empty EXCEPT !["table"] = File(7, Content("table", 0, 0, 0))]

Begins(store, out) ==
    files = [d1 |-> store, d2 |-> Unrelated, o1 |-> out, o2 |-> Empty]

Init ==
    /\ prune \in BOOLEAN /\ publishes \in BOOLEAN
    /\ \E v \in Versions : source = [v |-> v, stamp |-> 0]
    /\ linked = FALSE /\ nextId = 8
    /\ \/ at = [Dir |-> "none", Alt |-> "d2", Out |-> "o1"] /\ Begins(Empty, Empty)
       \/ /\ at = [Dir |-> "d1", Alt |-> "d2", Out |-> "o1"]
          /\ \E v \in Versions :
                LET out == [Empty EXCEPT !["query"] = File(6, Content("query", v, v, 0))]
                IN \/ Begins(Generated(v), Empty)
                   \/ Begins([Generated(v) EXCEPT !["query"] = Link(<<"Out", "query">>)], out)
    /\ plan = NoPlan /\ pc = "idle" /\ Idle /\ ctxDone = FALSE /\ ret = "none"
    /\ predicted = "none" /\ calm = FALSE /\ raced = FALSE /\ changed = FALSE
    /\ snapshot = [v |-> 0, stamp |-> 0]
    /\ litter = {} /\ edits = 0 /\ crashes = 0 /\ runs = 0

----------------------------------------------------------------------------
(* generate: what happens before the commit.                               *)

\* A step of the run that leaves the commit and the file system alone.
Reads(next) ==
    /\ pc' = next
    /\ UNCHANGED <<fileSystem, commit, ctxDone, ret, history, settings, source, litter, counts>>

\* A program that renders its own store calls Store.Write, which reads no file.
Start ==
    /\ ~Running /\ runs < MaxRuns
    /\ pc' = IF publishes THEN "stat" ELSE "plan"
    /\ plan' = NoPlan /\ ret' = "none" /\ ctxDone' = FALSE /\ runs' = runs + 1
    /\ predicted' = "none" /\ calm' = FALSE /\ raced' = FALSE /\ changed' = FALSE
    /\ snapshot' = IF publishes THEN [v |-> 0, stamp |-> 0] ELSE source
    /\ UNCHANGED <<fileSystem, commit, settings, source, litter, edits, crashes>>

\* SnapshotSourceFile: look at the file, read it, look again.
SnapshotStat ==
    /\ pc = "stat" /\ Reads("read")
    /\ snapshot' = [v |-> 0, stamp |-> source.stamp]
    /\ UNCHANGED plan

SnapshotRead ==
    /\ pc = "read" /\ Reads("confirm")
    /\ snapshot' = [snapshot EXCEPT !.v = source.v]
    /\ UNCHANGED plan

SnapshotConfirm ==
    /\ pc = "confirm"
    /\ \/ /\ snapshot.stamp = source.stamp
          /\ Reads("text") /\ UNCHANGED <<plan, snapshot>>
       \/ /\ snapshot.stamp # source.stamp
          /\ Return("input changed") /\ UNCHANGED <<environment, snapshot>>

\* The SQL text that is rendered is read from the file a second time ...
ReadText ==
    /\ pc = "text" /\ Reads("plan")
    /\ plan' = [plan EXCEPT !.sql = source.v]
    /\ UNCHANGED snapshot

\* Store.PlanContext.
MakePlan ==
    /\ pc = "plan"
    /\ LET v == snapshot.v
           p == PlanFor(v, IF publishes THEN plan.sql ELSE v, prune, publishes)
       IN \/ ctxDone /\ Return("cancelled") /\ UNCHANGED environment
          \/ ~ctxDone /\ ~Plannable(FilesOf(v)) /\ Return("refused") /\ UNCHANGED environment
          \/ /\ ~ctxDone /\ Plannable(FilesOf(v))
             /\ plan' = p
             /\ Reads(IF publishes THEN "sum" ELSE "planned")
    /\ UNCHANGED snapshot

\* ... and a third time for its line of rasql.sum.
BuildSum ==
    /\ pc = "sum" /\ Reads("planned")
    /\ plan' = [plan EXCEPT !.query = source.v]
    /\ UNCHANGED snapshot

\* Mutant: the snapshot is trusted.
RevalidatesNothing == TRUE

\* RevalidateSourceFiles: identity and contents are those of the snapshot.
Revalidates == source.stamp = snapshot.stamp /\ source.v = snapshot.v

BeforeWrite == Before(Revalidates) /\ UNCHANGED <<environment, snapshot>>

Committing == CommitStep /\ UNCHANGED <<environment, snapshot>>

----------------------------------------------------------------------------
(* The environment.                                                        *)

Cancel ==
    /\ Running /\ ~ctxDone /\ publishes
    /\ ctxDone' = TRUE /\ calm' = FALSE
    /\ UNCHANGED <<fileSystem, plan, pc, commit, ret, predicted, raced, changed,
                   environment, snapshot>>

\* The process is killed; a temporary file that it filled stays behind.
Crash ==
    /\ Running /\ edits + crashes < MaxFaults
    /\ crashes' = crashes + 1
    /\ pc' = "returned" /\ ret' = "crashed" /\ calm' = FALSE
    /\ litter' \in {litter} \cup
                  (IF temp # "none" /\ Head(queue).op = "write" THEN {litter \cup {temp}} ELSE {})
    /\ ReleaseCommit
    /\ UNCHANGED <<fileSystem, plan, ctxDone, predicted, raced, changed, settings, source,
                   snapshot, edits, runs>>

\* What another program may put in place of an entry.
Replacements(d, n) ==
    LET e == files[d][n]
        stale == Content(n, 0, 0, 0)
    IN (IF "hand" \in Edits THEN {File(nextId, Hand)} ELSE {})
       \cup (IF "foreign" \in Edits THEN {File(nextId, Foreign)} ELSE {})
       \cup (IF "generated" \in Edits THEN {File(nextId, stale)} ELSE {})
       \cup (IF "in place" \in Edits /\ e.kind = "file"
             THEN {File(e.id, Hand), File(e.id, stale)} ELSE {})
       \cup (IF "remove" \in Edits THEN {Absent} ELSE {})
       \cup (IF "other" \in Edits THEN {Other} ELSE {})
       \cup (IF "link" \in Edits
             THEN {Link(l) : l \in {<<"Out", "query">>, <<"Dir", "table">>, <<"Dir", "query">>}}
             ELSE {})

\* Where an edit may matter to the generator.
Editable == {<<"Dir", n>> : n \in Names \ {"test"}} \cup {<<"Out", "query">>}

EditEntry ==
    \E loc \in {l \in Editable : at[Eval(l[1])] # "none"} :
        LET d == at[Eval(loc[1])]
            n == loc[2]
        IN \E e \in Replacements(d, n) \ {files[d][n]} :
            /\ files' = [files EXCEPT ![d][n] = e]
            /\ nextId' = IF e.id = nextId THEN nextId + 1 ELSE nextId
            /\ UNCHANGED <<at, linked, source>>

\* A directory renamed away, with another one or a link in its place.
EditPath ==
    /\ "path" \in Edits
    /\ \/ at' = [at EXCEPT !["Dir"] = "d2", !["Alt"] = "none"] /\ UNCHANGED linked
       \/ at' = [at EXCEPT !["Out"] = "o2"] /\ UNCHANGED linked
       \/ at["Alt"] # "none" /\ linked' = TRUE /\ UNCHANGED at
    /\ UNCHANGED <<files, nextId, source>>

EditSource ==
    /\ "source" \in Edits /\ publishes
    /\ \E v \in Versions : source' = [v |-> v, stamp |-> source.stamp + 1]
    /\ UNCHANGED fileSystem

Edit ==
    /\ edits + crashes < MaxFaults /\ edits' = edits + 1
    /\ EditEntry \/ EditPath \/ EditSource
    /\ calm' = FALSE /\ raced' = TRUE
    /\ UNCHANGED <<plan, pc, commit, ctxDone, ret, predicted, changed, settings, snapshot,
                   litter, crashes, runs>>

----------------------------------------------------------------------------

Generates ==
    \/ SnapshotStat \/ SnapshotRead \/ SnapshotConfirm \/ ReadText \/ MakePlan
    \/ BuildSum \/ BeforeWrite \/ Committing

Next == Start \/ Generates \/ Cancel \/ Crash \/ Edit

Spec == Init /\ [][Next]_vars

----------------------------------------------------------------------------
(* check: whether the store is current, with and without a database.       *)

\* runCheckOffline: rasql.sum agrees with the query file and with every output
\* it names, and no other file in the directory carries the marker, whatever
\* its name.
OfflineCurrent ==
    LET sum == StatAt(<<"Dir", "sum">>).content
        d == at[EvalDir]
        marked == {n \in GoNames : HasMarker(StatAt(<<"Dir", n>>))}
    IN /\ sum.of = "sum" /\ sum.query = source.v
       /\ \A f \in FilesOf(sum.snap) :
            StatAt(<<"Dir", f>>).content = Content(f, sum.snap, sum.sql, 0)
       /\ marked \subseteq FilesOf(sum.snap) /\ d \notin litter

\* runCheckLive: rasql.sum is the one a fresh plan has, and Plan.Check agrees.
LiveCurrent ==
    LET p == [PlanFor(source.v, source.v, prune, TRUE) EXCEPT !.query = source.v]
    IN /\ Plannable(FilesOf(source.v))
       /\ StatAt(<<"Dir", "sum">>).content = Sum(p)
       /\ Check(p) = "current"

----------------------------------------------------------------------------
(* Properties.                                                             *)

Ours == edits' = edits

\* The generator replaces or removes a file only when it carries the marker,
\* except for an edit made between the check and the very rename or unlink:
\* what somebody wrote by hand survives every commit, also one that follows a
\* link or finds its directory replaced.
HandWrittenSurvives ==
    [][Ours => \A d \in Directories, n \in GoNames :
          files'[d][n] # files[d][n] =>
              \/ raced \/ files[d][n].kind = "none" \/ HasMarker(files[d][n])
              \/ files[d][n].kind = "link" /\ HasMarker(Seen(d, realDir, n))]_vars

\* A leftover that is a link to a file the plan writes: the write gives the link
\* another target, and the deletion that follows refuses it.
Aliased ==
    \E o \in plan.orphans, f \in plan.files : Chase[<<"Dir", o>>, 0] = Chase[<<"Dir", f>>, 0]

Undisturbed == pc = "returned" /\ calm

\* The links of a planned file led through a leftover, itself a link, that this
\* commit deleted: step 1 only compares where links end.
Cut(f) == \E o \in plan.orphans : Chase[<<"Dir", f>>, 0] = <<EvalDir, o>>

\* A commit that nothing disturbed and that reports success left every planned
\* file that is not Cut off, no other generated file (a leftover name is a link
\* to or from a planned one), and a rasql.sum that describes them.
CommitComplete ==
    Undisturbed /\ ret = "ok" =>
        /\ \A f \in plan.files : StatAt(<<"Dir", f>>).content = Source(plan, f) \/ Cut(f)
        /\ \A n \in Leftovers(at[EvalDir], EvalDir, plan.files) :
              \E f \in plan.files : Chase[<<"Dir", f>>, 0] = Chase[<<"Dir", n>>, 0]
        /\ plan.publishes => StatAt(<<"Dir", "sum">>).content = Sum(plan)

\* Plan.Check tells what a commit would do: it refuses exactly what commit
\* refuses, and calls a store current exactly when commit would change nothing.
\* A leftover linked to a planned file is the one exception.
CheckPredicts ==
    Undisturbed /\ ~Aliased =>
        /\ ret # "failed"
        /\ (predicted = "refuses") = (ret = "refused")
        /\ ret = "ok" => (changed = (predicted = "stale"))

\* When the offline check calls the store current, every file of it was rendered
\* from the query file as it is now, whatever was edited while it was generated:
\* the three reads of that file are tied together by RevalidateSourceFiles.
OfflineHonest ==
    OfflineCurrent =>
        \A f \in FilesOf(source.v) :
            StatAt(<<"Dir", f>>).content = Content(f, source.v, source.v, 0)

\* "Recovery is to rerun the generator": after any crash, cancellation or failed
\* write, and no edit by anybody else, no run with Prune set is refused.
RerunRecovers ==
    edits = 0 /\ prune => ret \notin {"refused", "unpublishable", "input changed"}

\* "So a passing live check also leaves the offline check passing."
LiveImpliesOffline == ~Running /\ LiveCurrent => OfflineCurrent
=============================================================================
