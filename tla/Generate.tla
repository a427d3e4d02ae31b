------------------------------ MODULE Generate ------------------------------
(***************************************************************************)
(* A plan for a store package and its commit: everything is resolved and   *)
(* authorized first, then per-table and query files are written, leftovers *)
(* deleted, the aggregator written and rasql.sum published and verified.   *)
(* Each step is one look at the file system or one change of it; other     *)
(* programs change it in between.                                          *)
(***************************************************************************)
EXTENDS GenerateFiles

CONSTANT FilesOf(_)  \* the files rendered from a version of the inputs

VARIABLES
    plan,
    pc,
    dir, realDir,  \* the output directory: its handle and its resolved path
    outside,       \* handles on other directories, by path
    writes,        \* the planned files bound so far
    orphans,       \* what each leftover was when it was authorized
    final,         \* where rasql.sum is published: path, directory, handle
    queue,         \* what is left of the present loop
    temp,          \* the directory holding the temporary file of this write
    ctxDone,
    ret,           \* how the run ended
    predicted,     \* history: what Check said when the commit began
    calm,          \* history: nothing interfered since the commit began
    raced,         \* history: an edit since the check of the present write
    changed        \* history: this commit changed a file

commit == <<dir, realDir, outside, writes, orphans, final, queue, temp>>
history == <<predicted, calm, raced, changed>>

NoHandles == [p \in Paths |-> "none"]
NoFinal == [path |-> "none", parent |-> "none", dir |-> "none"]
NoPlan == [files |-> {}, snap |-> 0, sql |-> 0, query |-> 0, orphans |-> {},
           prune |-> FALSE, publishes |-> FALSE, anchor |-> "none"]

\* The bytes a plan holds for a file, and the ones of its rasql.sum.
Source(p, name) == Content(name, p.snap, p.sql, 0)
Sum(p) == Content("sum", p.snap, p.sql, p.query)

Idle ==
    /\ dir = "none" /\ realDir = "Dir" /\ outside = NoHandles /\ writes = <<>>
    /\ orphans = <<>> /\ final = NoFinal /\ queue = <<>> /\ temp = "none"

ReleaseCommit ==
    /\ dir' = "none" /\ realDir' = "Dir" /\ outside' = NoHandles /\ writes' = <<>>
    /\ orphans' = <<>> /\ final' = NoFinal /\ queue' = <<>> /\ temp' = "none"

\* Every return of commit; the deferred calls close the handles and remove the
\* temporary file.
Return(result) ==
    /\ pc' = "returned" /\ ret' = result
    /\ ReleaseCommit
    /\ UNCHANGED <<plan, ctxDone, fileSystem, history>>

Goto(next) == pc' = next /\ UNCHANGED <<plan, ctxDone, ret>>

----------------------------------------------------------------------------
(* Planning.                                                               *)

\* finishRenderedPlan: destinations that may be written, all distinct, in a
\* directory that is free or of this package.
Plannable(planned) ==
    LET dest(f) == ResolveDestination(<<"Dir", f>>)
        d == at[EvalDir]
    IN /\ \A f \in planned : dest(f) # Nowhere
       /\ \A f, g \in planned : dest(f) = dest(g) => f = g
       /\ d # "none" => ~HoldsForeign(d, "Dir", planned)

\* The anchor is the output directory when it exists; "none" stands for the
\* directory above it.
PlanFor(snap, sql, prune, publishes) ==
    LET d == at[EvalDir] IN
    [files |-> FilesOf(snap), snap |-> snap, sql |-> sql, query |-> 0,
     orphans |-> IF d = "none" THEN {} ELSE Leftovers(d, "Dir", FilesOf(snap)),
     prune |-> prune, publishes |-> publishes, anchor |-> d]

----------------------------------------------------------------------------
(* Plan.Check: what a commit would do, from one look at the disk.          *)

\* Mutant: Check forgets validateCurrentOwnership.
CheckRefusesNoOwnership(p) ==
    LET d == at[EvalDir]
        dest(f) == ResolveDestination(<<"Dir", f>>)
    IN \/ p.anchor # "none" /\ d # p.anchor
       \/ p.anchor = "none" /\ linked
       \/ \E f \in p.files : dest(f) = Nowhere \/ \E g \in p.files \ {f} : dest(g) = dest(f)
       \/ \E o \in p.orphans : d = "none" \/ ~HasMarker(Seen(d, EvalDir, o))
       \/ ~p.prune /\ p.orphans # {}

\* A parent that is missing is a refusal unless it is the output directory.
CheckRefuses(p) ==
    LET d == at[EvalDir]
        dest(f) == ResolveDestination(<<"Dir", f>>)
        missing(f) == at[dest(f)[1]] = "none"
    IN \/ p.anchor # "none" /\ d # p.anchor
       \/ p.anchor = "none" /\ linked
       \/ \E f \in p.files :
            \/ dest(f) = Nowhere
            \/ missing(f) /\ ~(d = "none" /\ dest(f)[1] = "Dir")
            \/ \E g \in p.files \ {f} : dest(g) = dest(f)
            \/ \E o \in p.orphans : dest(f) = <<EvalDir, o>>
       \/ /\ d # "none"
          /\ \/ HoldsForeign(d, EvalDir, p.files)
             \/ ~(Leftovers(d, EvalDir, p.files) \subseteq p.orphans)
       \/ \E o \in p.orphans : d = "none" \/ ~HasMarker(Seen(d, EvalDir, o))
       \/ ~p.prune /\ p.orphans # {}

Differs(p, f) ==
    LET e == EntryAt(ResolveDestination(<<"Dir", f>>))
    IN e.kind = "none" \/ e.content # Source(p, f)

Check(p) ==
    CASE CheckRefuses(p) -> "refuses"
      [] ~CheckRefuses(p) /\ (p.orphans # {} \/ \E f \in p.files : Differs(p, f)) -> "stale"
      [] OTHER -> "current"

----------------------------------------------------------------------------
(* Step 1: resolve and authorize everything.                               *)

Begin ==
    /\ pc = "planned"
    /\ \/ ctxDone /\ Return("cancelled")
       \/ /\ ~ctxDone
          /\ predicted' = Check(plan)
          /\ calm' = TRUE /\ raced' = FALSE /\ changed' = FALSE
          /\ Goto("open")
          /\ UNCHANGED <<commit, fileSystem>>

\* openPlannedDirectory and openChildDirectory.  An output directory that did
\* not exist is created below its anchor, and is never reached through a link.
OpenDirectory ==
    /\ pc = "open"
    /\ \/ /\ IF plan.anchor = "none" THEN linked ELSE at[EvalDir] # plan.anchor
          /\ Return("refused")
       \/ /\ plan.anchor # "none" /\ at[EvalDir] = plan.anchor
          /\ dir' = plan.anchor
          /\ Goto("compare")
          /\ UNCHANGED <<realDir, outside, writes, orphans, final, queue, temp,
                         fileSystem, history>>
       \/ /\ plan.anchor = "none" /\ ~linked
          /\ at' = IF at["Dir"] = "none" THEN [at EXCEPT !["Dir"] = "d1"] ELSE at
          /\ dir' = at'["Dir"]
          /\ Goto("compare")
          /\ UNCHANGED <<realDir, outside, writes, orphans, final, queue, temp, linked,
                         files, nextId, history>>

\* The path is resolved again and has to lead to the same directory.
CompareDirectory ==
    /\ pc = "compare"
    /\ \/ at[EvalDir] # dir /\ Return("refused")
       \/ /\ at[EvalDir] = dir
          /\ realDir' = EvalDir
          /\ queue' = Ordered(plan.files)
          /\ Goto("resolve")
          /\ UNCHANGED <<dir, outside, writes, orphans, final, temp, fileSystem, history>>

\* resolveCommitDestination: no two planned files, and no planned file and
\* leftover, on one destination.
Resolve ==
    /\ pc = "resolve"
    /\ LET f == Head(queue)
           d == ResolveDestination(<<"Dir", f>>)
           refuses ==
              \/ DirAt(d) = "none"
              \/ \E g \in DOMAIN writes : writes[g].to = d
              \/ \E o \in plan.orphans : d = <<realDir, o>>
       IN \/ refuses /\ Return("refused")
          \/ /\ ~refuses
             /\ writes' = [g \in DOMAIN writes \cup {f} |->
                             IF g = f THEN [to |-> d, parent |-> DirAt(d), dir |-> "none"]
                             ELSE writes[g]]
             /\ Goto("bind")
             /\ UNCHANGED <<dir, realDir, outside, orphans, final, queue, temp,
                            fileSystem, history>>

\* destinationDirectories.open: the handle a path is served with.
Handle(path) ==
    CASE path = realDir -> dir
      [] path # realDir /\ outside[path] # "none" -> outside[path]
      [] OTHER -> at[path]

\* The handle has to be on the directory the destination was resolved in.
Bind ==
    /\ pc = "bind"
    /\ LET f == Head(queue)
           w == writes[f]
           into == Handle(w.to[1])
           binds == into = w.parent /\ Opens(into, w.to[2])
       IN \/ ~binds /\ Return("refused")
          \/ /\ binds
             /\ writes' = [writes EXCEPT ![f].dir = into]
             /\ outside' = IF w.to[1] = realDir THEN outside
                           ELSE [outside EXCEPT ![w.to[1]] = into]
             /\ queue' = Tail(queue)
             /\ Goto(IF Tail(queue) = <<>> THEN "own" ELSE "resolve")
             /\ UNCHANGED <<dir, realDir, orphans, final, temp, fileSystem, history>>

\* validateCurrentOwnership: nothing generated appeared since the plan.
Own ==
    /\ pc = "own"
    /\ LET refuses ==
              \/ HoldsForeign(dir, realDir, plan.files)
              \/ ~(Leftovers(dir, realDir, plan.files) \subseteq plan.orphans)
       IN \/ refuses /\ Return("refused")
          \/ /\ ~refuses
             /\ queue' = Ordered(plan.orphans)
             /\ Goto("orphans")
             /\ UNCHANGED <<dir, realDir, outside, writes, orphans, final, temp,
                            fileSystem, history>>

\* Each leftover still carries the marker; its identity and bytes are kept.
Validate ==
    /\ pc = "orphans" /\ queue # <<>>
    /\ LET o == Head(queue)
           e == Seen(dir, realDir, o)
       IN \/ ~HasMarker(e) /\ Return("refused")
          \/ /\ HasMarker(e)
             /\ orphans' = [n \in DOMAIN orphans \cup {o} |->
                              IF n = o THEN e ELSE orphans[n]]
             /\ queue' = Tail(queue)
             /\ Goto("orphans")
             /\ UNCHANGED <<dir, realDir, outside, writes, final, temp, fileSystem, history>>

\* Step 2, 3 and 4 in the order the commit takes them.
Each(op, names) == [i \in DOMAIN names |-> [op |-> op, name |-> names[i]]]

\* Mutant: the test of the aggregator is forgotten.
TasksNoTest ==
    Each("write", Ordered(plan.files \ {"schema", "test"}))
    \o (IF plan.prune THEN Each("delete", Ordered(plan.orphans)) ELSE <<>>)
    \o Each("write", <<"schema">>)
    \o (IF plan.publishes THEN Each("final", <<"sum">>) ELSE <<>>)

Tasks ==
    Each("write", Ordered(plan.files \ {"schema", "test"}))
    \o (IF plan.prune THEN Each("delete", Ordered(plan.orphans)) ELSE <<>>)
    \o Each("write", <<"schema", "test">>)
    \o (IF plan.publishes THEN Each("final", <<"sum">>) ELSE <<>>)

Authorize ==
    /\ pc = "orphans" /\ queue = <<>>
    /\ \/ ~plan.prune /\ plan.orphans # {} /\ Return("refused")
       \/ /\ plan.prune \/ plan.orphans = {}
          /\ queue' = IF plan.publishes THEN <<>> ELSE Tasks
          /\ Goto(IF plan.publishes THEN "prepare" ELSE "work")
          /\ UNCHANGED <<dir, realDir, outside, writes, orphans, final, temp,
                         fileSystem, history>>

\* preparePublication: the parent of rasql.sum is resolved once more, ...
Prepare ==
    /\ pc = "prepare"
    /\ LET path == EvalDir
       IN \/ ctxDone /\ Return("cancelled")
          \/ ~ctxDone /\ at[path] = "none" /\ Return("unpublishable")
          \/ /\ ~ctxDone /\ at[path] # "none"
             /\ final' = [path |-> path, parent |-> at[path], dir |-> "none"]
             /\ Goto("publish")
             /\ UNCHANGED <<dir, realDir, outside, writes, orphans, queue, temp,
                            fileSystem, history>>

\* ... and opened; the file has to be regular or absent.
OpenFinal ==
    /\ pc = "publish"
    /\ LET into == Handle(final.path)
           opens == /\ into = final.parent
                    /\ RegularOrAbsent(into, "sum") /\ Opens(into, "sum")
       IN \/ ~opens /\ Return("unpublishable")
          \/ /\ opens
             /\ final' = [final EXCEPT !.dir = into]
             /\ Goto("before")
             /\ UNCHANGED <<dir, realDir, outside, writes, orphans, queue, temp,
                            fileSystem, history>>

\* Publication.before: the caller's BeforeWrite agrees or refuses.
Before(agrees) ==
    /\ pc = "before"
    /\ \/ ctxDone /\ Return("cancelled")
       \/ ~ctxDone /\ ~agrees /\ Return("input changed")
       \/ /\ ~ctxDone /\ agrees
          /\ queue' = Tasks
          /\ Goto("work")
          /\ UNCHANGED <<dir, realDir, outside, writes, orphans, final, temp, fileSystem,
                         history>>

----------------------------------------------------------------------------
(* Steps 2 to 4 and the publication.  A write checks its destination, fills *)
(* a temporary file and renames it; a deletion confirms and unlinks.       *)

\* The directory and the name a task acts on.
Target(task) ==
    CASE task.op = "write" -> <<writes[task.name].dir, writes[task.name].to[2]>>
      [] task.op = "delete" -> <<dir, task.name>>
      [] OTHER -> <<final.dir, "sum">>

Desired(task) == IF task.op = "final" THEN Sum(plan) ELSE Source(plan, task.name)

\* Mutant: a destination resolved in step 1 is not looked at again.
PermitsResolved(task) ==
    LET t == Target(task) IN
    CASE task.op = "write" -> TRUE
      [] task.op = "delete" -> Seen(dir, realDir, task.name) = orphans[task.name]
      [] OTHER -> RegularOrAbsent(t[1], t[2])

\* existingDestinationMode, validatedOrphan.confirm, and the first lines of
\* writePublicationFile.
Permits(task) ==
    LET t == Target(task) IN
    CASE task.op = "write" -> Replaceable(files[t[1]][t[2]])
      [] task.op = "delete" -> Seen(dir, realDir, task.name) = orphans[task.name]
      [] OTHER -> RegularOrAbsent(t[1], t[2])

BeginTask ==
    /\ pc = "work" /\ queue # <<>>
    /\ LET task == Head(queue) IN
       \/ ctxDone /\ Return("cancelled")
       \/ ~ctxDone /\ ~Permits(task) /\ Return("failed")
       \/ /\ ~ctxDone /\ Permits(task)
          /\ temp' = IF task.op = "delete" THEN "none" ELSE Target(task)[1]
          /\ raced' = FALSE
          /\ Goto("act")
          /\ UNCHANGED <<dir, realDir, outside, writes, orphans, final, queue, fileSystem,
                         predicted, calm, changed>>

Act ==
    /\ pc = "act"
    /\ LET task == Head(queue)
           t == Target(task)
           e == files[t[1]][t[2]]
       IN \/ task.op = "delete" /\ e.kind = "none" /\ Return("failed")
          \/ /\ task.op # "delete" => e.kind # "other"
             /\ task.op = "delete" => e.kind # "none"
             /\ IF task.op = "delete" THEN Unlink(t[1], t[2])
                                     ELSE Rename(t[1], t[2], Desired(task))
             /\ changed' = (changed \/ task.op = "delete"
                             \/ (task.op = "write" /\ e.content # Desired(task)))
             /\ temp' = "none" /\ queue' = Tail(queue)
             /\ Goto("work")
             /\ UNCHANGED <<at, linked, dir, realDir, outside, writes, orphans, final,
                            predicted, calm, raced>>

\* Mutant: a write that fails leaves its destination half filled.
FailTaskInPlace ==
    /\ pc = "act"
    /\ pc' = "returned" /\ ret' = "failed" /\ calm' = FALSE
    /\ LET t == Target(Head(queue)) IN
       files' = IF temp = "none" THEN files
                ELSE [files EXCEPT ![t[1]][t[2]] = File(nextId, Hand)]
    /\ ReleaseCommit
    /\ UNCHANGED <<plan, ctxDone, at, linked, nextId, predicted, raced, changed>>

\* A write, sync, chmod, rename or unlink that the system refuses.
FailTask ==
    /\ pc = "act"
    /\ pc' = "returned" /\ ret' = "failed" /\ calm' = FALSE
    /\ ReleaseCommit
    /\ UNCHANGED <<plan, ctxDone, fileSystem, predicted, raced, changed>>

Finish ==
    /\ pc = "work" /\ queue = <<>>
    /\ \/ ~plan.publishes /\ Return("ok")
       \/ /\ plan.publishes
          /\ queue' = Each("write", Ordered(plan.files)) \o Each("delete", Ordered(plan.orphans))
                      \o Each("final", <<"sum">>)
          /\ Goto("verify")
          /\ UNCHANGED <<dir, realDir, outside, writes, orphans, final, temp, fileSystem,
                         history>>

\* verifyPublicationState.
Holds(task) ==
    LET t == Target(task)
        e == Opened[t[1], t[2], 0]
    IN IF task.op = "delete" THEN e.kind = "none"
       ELSE e.kind = "file" /\ e.content = Desired(task)

Verify ==
    /\ pc = "verify"
    /\ \/ ctxDone /\ Return("cancelled")
       \/ ~ctxDone /\ queue = <<>> /\ Return("ok")
       \/ ~ctxDone /\ queue # <<>> /\ ~Holds(Head(queue)) /\ Return("failed")
       \/ /\ ~ctxDone /\ queue # <<>> /\ Holds(Head(queue))
          /\ queue' = Tail(queue)
          /\ Goto("verify")
          /\ UNCHANGED <<dir, realDir, outside, writes, orphans, final, temp, fileSystem,
                         history>>

\* Every step of a commit but the caller's BeforeWrite.
CommitStep ==
    \/ Begin \/ OpenDirectory \/ CompareDirectory \/ Resolve \/ Bind \/ Own
    \/ Validate \/ Authorize \/ Prepare \/ OpenFinal \/ BeginTask \/ Act \/ FailTask \/ Finish
    \/ Verify
=============================================================================
