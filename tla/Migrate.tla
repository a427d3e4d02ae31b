------------------------------ MODULE Migrate ------------------------------
(***************************************************************************)
(* migrate.Runner: concurrent Apply, Revert and plan/status calls against  *)
(* one database, on the three engines, with failing statements, lost       *)
(* acknowledgements, broken connections and crashes.                       *)
(*                                                                         *)
(* A runner stands for one caller with its own pooled session.  The server *)
(* keeps the committed database, the open transaction of each session and  *)
(* the migration lock: a session-level advisory lock on PostgreSQL and     *)
(* MySQL, the write lock that BEGIN IMMEDIATE takes on SQLite.             *)
(***************************************************************************)
EXTENDS MigrateSelect

CONSTANTS
    Runners,   \* concurrent callers
    Engine,    \* "postgresql", "mysql" or "sqlite"
    MaxSum,    \* checksums are 1..MaxSum, 0 is "no record" / "not in effect"
    MaxSrc,    \* a migration has at most this many forward sources
    Sum,       \* Sum[r][m]: checksum of the sources r supplies for m, 0 if none
    Source,    \* Source[m][s]: what the sources with checksum s of m are
    Down,      \* Down[r][m]: number of reverse sources r supplies for m
    ApplyAims, \* the apply targets that runners use ...
    RevertAims,\* ... and the revert targets
    MaxRuns,   \* bound on the number of calls
    MaxFaults  \* bound on the number of failures injected

None == "none"   \* no lock owner
Sums == 1..MaxSum
Srcs == 1..MaxSrc

\* What a server says of a source: it runs (also one that is done already, when
\* it is spelled IF [NOT] EXISTS), it fails with one of the error numbers that
\* mysqlerrno lists, or with another error.
Answers == {"runs", "listed", "error"}

ASSUME MigrateAssumption ==
    /\ Engine \in {"postgresql", "mysql", "sqlite"}
    /\ MaxSum \in Nat /\ MaxSrc \in Nat \ {0} /\ MaxRuns \in Nat /\ MaxFaults \in Nat
    /\ None \notin Runners
    /\ Sum \in [Runners -> [IDs -> 0..MaxSum]]
    /\ Source \in [IDs -> [Sums -> [mode : {"atomic", "nontransactional"},
                                    up   : Srcs,
                                    ddl  : BOOLEAN,     \* MySQL commits it implicitly
                                    again : Answers,    \* to one that is done already
                                    void : SUBSET Srcs]]] \* malformed forward sources
    /\ Down \in [Runners -> [IDs -> 0..MaxSrc]]
    /\ \A r \in Runners, m \in IDs :
          Sum[r][m] # 0 => Down[r][m] <= Source[m][Sum[r][m]].up
    /\ ApplyAims \subseteq ApplyTargets
    /\ RevertAims \subseteq RevertTargets

VARIABLES
    db,     \* committed: history table exists, records, sources in effect
    work,   \* work[r]: the database as r's open transaction sees it
    intx,   \* intx[r]: r's session has an open transaction on the server
    alive,  \* alive[r]: r's session is usable
    lock,   \* owner session of the migration lock and its nesting count
    pc,     \* what the runner's call does next; "idle" between calls
    op,     \* "apply", "revert" or "plan"
    aim,    \* the target of the call
    seen,   \* the history the call selected from (the local `applied`)
    todo,   \* selected migrations not yet finished
    cur,    \* the migration being run, 0 if none
    idx,    \* its next source
    done,   \* the migrations the call will report as completed
    result, \* what the last call returned
    runs, faults

server == <<db, work, intx, alive, lock>>
call == <<op, aim, seen, todo, cur, idx, done>>
vars == <<db, work, intx, alive, lock, pc, op, aim, seen, todo, cur, idx, done,
          result, runs, faults>>

Advisory == Engine # "sqlite"

NoHist == [m \in IDs |-> 0]

Empty == [table |-> FALSE, hist |-> NoHist,
          eff |-> [m \in IDs |-> [i \in Srcs |-> 0]]]

NoAim == [kind |-> "nothing", n |-> 0]

Init ==
    /\ db = Empty
    /\ work = [r \in Runners |-> Empty]
    /\ intx = [r \in Runners |-> FALSE]
    /\ alive = [r \in Runners |-> TRUE]
    /\ lock = [owner |-> None, count |-> 0]
    /\ pc = [r \in Runners |-> "idle"]
    /\ op = [r \in Runners |-> "plan"]
    /\ aim = [r \in Runners |-> NoAim]
    /\ seen = [r \in Runners |-> NoHist]
    /\ todo = [r \in Runners |-> {}]
    /\ cur = [r \in Runners |-> 0]
    /\ idx = [r \in Runners |-> 1]
    /\ done = [r \in Runners |-> {}]
    /\ result = [r \in Runners |-> [ok |-> TRUE, ids |-> {}]]
    /\ runs = 0
    /\ faults = 0
-----------------------------------------------------------------------------
(* The server, as the runner's statements meet it. *)

Unlocked == [owner |-> None, count |-> 0]

\* What a statement on r's session reads and writes.
View(r) == IF intx[r] THEN work[r] ELSE db

\* A statement of r leaves v behind: in its transaction, or committed.
Write(r, v) == IF intx[r] THEN work' = [work EXCEPT ![r] = v] /\ UNCHANGED db
                          ELSE db' = v /\ UNCHANGED work

\* r's session has no transaction any more.
CloseTx(r) == intx' = [intx EXCEPT ![r] = FALSE] /\ work' = [work EXCEPT ![r] = Empty]

OpenTx(r) == intx' = [intx EXCEPT ![r] = TRUE] /\ work' = [work EXCEPT ![r] = db]

\* The end of r's session: its transaction is rolled back, its lock released.
SessionEnds(r) ==
    /\ alive' = [alive EXCEPT ![r] = FALSE]
    /\ CloseTx(r)
    /\ lock' = IF lock.owner = r THEN Unlocked ELSE lock

Fault == faults < MaxFaults /\ faults' = faults + 1

\* A statement on a dead session always fails; on a live one it may.
Fails(r) == IF alive[r] THEN Fault ELSE UNCHANGED faults

Goto(r, step) == pc' = [pc EXCEPT ![r] = step]

\* The call returns to its caller, and its locals are gone.
Return(r, ok, ids) ==
    /\ Goto(r, "idle")
    /\ result' = [result EXCEPT ![r] = [ok |-> ok, ids |-> ids]]
    /\ op' = [op EXCEPT ![r] = "plan"]
    /\ aim' = [aim EXCEPT ![r] = NoAim]
    /\ seen' = [seen EXCEPT ![r] = NoHist]
    /\ todo' = [todo EXCEPT ![r] = {}]
    /\ cur' = [cur EXCEPT ![r] = 0]
    /\ idx' = [idx EXCEPT ![r] = 1]
    /\ done' = [done EXCEPT ![r] = {}]

\* The error path of every step between the lock and its release: the open
\* transaction is rolled back and the call goes on to release the lock.  On
\* SQLite the deferred ROLLBACK is the release, and the call reports nothing.
Abandon(r) ==
    /\ CloseTx(r)
    /\ lock' = IF ~ Advisory /\ lock.owner = r THEN Unlocked ELSE lock
    /\ Goto(r, "fail")
    /\ done' = IF Advisory THEN done ELSE [done EXCEPT ![r] = {}]
    /\ UNCHANGED <<alive, op, aim, seen, todo, cur, idx, result, runs>>
-----------------------------------------------------------------------------
(* A call: Apply, Revert, or one that only reads (ApplyPlan, RevertPlan,   *)
(* Status, which differ in what they compute from the history they read).  *)

\* Mutant: a plan does not take the lock.
StartUnlockedPlan(r, o, t) ==
    /\ pc[r] = "idle" /\ runs < MaxRuns
    /\ runs' = runs + 1
    /\ alive' = [alive EXCEPT ![r] = TRUE]
    /\ op' = [op EXCEPT ![r] = o] /\ aim' = [aim EXCEPT ![r] = t]
    /\ Goto(r, IF o = "plan" THEN "ensure" ELSE "lock")
    /\ UNCHANGED <<db, work, intx, lock, seen, todo, cur, idx, done, result, faults>>

\* Conn takes the pooled session, or opens one if it was discarded.
Start(r, o, t) ==
    /\ pc[r] = "idle" /\ runs < MaxRuns
    /\ runs' = runs + 1
    /\ alive' = [alive EXCEPT ![r] = TRUE]
    /\ op' = [op EXCEPT ![r] = o]
    /\ aim' = [aim EXCEPT ![r] = t]
    /\ Goto(r, IF ~ Advisory /\ o = "plan" THEN "ensure" ELSE "lock")
    /\ UNCHANGED <<db, work, intx, lock, seen, todo, cur, idx, done, result, faults>>

\* Mutant: what the acquisition returned is not looked at.
AcquireUnchecked(r) ==
    /\ pc[r] = "lock" /\ Advisory /\ alive[r]
    /\ lock' = IF lock.owner = None THEN [owner |-> r, count |-> 1] ELSE lock
    /\ Goto(r, "ensure")
    /\ UNCHANGED <<db, work, intx, alive, call, result, runs, faults>>

\* pg_advisory_lock and GET_LOCK, which a session that holds the lock passes.
AcquireAdvisory(r) ==
    /\ pc[r] = "lock" /\ Advisory /\ alive[r]
    /\ lock.owner \in {None, r}
    /\ lock' = [owner |-> r, count |-> lock.count + 1]
    /\ Goto(r, "ensure")
    /\ UNCHANGED <<db, work, intx, alive, call, result, runs, faults>>

\* BEGIN IMMEDIATE.
BeginImmediate(r) ==
    /\ pc[r] = "lock" /\ ~ Advisory /\ alive[r]
    /\ lock.owner = None /\ ~ intx[r]
    /\ lock' = [owner |-> r, count |-> 1]
    /\ OpenTx(r)
    /\ Goto(r, "ensure")
    /\ UNCHANGED <<db, alive, call, result, runs, faults>>

\* GET_LOCK returns 0 after 30 seconds, SQLite reports a busy database.  The
\* call returns without a release.  PostgreSQL waits for ever.
AcquireTimesOut(r) ==
    /\ pc[r] = "lock" /\ Engine # "postgresql"
    /\ lock.owner \notin {None, r}
    /\ Return(r, FALSE, {})
    /\ UNCHANGED <<server, runs, faults>>

\* The acquisition fails or is cancelled; the driver may close the session.
AcquireFails(r) ==
    /\ pc[r] = "lock" /\ Fails(r)
    /\ Return(r, FALSE, {})
    /\ \/ UNCHANGED server
       \/ SessionEnds(r) /\ UNCHANGED db
    /\ UNCHANGED runs

\* CREATE TABLE IF NOT EXISTS, in the run's transaction on SQLite.  Without
\* one it needs SQLite's write lock when there is a table to create.
SQLiteBusy(r) == ~ Advisory /\ ~ intx[r] /\ ~ db.table /\ lock.owner # None

EnsureHistory(r) ==
    /\ pc[r] = "ensure" /\ alive[r] /\ ~ SQLiteBusy(r)
    /\ Write(r, [View(r) EXCEPT !.table = TRUE])
    /\ Goto(r, "read")
    /\ UNCHANGED <<intx, alive, lock, call, result, runs, faults>>

EnsureFails(r) ==
    /\ pc[r] = "ensure"
    /\ IF alive[r] /\ SQLiteBusy(r) THEN UNCHANGED faults ELSE Fails(r)
    /\ Abandon(r) /\ UNCHANGED db

\* applied(), then selectApplies or selectReverts, which may refuse the run.
Refused(r, h) ==
    \/ op[r] = "apply" /\ ApplyRefused(h, Sum[r], aim[r])
    \/ op[r] = "revert" /\ RevertRefused(h, Sum[r], Down[r], aim[r])

Selected(r, h) ==
    CASE op[r] = "apply" -> selectApplies(h, Sum[r], aim[r])
      [] op[r] = "revert" -> selectReverts(h, aim[r])
      [] op[r] = "plan" -> {}

\* Mutant: the lock covers the selection only.
SelectReleases(r) ==
    /\ pc[r] = "read" /\ alive[r] /\ ~ Refused(r, View(r).hist)
    /\ seen' = [seen EXCEPT ![r] = View(r).hist]
    /\ todo' = [todo EXCEPT ![r] = Selected(r, View(r).hist)]
    /\ lock' = Unlocked
    /\ Goto(r, IF op[r] = "plan" THEN "release" ELSE "next")
    /\ UNCHANGED <<db, work, intx, alive, op, aim, cur, idx, done, result, runs, faults>>

Select(r) ==
    /\ pc[r] = "read" /\ alive[r]
    /\ View(r).table
    /\ LET h == View(r).hist
       IN  IF Refused(r, h)
           THEN Abandon(r) /\ UNCHANGED <<db, faults>>
           ELSE /\ seen' = [seen EXCEPT ![r] = h]
                /\ todo' = [todo EXCEPT ![r] = Selected(r, h)]
                /\ Goto(r, IF op[r] = "plan" THEN "release" ELSE "next")
                /\ UNCHANGED <<server, op, aim, cur, idx, done, result, runs, faults>>

ReadFails(r) == pc[r] \in {"read", "recheck"} /\ Fails(r) /\ Abandon(r) /\ UNCHANGED db
-----------------------------------------------------------------------------
(* The selected migrations, one after another. *)

File(r) == Source[cur[r]][Sum[r][cur[r]]]

\* Mutant: no migration has a transaction.
OwnTxNever(r, m) == FALSE

\* The code path with a transaction of its own for each migration; SQLite
\* runs every migration in the transaction of the run, whatever its mode.
OwnTx(r, m) == Advisory /\ Source[m][Sum[r][m]].mode = "atomic"

\* Mutant: oldest first, always.
ForemostOldest(r, m) == m \in todo[r] /\ \A k \in todo[r] : m <= k

\* Oldest first for an apply, newest first for a revert.
Foremost(r, m) ==
    /\ m \in todo[r]
    /\ \A k \in todo[r] : IF op[r] = "apply" THEN m <= k ELSE m >= k

\* The head of the loop over the selection; BeginTx where there is one.
NextMigration(r) ==
    /\ pc[r] = "next"
    /\ \E m \in todo[r] :
          /\ Foremost(r, m)
          /\ cur' = [cur EXCEPT ![r] = m]
          /\ IF OwnTx(r, m)
             THEN /\ alive[r] /\ OpenTx(r)
                  /\ Goto(r, IF Engine = "mysql" THEN "recheck" ELSE "exec")
             ELSE Goto(r, "exec") /\ UNCHANGED <<work, intx>>
    /\ idx' = [idx EXCEPT ![r] = 1]
    /\ UNCHANGED <<db, alive, lock, op, aim, seen, todo, done, result, runs, faults>>

BeginFails(r) ==
    /\ pc[r] = "next"
    /\ \E m \in todo[r] : Foremost(r, m) /\ OwnTx(r, m)
    /\ Fails(r) /\ Abandon(r) /\ UNCHANGED db

\* The end of the loop: only SQLite has a transaction left to commit.
LoopEnds(r) ==
    /\ pc[r] = "next" /\ todo[r] = {}
    /\ Goto(r, IF Advisory THEN "release" ELSE "commitrun")
    /\ UNCHANGED <<server, call, result, runs, faults>>

\* Mutants: a migration is not reported; the loop does not move on.
FinishUnreported(r, mine) ==
    /\ todo' = [todo EXCEPT ![r] = @ \ {cur[r]}]
    /\ cur' = [cur EXCEPT ![r] = 0] /\ idx' = [idx EXCEPT ![r] = 1]
    /\ Goto(r, "next")
    /\ UNCHANGED <<op, aim, seen, done, result, runs, faults>>

FinishRepeats(r, mine) ==
    /\ done' = [done EXCEPT ![r] = IF mine THEN @ \cup {cur[r]} ELSE @]
    /\ cur' = [cur EXCEPT ![r] = 0] /\ idx' = [idx EXCEPT ![r] = 1]
    /\ Goto(r, "next")
    /\ UNCHANGED <<op, aim, seen, todo, result, runs, faults>>

\* The migration is finished: it leaves the selection, and the call reports
\* it if it did the work itself.
Finish(r, mine) ==
    /\ todo' = [todo EXCEPT ![r] = @ \ {cur[r]}]
    /\ done' = [done EXCEPT ![r] = IF mine THEN @ \cup {cur[r]} ELSE @]
    /\ cur' = [cur EXCEPT ![r] = 0]
    /\ idx' = [idx EXCEPT ![r] = 1]
    /\ Goto(r, "next")
    /\ UNCHANGED <<op, aim, seen, result, runs, faults>>

\* applyAtomicMySQL and revertAtomicMySQL read the history again in the
\* transaction.  An apply skips a migration that someone recorded meanwhile.
Recheck(r) ==
    /\ pc[r] = "recheck" /\ alive[r]
    /\ LET rec == View(r).hist[cur[r]]
           mine == Sum[r][cur[r]]
       IN  IF rec = (IF op[r] = "apply" THEN 0 ELSE mine)
           THEN /\ Goto(r, "exec")
                /\ UNCHANGED <<server, call, result, runs, faults>>
           ELSE IF op[r] = "apply" /\ rec = mine
           THEN CloseTx(r) /\ Finish(r, FALSE) /\ UNCHANGED <<db, alive, lock>>
           ELSE Abandon(r) /\ UNCHANGED <<db, faults>>

Steps(r) == IF op[r] = "apply" THEN File(r).up ELSE Down[r][cur[r]]

\* The forward sources that the reverse source i undoes: the last one left
\* for each, and all that remain for the last.
Undone(r, i) ==
    LET up == File(r).up
    IN  {k \in Srcs : k <= up /\ (IF i = Steps(r) THEN k <= up + 1 - i ELSE k = up + 1 - i)}

\* The source asks for work that is already done ...
AlreadyDone(r) ==
    LET e == View(r).eff[cur[r]]
    IN  IF op[r] = "apply" THEN e[idx[r]] # 0 ELSE \A k \in Undone(r, idx[r]) : e[k] = 0

\* ... or can never be done: a forward source that names a column or an index
\* twice, which MySQL answers with the numbers of one that is there already.
Malformed(r) == op[r] = "apply" /\ idx[r] \in File(r).void

Answer(r) == IF Malformed(r) THEN "listed"
             ELSE IF AlreadyDone(r) THEN File(r).again ELSE "runs"

\* tolerateAlreadyDone goes by the number alone, and only on MySQL.
Tolerated(r) == Engine = "mysql" /\ Answer(r) = "listed"

Rejected(r) == Answer(r) # "runs" /\ ~ Tolerated(r)

\* The sources in effect after the source ran, or its error was passed over:
\* what is in effect stays, of whichever version it is.
After(r) ==
    LET m == cur[r]
        e == View(r).eff[m]
        f == IF op[r] = "apply"
             THEN [k \in Srcs |-> IF k = idx[r] /\ e[k] = 0 /\ ~ Malformed(r)
                                 THEN Sum[r][m] ELSE e[k]]
             ELSE [k \in Srcs |-> IF k \in Undone(r, idx[r]) THEN 0 ELSE e[k]]
    IN  [View(r) EXCEPT !.eff = [View(r).eff EXCEPT ![m] = f]]

\* MySQL commits the transaction before it runs DDL, and the DDL with it.
ImplicitCommit(r) == Engine = "mysql" /\ File(r).ddl

Exec(r) ==
    /\ pc[r] = "exec" /\ alive[r] /\ ~ Rejected(r)
    /\ IF ImplicitCommit(r) THEN db' = After(r) /\ CloseTx(r)
                            ELSE Write(r, After(r)) /\ UNCHANGED intx
    /\ IF idx[r] < Steps(r)
       THEN idx' = [idx EXCEPT ![r] = @ + 1] /\ UNCHANGED pc
       ELSE Goto(r, "record") /\ UNCHANGED idx
    /\ UNCHANGED <<alive, lock, op, aim, seen, todo, cur, done, result, runs, faults>>

\* Mutant: any error is taken for "already done".
ExecFailsIgnored(r) ==
    /\ pc[r] = "exec" /\ Fails(r) /\ alive[r]
    /\ IF idx[r] < Steps(r) THEN idx' = [idx EXCEPT ![r] = @ + 1] /\ UNCHANGED pc
                            ELSE Goto(r, "record") /\ UNCHANGED idx
    /\ UNCHANGED <<server, op, aim, seen, todo, cur, done, result, runs>>

\* A source that fails has no effect of its own, but MySQL has committed what
\* the transaction did before a DDL source.
ExecFails(r) ==
    /\ pc[r] = "exec"
    /\ IF alive[r] /\ Rejected(r) THEN UNCHANGED faults ELSE Fails(r)
    /\ db' \in (IF ImplicitCommit(r) THEN {View(r), db} ELSE {db})
    /\ Abandon(r)

\* The record is inserted (the ID is the primary key) or deleted.
RecordAfter(r) ==
    [View(r) EXCEPT !.hist = [View(r).hist EXCEPT ![cur[r]] =
                                IF op[r] = "apply" THEN Sum[r][cur[r]] ELSE 0]]

Duplicate(r) == op[r] = "apply" /\ View(r).hist[cur[r]] # 0

Record(r) ==
    /\ pc[r] = "record" /\ alive[r] /\ ~ Duplicate(r)
    /\ Write(r, RecordAfter(r))
    /\ IF OwnTx(r, cur[r])
       THEN Goto(r, "commit") /\ UNCHANGED <<call, result, runs, faults>>
       ELSE Finish(r, TRUE)
    /\ UNCHANGED <<intx, alive, lock>>

RecordFails(r) ==
    /\ pc[r] = "record"
    /\ IF alive[r] /\ Duplicate(r) THEN UNCHANGED faults ELSE Fails(r)
    /\ Abandon(r) /\ UNCHANGED db

\* Commit of a migration's own transaction; MySQL may have ended it already.
Commit(r) ==
    /\ pc[r] = "commit" /\ alive[r]
    /\ db' = View(r) /\ CloseTx(r)
    /\ Finish(r, TRUE)
    /\ UNCHANGED <<alive, lock>>

CommitFails(r) ==
    /\ pc[r] \in {"commit", "commitrun"} /\ Fails(r)
    /\ Abandon(r) /\ UNCHANGED db

\* COMMIT of SQLite's one transaction for the run.
CommitRun(r) ==
    /\ pc[r] = "commitrun" /\ alive[r]
    /\ db' = View(r) /\ CloseTx(r)
    /\ lock' = Unlocked
    /\ Goto(r, "release")
    /\ UNCHANGED <<alive, call, result, runs, faults>>

\* The server carries out a statement or a commit, and the connection breaks
\* before the answer arrives: the call sees an error.
AnswerLost(r) ==
    /\ pc[r] \in {"exec", "record", "commit", "commitrun"} /\ alive[r] /\ Fault
    /\ pc[r] = "exec" => ~ Rejected(r)
    /\ pc[r] = "record" => ~ Duplicate(r)
    /\ db' = CASE pc[r] = "exec" /\ (ImplicitCommit(r) \/ ~ intx[r]) -> After(r)
               [] pc[r] = "record" /\ ~ intx[r] -> RecordAfter(r)
               [] pc[r] \in {"commit", "commitrun"} -> View(r)
               [] OTHER -> db
    /\ SessionEnds(r)
    /\ Goto(r, "fail")
    /\ done' = IF Advisory THEN done ELSE [done EXCEPT ![r] = {}]
    /\ UNCHANGED <<op, aim, seen, todo, cur, idx, result, runs>>
-----------------------------------------------------------------------------
(* The end of a call, and what ends one early. *)

\* Mutant: a failed release leaves the session in the pool.
ReleaseKeeps(r) ==
    /\ pc[r] \in {"release", "fail"}
    /\ \/ alive[r] /\ lock.owner = r /\ lock' = Unlocked /\ UNCHANGED faults
       \/ Fails(r) /\ UNCHANGED lock
    /\ Return(r, pc[r] = "release", done[r])
    /\ UNCHANGED <<db, work, intx, alive, runs>>

\* releasePostgreSQLLock and releaseMySQLLock, then the session goes back to
\* the pool.  A release that is not confirmed discards the session, and the
\* server then drops its lock.  On SQLite nothing is left to do.
Release(r) ==
    /\ pc[r] \in {"release", "fail"}
    /\ IF Advisory
       THEN \/ /\ alive[r] /\ lock.owner = r
               /\ lock' = IF lock.count = 1 THEN Unlocked ELSE [lock EXCEPT !.count = @ - 1]
               /\ Return(r, pc[r] = "release", done[r])
               /\ UNCHANGED <<db, work, intx, alive, faults>>
            \/ /\ Fails(r)
               /\ SessionEnds(r)
               /\ Return(r, FALSE, done[r])
               /\ UNCHANGED db
       ELSE Return(r, pc[r] = "release", done[r]) /\ UNCHANGED <<server, faults>>
    /\ UNCHANGED runs

\* The connection breaks between two statements; the runner meets the broken
\* session at its next one, because a sql.Conn never reconnects.
Disconnect(r) ==
    /\ pc[r] # "idle" /\ alive[r] /\ Fault
    /\ SessionEnds(r)
    /\ UNCHANGED <<db, pc, call, result, runs>>

\* The process dies.
Crash(r) ==
    /\ pc[r] # "idle" /\ Fault
    /\ SessionEnds(r)
    /\ Return(r, FALSE, {})
    /\ UNCHANGED <<db, runs>>
-----------------------------------------------------------------------------
Begin(r) == \/ \E t \in ApplyAims : Start(r, "apply", t)
            \/ \E t \in RevertAims : Start(r, "revert", t)
            \/ Start(r, "plan", NoAim)

Acquire(r) == AcquireAdvisory(r) \/ BeginImmediate(r)

\* The steps that the code takes by itself once the call is past the lock.
Proceed(r) ==
    \/ EnsureHistory(r) \/ EnsureFails(r) \/ Select(r) \/ ReadFails(r)
    \/ NextMigration(r) \/ BeginFails(r) \/ LoopEnds(r) \/ Recheck(r)
    \/ Exec(r) \/ ExecFails(r) \/ Record(r) \/ RecordFails(r)
    \/ Commit(r) \/ CommitFails(r) \/ CommitRun(r) \/ AnswerLost(r)
    \/ Release(r)

Step(r) == \/ Begin(r) \/ Acquire(r) \/ AcquireTimesOut(r) \/ AcquireFails(r)
           \/ Proceed(r) \/ Disconnect(r) \/ Crash(r)

Next == \E r \in Runners : Step(r)

\* Every statement returns, one on a broken session with an error.  A session
\* that waits for the lock gets it in its turn (PostgreSQL queues the waiters)
\* or is turned away (the others time out).
Fairness == \A r \in Runners :
               /\ WF_vars(Proceed(r) \/ (~ alive[r] /\ AcquireFails(r)))
               /\ SF_vars(Acquire(r) \/ AcquireTimesOut(r))

Spec == Init /\ [][Next]_vars /\ Fairness
-----------------------------------------------------------------------------
Databases == [table : BOOLEAN, hist : [IDs -> 0..MaxSum], eff : [IDs -> [Srcs -> 0..MaxSum]]]

\* The server's and the calls' variables keep their types.
TypeOK ==
    /\ db \in Databases
    /\ work \in [Runners -> Databases]
    /\ intx \in [Runners -> BOOLEAN] /\ alive \in [Runners -> BOOLEAN]
    /\ lock \in [owner : Runners \cup {None}, count : Nat]
    /\ pc \in [Runners -> {"idle", "lock", "ensure", "read", "next", "recheck", "exec",
                           "record", "commit", "commitrun", "release", "fail"}]
    /\ op \in [Runners -> {"apply", "revert", "plan"}]
    /\ aim \in [Runners -> ApplyTargets \cup RevertTargets]
    /\ seen \in [Runners -> [IDs -> 0..MaxSum]]
    /\ todo \in [Runners -> SUBSET IDs] /\ done \in [Runners -> SUBSET IDs]
    /\ cur \in [Runners -> 0..N] /\ idx \in [Runners -> Srcs]
    /\ result \in [Runners -> [ok : BOOLEAN, ids : SUBSET IDs]]
    /\ runs \in 0..MaxRuns /\ faults \in 0..MaxFaults

\* Where a call that changes the database is between its lock and its
\* release: past BEGIN IMMEDIATE or the advisory lock, not yet done.
Inside(r) ==
    /\ alive[r] /\ op[r] # "plan"
    /\ pc[r] \in {"ensure", "read", "next", "recheck", "exec", "record", "commit", "commitrun"}

\* No two runners whose statements can still reach the server are between
\* the lock and the release, whatever sessions broke or processes died.
MutualExclusion == \A r, q \in Runners : Inside(r) /\ Inside(q) => r = q

\* The history h after r's call has finished the migrations in S.
Outcome(r, h, S) ==
    [m \in IDs |-> IF m \in S THEN (IF op[r] = "apply" THEN Sum[r][m] ELSE 0) ELSE h[m]]

\* What r's call has committed: what it finished, on SQLite nothing, and on
\* MySQL also a record that DDL left outside of the transaction.
Committed(r) ==
    IF ~ Advisory THEN {}
    ELSE IF pc[r] = "commit" /\ ~ intx[r] THEN done[r] \cup {cur[r]} ELSE done[r]

\* h names only migrations that r supplies and skips none that r supplies.
PrefixOf(h, r) == ~ NotSupplied(h, Sum[r]) /\ ~ Gap(h, Sum[r])

\* The committed history is at all times one that some runner would accept, in
\* ID order and without a gap; and no selection is stale: while a call works
\* through it, the committed history is the one the call selected from,
\* changed only by what the call itself has committed.
HistorySound ==
    /\ \E r \in Runners : PrefixOf(db.hist, r)
    /\ \A r \in Runners : Inside(r) /\ pc[r] \notin {"ensure", "read"} =>
          db.hist = Outcome(r, seen[r], Committed(r))

\* Every up source of m at checksum s is in effect, and nothing else of m.
Complete(d, m, s) ==
    \A k \in Srcs : d.eff[m][k] = IF s # 0 /\ k <= Source[m][s].up THEN s ELSE 0

\* An atomic migration is at every moment in effect exactly as recorded,
\* source by source, or not at all.
AtomicAllOrNothing ==
    \A m \in IDs : (\A s \in Sums : Source[m][s].mode = "atomic") => Complete(db, m, db.hist[m])

\* "Atomic PostgreSQL, MySQL, and SQLite migrations run in a transaction, so a
\* failure leaves nothing behind at all" (the comment of Apply): the same once
\* every call has returned.
FailureLeavesNothing == (\A r \in Runners : pc[r] = "idle") => AtomicAllOrNothing

\* Between calls a runner's session holds neither the migration lock nor an
\* open transaction, so a pooled session never blocks the next run.
NothingHeldWhenIdle ==
    \A r \in Runners : pc[r] = "idle" => lock.owner # r /\ ~ intx[r]

\* Source k of m as r would supply it at checksum s is answered for: it is in
\* effect; or its object is there from a version of m that was edited before it
\* was ever recorded, and running it again was no error to the runner; or it is
\* malformed and MySQL's error has a listed number.
AnsweredFor(d, m, s, k) ==
    \/ d.eff[m][k] = s
    \/ /\ d.eff[m][k] # 0
       /\ Source[m][s].again \in {"runs"} \cup (IF Engine = "mysql" THEN {"listed"} ELSE {})
    \/ Engine = "mysql" /\ d.eff[m][k] = 0 /\ k \in Source[m][s].void

\* The step that records a migration finds every one of its sources answered
\* for, and the step that deletes a record finds none of them in effect, after
\* any number of failures, crashes and retries.  The comment of Apply says more,
\* that every source "has succeeded": RecordedWhenComplete below, which an
\* edited or a malformed source breaks, and these two alone.
RecordedWhenAnswered ==
    [][\A m \in IDs : db'.hist[m] # db.hist[m] =>
         LET s == IF db'.hist[m] # 0 THEN db'.hist[m] ELSE db.hist[m]
         IN  \A k \in 1..Source[m][s].up :
                IF db'.hist[m] # 0 THEN AnsweredFor(db', m, s, k) ELSE db'.eff[m][k] = 0]_vars

\* "A migration is recorded only once every one of its sources has succeeded".
RecordedWhenComplete ==
    [][\A m \in IDs : db'.hist[m] # db.hist[m] => Complete(db', m, db'.hist[m])]_vars

\* A call that returns with its session intact reports exactly the migrations
\* whose records it changed, also one that stops half way with an error (on
\* MySQL a record may have outlived a transaction that failed).
ReportedIsRecorded ==
    [][\A r \in Runners :
         /\ Advisory /\ op[r] # "plan" /\ lock.owner = r
         /\ pc'[r] = "idle" /\ alive'[r]
         /\ pc[r] = "release" \/ (pc[r] = "fail" /\ todo[r] # {} /\ Engine # "mysql")
         => db.hist = Outcome(r, seen[r], result'[r].ids)]_vars

\* Only the session that holds the migration lock changes records or effects,
\* and a call that reads (ApplyPlan, RevertPlan, Status) never sees a run half
\* way: no other call in progress has committed a record yet.
RunsAreIsolated ==
    [][/\ db'.hist # db.hist \/ db'.eff # db.eff =>
             \E r \in Runners : lock.owner = r /\ <<pc[r], idx[r]>>' # <<pc[r], idx[r]>>
       /\ \A r \in Runners : pc[r] = "read" /\ op[r] = "plan" /\ pc'[r] = "release" =>
             \A q \in Runners \ {r} :
                Inside(q) /\ pc[q] \notin {"ensure", "read"} => db.hist = seen[q]]_vars

\* Every call returns.
CallsReturn == \A r \in Runners : pc[r] # "idle" ~> pc[r] = "idle"
=============================================================================
