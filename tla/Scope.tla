------------------------------- MODULE Scope -------------------------------
(***************************************************************************)
(* Transaction scopes of the executor layer: Within, DB.Atomic (or Begin)  *)
(* and a caller's own use of BeginScope and its finalizer, with savepoints *)
(* nested inside them, the busy token that keeps two statements off one    *)
(* connection, and the cleanup that must run when a callback fails.        *)
(*                                                                         *)
(* The "main" goroutine runs the scopes; a "side" goroutine that a         *)
(* callback started uses the same child executor.  A statement is two      *)
(* steps, taking the token and the driver's answer, so that the other      *)
(* goroutine may come in between.  A write is a number; the server keeps   *)
(* the writes of the open transaction per savepoint.                       *)
(***************************************************************************)
EXTENDS Integers, Sequences, FiniteSets

CONSTANTS
    Outers,       \* who may own the transaction, see Kinds
    Habits,       \* what callbacks do besides well-behaved calls, see AllHabits
    AbortOnError, \* a failed statement aborts the transaction (PostgreSQL)
    MaxDepth,     \* bound on nested scopes, the transaction included
    MaxWrites,    \* bound on writes
    MaxSaves,     \* bound on savepoints
    MaxFaults     \* bound on failures

\* Within; DB.Atomic, or DB.Begin with a caller that ends it as Atomic would;
\* and BeginScope with the caller calling the finalizer.
Kinds == {"within", "atomic", "finalizer"}

\* "side": a callback starts a goroutine.  "panicInLoop": the body of a loop
\* over a rows sequence panics.  "close": rows are ended by Close instead of
\* Finish.  "slow": a callback takes more than thirty seconds.
AllHabits == {"side", "panicInLoop", "close", "slow"}

ASSUME ScopeAssumption ==
    /\ Outers \subseteq Kinds
    /\ Habits \subseteq AllHabits
    /\ AbortOnError \in BOOLEAN
    /\ {MaxDepth, MaxWrites, MaxSaves, MaxFaults} \subseteq Nat

VARIABLES
    tx,       \* the *sql.Tx: "none", "open", "committed" or "rolledback"
    aborted,  \* the server refuses statements until a rollback
    server,   \* the open transaction: a sequence of [sp, ws], sp = 0 at the bottom
    db,       \* the durable writes
    token,    \* executorBusy: the one-token channel is full
    frames,   \* the scopes main is in, the outermost first: how it was opened, its
              \* savepoint (0: it owns the transaction), the writes its callback
              \* had acknowledged and that should share its fate, how the
              \* callback ended, whether the context of its cleanup has expired,
              \* and whether a step of the cleanup failed
    main,     \* what main is doing
    side,     \* what the side goroutine is doing
    result,   \* how the outermost scope ended
    undone,   \* the writes of nested scopes that were rolled back without error
    writes, saves, faults

vars == <<tx, aborted, server, db, token, frames, main, side, result, undone,
          writes, saves, faults>>

srv == <<tx, aborted, server, db>>

Init ==
    /\ tx = "none" /\ aborted = FALSE /\ server = <<>> /\ db = {}
    /\ token = FALSE /\ frames = <<>>
    /\ main = "idle" /\ side = "idle" /\ result = "none"
    /\ undone = {}
    /\ writes = 0 /\ saves = 0 /\ faults = 0

----------------------------------------------------------------------------
(* The busy token, and one statement as the driver and the hooks answer it.*)

\* A DB from beginTxCore has no busy token; BeginScope gives its child one,
\* which the executors of nested scopes share.
HasToken == frames # <<>> /\ frames[1].kind \in {"within", "finalizer"}

\* Mutant: the token is taken without looking.
AcquireUnchecked == token' = HasToken

\* executorBusy.acquire succeeds, or there is no token to take ...
Acquire == (HasToken => ~token) /\ token' = HasToken

\* ... and executorBusy.release.
Release == token' = FALSE

\* Room for one more write, the ones under way counted.
WritesLeft == writes + (IF "stmt" \in {main, side} THEN 1 ELSE 0) < MaxWrites

Fault == faults < MaxFaults /\ faults' = faults + 1

CanRun == tx = "open" /\ ~aborted

\* execRendered: the statement runs and the caller learns it;
Ran == CanRun /\ UNCHANGED <<aborted, faults>>

\* the statement runs and an After hook turns the answer into an error;
RanUnheard == CanRun /\ Fault /\ UNCHANGED aborted

\* a Before hook or the server refuses it, or the transaction is over.
Failed ==
    \/ ~CanRun /\ UNCHANGED <<aborted, faults>>
    \/ CanRun /\ Fault /\ aborted' \in {FALSE, AbortOnError}

Last == Len(frames)
Top == frames[Last]

AddWrite == server' = [server EXCEPT ![Len(server)].ws = @ \cup {writes + 1}]

Pending == UNION {server[i].ws : i \in DOMAIN server}

At(sp) == CHOOSE i \in DOMAIN server : server[i].sp = sp

\* The writes made since the savepoint sp, or since BEGIN.
Since(sp) == UNION {server[i].ws : i \in At(sp)..Len(server)}

RollbackToSavepoint(sp) ==
    server' = [SubSeq(server, 1, At(sp)) EXCEPT ![At(sp)].ws = {}]

ReleaseSavepoint(sp) ==
    server' = [SubSeq(server, 1, At(sp) - 1) EXCEPT ![At(sp) - 1].ws = @ \cup Since(sp)]

----------------------------------------------------------------------------
(* A callback: statements, row sources, nested scopes, and its end.        *)

Open(kind, sp) ==
    frames' = Append(frames, [kind |-> kind, sp |-> sp, ws |-> {}, out |-> "none",
                              late |-> FALSE, bad |-> FALSE])

\* Within through BeginScope, Atomic through atomicTransaction, or Begin.
BeginTx ==
    /\ main = "idle"
    /\ \/ /\ tx' = "open" /\ server' = <<[sp |-> 0, ws |-> {}]>>
          /\ (\E k \in Outers : Open(k, 0)) /\ main' = "callback"
          /\ UNCHANGED <<faults, result>>
       \/ /\ Fault /\ main' = "done" /\ result' = "error"
          /\ UNCHANGED <<tx, server, frames>>
    /\ UNCHANGED <<aborted, db, token, side, undone, writes, saves>>

\* Exec through the scope's executor: execGuarded up to the driver ...
Exec ==
    /\ main = "callback" /\ WritesLeft
    /\ Acquire /\ main' = "stmt"
    /\ UNCHANGED <<srv, frames, side, result, undone, writes, saves, faults>>

\* ... and its return.
ExecReturns ==
    /\ main = "stmt" /\ main' = "callback" /\ Release /\ writes' = writes + 1
    /\ \/ Ran /\ AddWrite /\ frames' = [frames EXCEPT ![Last].ws = @ \cup {writes + 1}]
       \/ RanUnheard /\ AddWrite /\ UNCHANGED frames
       \/ Failed /\ UNCHANGED <<server, frames>>
    /\ UNCHANGED <<tx, db, side, result, undone, saves>>

\* queryGuarded: the rows keep the token.
Query ==
    /\ main = "callback" /\ CanRun
    /\ Acquire /\ main' = "rows"
    /\ UNCHANGED <<srv, frames, side, result, undone, writes, saves, faults>>

\* exclusiveRows.Finish gives it back;
FinishRows ==
    /\ main = "rows" /\ main' = "callback" /\ Release
    /\ UNCHANGED <<srv, frames, side, result, undone, writes, saves, faults>>

\* Close is ownedRows' own, reached through the embedded interface;
CloseRows ==
    /\ "close" \in Habits
    /\ main = "rows" /\ main' = "callback"
    /\ UNCHANGED <<srv, token, frames, side, result, undone, writes, saves, faults>>

\* a rows sequence finishes nothing when its consumer panics.
PanicInLoop ==
    /\ "panicInLoop" \in Habits
    /\ main = "rows" /\ main' = "end"
    /\ frames' = [frames EXCEPT ![Last].out = "panic"]
    /\ UNCHANGED <<srv, token, side, result, undone, writes, saves, faults>>

\* A nested Within or Atomic: SAVEPOINT, with the token where there is one.
Nest ==
    /\ main = "callback" /\ Last < MaxDepth /\ saves < MaxSaves
    /\ Acquire /\ main' = "save"
    /\ UNCHANGED <<srv, frames, side, result, undone, writes, saves, faults>>

\* Atomic needs the DB itself, which only Atomic and Begin hand out.
NestKinds == IF HasToken THEN {"within"} ELSE {"within", "atomic"}

NestReturns ==
    /\ main = "save" /\ main' = "callback" /\ Release /\ saves' = saves + 1
    /\ \/ /\ Ran /\ server' = Append(server, [sp |-> saves + 1, ws |-> {}])
          /\ \E k \in NestKinds : Open(k, saves + 1)
       \/ /\ RanUnheard /\ server' = Append(server, [sp |-> saves + 1, ws |-> {}])
          /\ UNCHANGED frames
       \/ Failed /\ UNCHANGED <<server, frames>>
    /\ UNCHANGED <<tx, db, side, result, undone, writes>>

\* runScopeCallback and runAtomicCallback: the callback returns or panics.
CallbackEnds(out) ==
    /\ main = "callback" /\ main' = "end"
    /\ frames' = [frames EXCEPT ![Last].out = out]
    /\ UNCHANGED <<srv, token, side, result, undone, writes, saves, faults>>

----------------------------------------------------------------------------
(* The end of a scope.                                                     *)

\* Mutant: the error of the finalizer is dropped.
LeaveIgnoresCleanup(failed) ==
    LET ret == IF Top.out = "ok" THEN "nil" ELSE "error"
    IN  /\ IF Last = 1
           THEN main' = "done" /\ result' = ret /\ UNCHANGED frames
           ELSE /\ main' = "callback" /\ UNCHANGED result
                /\ frames' = SubSeq(frames, 1, Last - 1)
        /\ UNCHANGED undone

\* The scope returns to its caller, with the cleanup's error if it failed.
Leave(failed) ==
    LET ret == IF Top.out = "panic" THEN "panic"
               ELSE IF Top.out = "err" \/ failed THEN "error" ELSE "nil"
    IN  /\ IF Last = 1
           THEN /\ main' = "done" /\ result' = ret
                /\ frames' = [frames EXCEPT ![1].bad = failed]
           ELSE /\ main' = "callback" /\ UNCHANGED result
                /\ frames' = [SubSeq(frames, 1, Last - 1) EXCEPT ![Last - 1].ws =
                                 IF ret = "nil" THEN @ \cup Top.ws ELSE @]
        /\ undone' = IF Top.out # "ok" /\ ~failed THEN undone \cup Top.ws ELSE undone

\* The guarded finalizer finds the token taken and does nothing else.  Within
\* returns that; a caller of the finalizer may go on and call it again.
Refused ==
    /\ main = "end" /\ HasToken /\ token
    /\ IF Last = 1 /\ Top.kind = "finalizer"
       THEN /\ main' = "callback"
            /\ frames' = [frames EXCEPT ![Last].out = "none"]
            /\ UNCHANGED <<result, undone>>
       ELSE Leave(TRUE)
    /\ UNCHANGED <<srv, token, side, writes, saves, faults>>

\* Mutant: a panic that was recovered looks like a callback without error ...
FinalizePanicCommits ==
    /\ main = "end" /\ Acquire
    /\ main' = IF Top.sp = 0 THEN (IF Top.out = "err" THEN "rollback" ELSE "commit")
               ELSE IF Top.out = "err" THEN "rollbackTo" ELSE "release"
    /\ UNCHANGED <<srv, frames, side, result, undone, writes, saves, faults>>

\* ... and: a savepoint is released where it should be rolled back to.
FinalizeReleaseOnly ==
    /\ main = "end" /\ Acquire
    /\ main' = IF Top.sp = 0 THEN (IF Top.out = "ok" THEN "commit" ELSE "rollback")
               ELSE "release"
    /\ UNCHANGED <<srv, frames, side, result, undone, writes, saves, faults>>

\* The step a scope ends with: Commit or Rollback of the transaction, RELEASE
\* or first ROLLBACK TO of the savepoint.
Finalize ==
    /\ main = "end" /\ Acquire
    /\ main' = IF Top.sp = 0 THEN (IF Top.out = "ok" THEN "commit" ELSE "rollback")
               ELSE IF Top.out = "ok" THEN "release" ELSE "rollbackTo"
    /\ UNCHANGED <<srv, frames, side, result, undone, writes, saves, faults>>

\* commitContext, which runs no hooks; unheard is an answer that was lost.
\* Whatever the answer, the *sql.Tx is done.
Commit ==
    /\ main = "commit" /\ Release /\ server' = <<>>
    /\ \/ Ran /\ db' = db \cup Pending /\ tx' = "committed" /\ Leave(FALSE)
       \/ RanUnheard /\ db' = db \cup Pending /\ tx' = "committed" /\ Leave(TRUE)
       \/ /\ Failed /\ tx' = "rolledback" /\ Leave(TRUE)
          /\ UNCHANGED db
    /\ UNCHANGED <<side, writes, saves>>

\* rollbackContext: sql.ErrTxDone is no error.
Rollback ==
    /\ main = "rollback" /\ Release
    /\ server' = <<>> /\ aborted' = FALSE /\ tx' = "rolledback"
    /\ \/ Leave(FALSE) /\ UNCHANGED faults
       \/ tx = "open" /\ Fault /\ Leave(TRUE)
    /\ UNCHANGED <<db, side, writes, saves>>

\* Mutant: the name of the enclosing scope's savepoint.
RollbackToEnclosing ==
    /\ main = "rollbackTo" /\ main' = "release"
    /\ tx = "open" /\ RollbackToSavepoint(frames[Last - 1].sp) /\ aborted' = FALSE
    /\ UNCHANGED <<tx, db, token, frames, side, result, undone, writes, saves, faults>>

\* atomicRollbackSavepoint; a ROLLBACK TO also ends the aborted state.  Its
\* error is kept and RELEASE is tried all the same.
RollbackTo ==
    /\ main = "rollbackTo" /\ main' = "release"
    /\ \/ /\ tx = "open" /\ ~Top.late
          /\ RollbackToSavepoint(Top.sp) /\ aborted' = FALSE
          /\ UNCHANGED <<faults, frames>>
       \/ /\ tx = "open" /\ ~Top.late /\ Fault
          /\ RollbackToSavepoint(Top.sp) /\ aborted' = FALSE
          /\ frames' = [frames EXCEPT ![Last].bad = TRUE]
       \/ /\ \/ (tx # "open" \/ Top.late) /\ UNCHANGED faults
             \/ Fault
          /\ frames' = [frames EXCEPT ![Last].bad = TRUE]
          /\ UNCHANGED <<server, aborted>>
    /\ UNCHANGED <<tx, db, token, side, result, undone, writes, saves>>

\* atomicReleaseSavepoint, the last statement of a savepoint's cleanup.  With
\* an expired context the statement is not sent.
ReleaseReturns ==
    /\ main = "release" /\ Release
    /\ \/ ~Top.late /\ Ran /\ ReleaseSavepoint(Top.sp) /\ Leave(Top.bad)
       \/ ~Top.late /\ RanUnheard /\ ReleaseSavepoint(Top.sp) /\ Leave(TRUE)
       \/ ~Top.late /\ Failed /\ Leave(TRUE) /\ UNCHANGED server
       \/ Top.late /\ Leave(TRUE) /\ UNCHANGED <<server, aborted, faults>>
    /\ UNCHANGED <<tx, db, side, writes, saves>>

----------------------------------------------------------------------------
(* The side goroutine and the environment.                                 *)

SideExec ==
    /\ "side" \in Habits /\ side = "idle" /\ tx # "none" /\ WritesLeft
    /\ Acquire /\ side' = "stmt"
    /\ UNCHANGED <<srv, frames, main, result, undone, writes, saves, faults>>

SideExecReturns ==
    /\ side = "stmt" /\ side' = "idle" /\ Release /\ writes' = writes + 1
    /\ \/ Ran /\ AddWrite
       \/ RanUnheard /\ AddWrite
       \/ Failed /\ UNCHANGED server
    /\ UNCHANGED <<tx, db, frames, main, result, undone, saves>>

SideQuery ==
    /\ "side" \in Habits /\ side = "idle" /\ CanRun
    /\ Acquire /\ side' = "rows"
    /\ UNCHANGED <<srv, frames, main, result, undone, writes, saves, faults>>

SideFinishRows ==
    /\ side = "rows" /\ side' = "idle" /\ Release
    /\ UNCHANGED <<srv, frames, main, result, undone, writes, saves, faults>>

\* beginSavepoint makes the context of the cleanup when the savepoint begins,
\* atomicSavepoint when the callback has returned: only the former expires in
\* a slow callback, and those of the enclosing scopes before it.
ThirtySecondsPass ==
    /\ "slow" \in Habits /\ main \in {"callback", "stmt", "rows"}
    /\ \E k \in 2..Last :
          frames' = [i \in 1..Last |->
                        [frames[i] EXCEPT !.late =
                            @ \/ (i \in 2..k /\ frames[i].kind = "within")]]
    /\ frames' # frames
    /\ UNCHANGED <<srv, token, main, side, result, undone, writes, saves, faults>>

\* The context of BeginTx is cancelled between two statements, and
\* database/sql rolls the transaction back.
Cancel ==
    /\ tx = "open" /\ Fault
    /\ main \in {"callback", "rows", "end", "done"} /\ side # "stmt"
    /\ tx' = "rolledback" /\ server' = <<>> /\ aborted' = FALSE
    /\ UNCHANGED <<db, token, frames, main, side, result, undone, writes, saves>>

Next ==
    \/ BeginTx \/ Exec \/ ExecReturns \/ Query \/ FinishRows \/ CloseRows
    \/ PanicInLoop \/ Nest \/ NestReturns
    \/ \E out \in {"ok", "err", "panic"} : CallbackEnds(out)
    \/ Refused \/ Finalize \/ Commit \/ Rollback \/ RollbackTo \/ ReleaseReturns
    \/ SideExec \/ SideExecReturns \/ SideQuery \/ SideFinishRows
    \/ ThirtySecondsPass \/ Cancel

Spec == Init /\ [][Next]_vars

----------------------------------------------------------------------------
(* Properties.                                                             *)

\* A transaction executor with a busy token rejects what is called while another
\* statement runs or its rows are open, so that two never share the connection;
\* SAVEPOINT, the cleanup of savepoints, COMMIT and ROLLBACK included.
ConnectionExclusive ==
    HasToken => ~(side # "idle" /\ main \in {"stmt", "rows", "save", "commit",
                                             "rollback", "rollbackTo", "release"})

\* A scope that returns nil has committed, and what its callback and the nested
\* scopes that returned nil had written is durable.
NilMeansDurable ==
    result = "nil" => tx = "committed" /\ frames[1].ws \subseteq db

\* A callback that fails or panics leaves nothing behind, also when the
\* rollback fails or is refused.
FailedCallbackLeavesNothing ==
    main = "done" /\ frames # <<>> => (frames[1].out \in {"err", "panic"} => db = {})

\* What a nested scope wrote before it failed is neither durable nor pending
\* when the scope reports no error but the callback's own.
RolledBackStaysOut == undone \cap (db \cup Pending) = {}

\* While the transaction is open, the savepoint of every scope is there, under
\* those of the scopes inside it, and with it what the scope's callback wrote.
ScopesOnServer ==
    tx = "open" =>
        \A i \in DOMAIN frames :
            /\ \E k \in DOMAIN server : server[k].sp = frames[i].sp
            /\ i > 1 => At(frames[i - 1].sp) < At(frames[i].sp)
            /\ frames[i].out \in {"none", "ok"} => frames[i].ws \subseteq Since(frames[i].sp)

\* The busy token comes back with the statements and rows that took it.
NoTokenLeft == main \in {"callback", "end", "done"} /\ side = "idle" => ~token

\* Without failures, a nested scope leaves no savepoint behind.
CleanupRemovesSavepoint ==
    faults = 0 /\ tx = "open" /\ main = "callback" =>
        \A k \in DOMAIN server : \E i \in DOMAIN frames : frames[i].sp = server[k].sp

\* Within ends the transaction it owns, whatever its callback does.
ScopeEndsTransaction == main = "done" => tx # "open"
=============================================================================
