------------------------------- MODULE Batch -------------------------------
(***************************************************************************)
(* ExecBatch: the plans of a call are cut into statements that respect the *)
(* row and bind limits, the statements are sent in order, optionally       *)
(* inside a transaction or savepoint of the call's own, and the outcome    *)
(* tells the caller what became of each input.                             *)
(*                                                                         *)
(* The database is where an input's statement has taken effect: durably,   *)
(* in the caller's open transaction or in the scope of this call.  What    *)
(* the server did and what the executor answered may differ: hooks fail    *)
(* after the driver succeeded, connections break before the answer.        *)
(***************************************************************************)
EXTENDS Integers, Sequences, FiniteSets

CONSTANTS
    Calls,      \* the calls of ExecBatch that are made, see Call
    HookErrors  \* what the error of an After hook looks like to a classifier

\* A plan: what it lowers to, the table it writes, the columns it inserts and
\* the arguments its statement binds.  "create" and "default" are CreatePlans,
\* "version" is a PatchPlan with WithVersion, "write" any other statement.
Plan == [kind : {"create", "default", "version", "write", "returning", "native", "nil"},
         table : {"t", "u"}, columns : {"a", "b"}, args : Nat]

\* A DB, a transaction DB, executors that wrap one of them (and are no evidence
\* of durability), and one with neither scopes nor savepoints.
Executors == {"db", "tx", "wrapped db", "wrapped tx", "bare"}

Options == [maxRows : Int, maxBind : Int, engineLimit : Nat, atomic : BOOLEAN,
            classifier : BOOLEAN, executor : Executors]

Call == [plans : Seq(Plan), opts : Options]

ASSUME BatchAssumption ==
    /\ Calls \subseteq Call
    /\ HookErrors \subseteq {"other", "constraint"}

VARIABLES
    plans, opts,  \* the call
    ctxDone,      \* the caller's context is cancelled
    pc,
    prepared,     \* the statements: the inputs start..end-1 each stands for
    search,       \* where the search for the longest prefix is
    sent,         \* the number of statements answered
    inputs,       \* BulkOutcome.Inputs
    durability,   \* BulkOutcome.Durability
    failed,       \* BulkOutcome.FailedBatch
    error,        \* what executionErr looks like to a classifier
    ret,          \* what the caller gets
    events,       \* the events of the batch and of its last statement
    durable,      \* inputs whose statement took effect durably,
    held,         \* ... in the caller's transaction,
    scope,        \* ... in the scope of this call
    missed,       \* versioned inputs whose statement matched no row
    overruled,    \* inputs that took effect before an After hook's error that
                  \* looks like a rejection
    lost,         \* the connection of the open transaction is gone
    caller        \* how the caller ended its transaction

request == <<plans, opts>>
report == <<inputs, durability, failed>>
database == <<durable, held, scope, missed, overruled, lost, caller>>

vars == <<request, ctxDone, pc, prepared, search, sent, report, error, ret, events,
          database>>

Inputs == 1..Len(plans)

NoSearch == [low |-> 0, high |-> 0, count |-> 0, rows |-> 0, args |-> 0, run |-> 0]

Init ==
    /\ \E c \in Calls : plans = c.plans /\ opts = c.opts
    /\ ctxDone = FALSE /\ pc = "start" /\ prepared = <<>> /\ search = NoSearch /\ sent = 0
    /\ inputs = [i \in Inputs |-> "Unattempted"] /\ durability = "Unknown" /\ failed = {}
    /\ error = "none" /\ ret = "none" /\ events = [batch |-> "none", stmt |-> "none"]
    /\ durable = {} /\ held = {} /\ scope = {} /\ missed = {} /\ overruled = {}
    /\ lost = FALSE /\ caller = "none"

----------------------------------------------------------------------------
(* The executor.                                                           *)

IsTransaction == opts.executor \in {"tx", "wrapped tx"}

\* executorDurability: only DB itself is evidence.
ExecutorDurability ==
    CASE opts.executor = "db" -> "Committed"
      [] opts.executor = "tx" -> "Pending"
      [] OTHER -> "Unknown"

\* mutationBindLimit; 0 stands for none.
BindLimit ==
    IF opts.maxBind > 0 /\ (opts.engineLimit = 0 \/ opts.maxBind < opts.engineLimit)
    THEN opts.maxBind ELSE opts.engineLimit

MaxRows == IF opts.maxRows = 0 THEN 1000 ELSE opts.maxRows

Returns(r) == pc' = "done" /\ ret' = r

----------------------------------------------------------------------------
(* Validation and grouping, before anything is sent.                       *)

\* The checks before the outcome has a durability ...
Malformed ==
    \/ plans = <<>>
    \/ MaxRows < 1
    \/ opts.maxBind < 0
    \/ \E i \in Inputs : plans[i].kind \in {"nil", "native"}

\* ... and those after.
Mixed ==
    \/ \E i \in Inputs : plans[i].kind = "returning"
    \/ \E i, j \in Inputs : plans[i].table # plans[j].table

\* ExecBatch up to the lowering of the plans.
Start ==
    /\ pc = "start"
    /\ durability' = IF Malformed THEN "Unknown" ELSE ExecutorDurability
    /\ IF Malformed \/ Mixed THEN Returns("error") ELSE pc' = "group" /\ UNCHANGED ret
    /\ UNCHANGED <<request, ctxDone, prepared, search, sent, inputs, failed, error, events,
                   database>>

\* The first input that no statement stands for yet.
At == IF prepared = <<>> THEN 1 ELSE prepared[Len(prepared)].end

\* The arguments that the n inputs from At on bind in one statement.
Args(n) == LET f[k \in Nat] == IF k = 0 THEN 0 ELSE f[k - 1] + plans[At + k - 1].args IN f[n]

Refuses(limit, n) == limit > 0 /\ Args(n) > limit

\* compileMutationPrefix and the checks of a lone statement.  The compiler's own
\* limit is never below BindLimit.
Fits(n) == ~Refuses(BindLimit, n)

\* The longest run of n inputs from At on that could share an insert.
SameShape(n) ==
    /\ At + n - 1 \in Inputs
    /\ n <= MaxRows
    /\ \A k \in 1..n - 1 : /\ plans[At + k].kind = "create"
                           /\ plans[At + k].columns = plans[At].columns

Run == CHOOSE n \in 1..Len(plans) :
          SameShape(n) /\ \A m \in n + 1..Len(plans) : ~SameShape(m)

Prepared(n) == prepared' = Append(prepared, [start |-> At, end |-> At + n])

\* prepareMutationBatches, one turn of the loop, with compileMutationGroup up to
\* the search.  A lone statement must fit; DEFAULT VALUES binds nothing.
Group ==
    /\ pc = "group" /\ At \in Inputs
    /\ \/ /\ plans[At].kind # "create" \/ Run = 1
          /\ Fits(1)
          /\ Prepared(1) /\ UNCHANGED <<pc, search, ret>>
       \/ /\ plans[At].kind = "create" /\ Run > 1 /\ Fits(Run)
          /\ Prepared(Run) /\ UNCHANGED <<pc, search, ret>>
       \/ /\ plans[At].kind = "create" /\ Run > 1 /\ ~Fits(Run) /\ Fits(1)
          /\ pc' = "probe"
          /\ search' = [low |-> 2, high |-> Run - 1, count |-> 1, run |-> Run,
                        rows |-> IF Refuses(opts.engineLimit, Run) THEN 1 ELSE Run,
                        args |-> IF Refuses(opts.engineLimit, Run) THEN Args(1) ELSE Args(Run)]
          /\ UNCHANGED <<prepared, ret>>
       \/ /\ ~Fits(1) /\ (plans[At].kind = "create" /\ Run > 1 => ~Fits(Run))
          /\ Returns("error") /\ UNCHANGED <<prepared, search>>
    /\ UNCHANGED <<request, ctxDone, sent, report, error, events, database>>

Clamp(n, low, high) == IF n < low THEN low ELSE IF n > high THEN high ELSE n

\* mutationPrefixProbe.  A create holds one row, so rowEnds[n-1] = n, and the
\* binary search for affordable + 1 ends at affordable, or at the run's end.
Probe ==
    LET affordable == (search.rows * BindLimit) \div search.args
    IN  IF BindLimit <= 0 \/ search.args <= 0
        THEN search.low + (search.high - search.low) \div 2
        ELSE Clamp(IF affordable > search.run THEN search.run ELSE affordable,
                   search.low, search.high)

\* Mutant: a prefix that does not fit stays in the range ...
SearchStays ==
    /\ pc = "probe"
    /\ IF search.low <= search.high
       THEN /\ search' = IF Fits(Probe)
                         THEN [search EXCEPT !.count = Probe, !.low = Probe + 1]
                         ELSE [search EXCEPT !.high = Probe]
            /\ UNCHANGED <<pc, prepared>>
       ELSE Prepared(search.count) /\ pc' = "group" /\ search' = NoSearch
    /\ UNCHANGED <<request, ctxDone, sent, report, error, ret, events, database>>

\* ... and: a prefix that fits ends the search.
SearchTakesFirst ==
    /\ pc = "probe"
    /\ IF search.low <= search.high
       THEN IF Fits(Probe)
            THEN Prepared(Probe) /\ pc' = "group" /\ search' = NoSearch
            ELSE search' = [search EXCEPT !.high = Probe - 1] /\ UNCHANGED <<pc, prepared>>
       ELSE Prepared(search.count) /\ pc' = "group" /\ search' = NoSearch
    /\ UNCHANGED <<request, ctxDone, sent, report, error, ret, events, database>>

\* One turn of compileMutationGroup's search, or its end.
Search ==
    /\ pc = "probe"
    /\ IF search.low <= search.high
       THEN LET seen == IF ~Refuses(opts.engineLimit, Probe) /\ Args(Probe) > 0
                        THEN [search EXCEPT !.rows = Probe, !.args = Args(Probe)]
                        ELSE search
            IN  /\ search' = IF Fits(Probe)
                             THEN [seen EXCEPT !.count = Probe, !.low = Probe + 1]
                             ELSE [seen EXCEPT !.high = Probe - 1]
                /\ UNCHANGED <<pc, prepared>>
       ELSE Prepared(search.count) /\ pc' = "group" /\ search' = NoSearch
    /\ UNCHANGED <<request, ctxDone, sent, report, error, ret, events, database>>

\* Everything is prepared: ctx.Err(), and the start of the batch's event or the
\* scope that it will run in.
Ready ==
    /\ pc = "group" /\ At \notin Inputs
    /\ IF ctxDone
       THEN Returns("error") /\ UNCHANGED events
       ELSE /\ pc' = IF opts.atomic THEN "begin" ELSE "send"
            /\ events' = IF opts.atomic THEN events ELSE [events EXCEPT !.batch = "open"]
            /\ UNCHANGED ret
    /\ UNCHANGED <<request, ctxDone, prepared, search, sent, report, error, database>>

----------------------------------------------------------------------------
(* Execution.                                                              *)

\* execAtomicMutationBatch opens a savepoint on a transaction and a transaction
\* on anything else; an executor may support neither, or return nothing.
Begin ==
    /\ pc = "begin"
    /\ \/ /\ opts.executor # "bare" /\ ~lost
          /\ pc' = "send" /\ events' = [events EXCEPT !.batch = "open"] /\ UNCHANGED ret
       \/ Returns("error") /\ UNCHANGED events
    /\ UNCHANGED <<request, ctxDone, prepared, search, sent, report, error, database>>

\* Mutant: a cancelled context ends the loop without an error.
SendBreaks ==
    /\ pc = "send"
    /\ \/ /\ sent < Len(prepared) /\ ~ctxDone
          /\ pc' = "answer" /\ events' = [events EXCEPT !.stmt = "open"]
       \/ /\ sent = Len(prepared) \/ ctxDone
          /\ pc' = "end" /\ UNCHANGED events
    /\ UNCHANGED <<request, ctxDone, prepared, search, sent, report, error, ret, database>>

\* execPreparedMutationBatches, between two statements.
Send ==
    /\ pc = "send"
    /\ \/ /\ sent < Len(prepared) /\ ~ctxDone
          /\ pc' = "answer" /\ events' = [events EXCEPT !.stmt = "open"] /\ UNCHANGED error
       \/ /\ sent < Len(prepared) /\ ctxDone
          /\ pc' = "end" /\ error' = "other" /\ UNCHANGED events
       \/ sent = Len(prepared) /\ pc' = "end" /\ UNCHANGED <<error, events>>
    /\ UNCHANGED <<request, ctxDone, prepared, search, sent, report, ret, database>>

\* The inputs of the statement under way.
Batch == prepared[sent + 1].start..prepared[sent + 1].end - 1

\* The server executes it: in this call's scope, in the caller's transaction or
\* on its own.  An update whose version predicate matches no row changes nothing.
Executed ==
    /\ ~lost
    /\ \E ms \in SUBSET {i \in Batch : plans[i].kind = "version"} :
          LET hit == Batch \ ms
          IN  /\ missed' = missed \cup ms
              /\ scope' = IF opts.atomic THEN scope \cup hit ELSE scope
              /\ held' = IF ~opts.atomic /\ IsTransaction THEN held \cup hit ELSE held
              /\ durable' = IF opts.atomic \/ IsTransaction THEN durable ELSE durable \cup hit

NotExecuted == UNCHANGED <<scope, held, durable, missed>>

\* Mutant: a failed statement counts as rejected without the classifier's word.
AnswerFailsRejected ==
    /\ pc' = "end"
    /\ inputs' = [i \in Inputs |-> IF i \in Batch THEN "Rejected" ELSE inputs[i]]
    /\ failed' = Batch
    /\ events' = [events EXCEPT !.stmt = "error"]
    /\ UNCHANGED sent

\* An error of Exec or RowsAffected, or no result: the inputs of the statement
\* are unknown, unless the classifier confirms a rejection.
AnswerFails ==
    /\ pc' = "end"
    /\ inputs' = [i \in Inputs |->
                     IF i \notin Batch THEN inputs[i]
                     ELSE IF opts.classifier /\ error' = "constraint" THEN "Rejected"
                     ELSE "Unknown"]
    /\ failed' = Batch
    /\ events' = [events EXCEPT !.stmt = "error"]
    /\ UNCHANGED sent

\* No error: the inputs are applied.  The count of affected rows is not looked at.
AnswerSucceeds ==
    /\ pc' = "send" /\ sent' = sent + 1
    /\ inputs' = [i \in Inputs |-> IF i \in Batch THEN "Applied" ELSE inputs[i]]
    /\ events' = [events EXCEPT !.stmt = "nil"]
    /\ UNCHANGED <<failed, error>>

\* A driver or a hook panics; the event of the statement is not completed.
AnswerPanics ==
    /\ pc' = "end" /\ error' = "panic"
    /\ UNCHANGED <<inputs, failed, sent, events>>

\* executor.Exec: the statement runs and the caller learns it; it runs and an
\* After hook fails, the result is unreadable or the connection breaks; a Before
\* hook, the server or a dead connection refuses it; something panics.
Answer ==
    /\ pc = "answer"
    /\ \/ Executed /\ AnswerSucceeds /\ UNCHANGED overruled
       \/ Executed /\ error' \in {"other"} \cup HookErrors /\ AnswerFails
          /\ overruled' = IF error' = "constraint" THEN overruled \cup Batch ELSE overruled
       \/ NotExecuted /\ error' \in {"other", "constraint"} /\ (lost => error' = "other")
          /\ AnswerFails /\ UNCHANGED overruled
       \/ (Executed \/ NotExecuted) /\ AnswerPanics /\ UNCHANGED overruled
    /\ UNCHANGED <<request, ctxDone, prepared, search, durability, ret, lost, caller>>

----------------------------------------------------------------------------
(* The end of the call.                                                    *)

Attempted == {i \in Inputs : inputs[i] # "Unattempted"}

Mark(is, o) == inputs' = [i \in Inputs |-> IF i \in is THEN o ELSE inputs[i]]

Completed(r) == events' = [events EXCEPT !.batch = IF r = "nil" THEN "nil" ELSE "error"]

\* Mutant: the deferred function re-panics without completing the event.
ReturnPanicUncompleted ==
    /\ pc = "end" /\ ~opts.atomic
    /\ LET r == CASE error = "none" -> "nil" [] error = "panic" -> "panic" [] OTHER -> "error"
       IN  Returns(r) /\ IF r = "panic" THEN UNCHANGED events ELSE Completed(r)
    /\ UNCHANGED <<request, ctxDone, prepared, search, sent, report, error, database>>

\* ExecBatch without a scope; a panic completes the event and goes on.
Return ==
    /\ pc = "end" /\ ~opts.atomic
    /\ LET r == CASE error = "none" -> "nil" [] error = "panic" -> "panic" [] OTHER -> "error"
       IN  Returns(r) /\ Completed(r)
    /\ UNCHANGED <<request, ctxDone, prepared, search, sent, report, error, database>>

\* The finalizer answers nil.  Rollback of a transaction that is already over
\* is no error, ROLLBACK TO on a dead connection is.
RollbackSucceeds ==
    /\ lost => ~IsTransaction
    /\ scope' = {} /\ UNCHANGED held
    /\ Mark({i \in Attempted : inputs[i] = "Applied"}, "RolledBack")
    /\ durability' = "Pending"
    /\ LET r == IF error = "panic" THEN "panic" ELSE "error" IN Returns(r) /\ Completed(r)

\* Mutant: what was attempted is reported as rolled back all the same.
RollbackFailsUnnoticed ==
    /\ \/ scope' = {} /\ UNCHANGED held
       \/ scope' = {} /\ IsTransaction /\ held' = held \cup scope
    /\ Mark({i \in Attempted : inputs[i] = "Applied"}, "RolledBack")
    /\ durability' = "Pending"
    /\ LET r == IF error = "panic" THEN "panic" ELSE "error" IN Returns(r) /\ Completed(r)

\* It answers with an error, done or not: what a savepoint holds is then part
\* of the caller's transaction, and a transaction is never committed.
RollbackFails ==
    /\ \/ scope' = {} /\ UNCHANGED held
       \/ scope' = {} /\ IsTransaction /\ held' = held \cup scope
    /\ Mark(Attempted, "Unknown")
    /\ durability' = "Unknown"
    /\ LET r == IF error = "panic" THEN "AtomicPanic" ELSE "error" IN Returns(r) /\ Completed(r)

\* execAtomicMutationBatch after an error or a panic.
Rollback ==
    /\ pc = "end" /\ opts.atomic /\ error # "none"
    /\ RollbackSucceeds \/ RollbackFails
    /\ UNCHANGED <<request, ctxDone, prepared, search, sent, failed, error, durable, missed,
                   overruled, lost, caller>>

\* COMMIT or RELEASE takes effect.
Committed ==
    /\ ~lost /\ scope' = {}
    /\ held' = IF IsTransaction THEN held \cup scope ELSE held
    /\ durable' = IF IsTransaction THEN durable ELSE durable \cup scope

\* ... or not; a savepoint that is not released leaves its rows in the
\* caller's transaction.
NotCommitted ==
    /\ scope' = {} /\ UNCHANGED durable
    /\ held' = IF IsTransaction THEN held \cup scope ELSE held

\* execAtomicMutationBatch after the last statement.
Commit ==
    /\ pc = "end" /\ opts.atomic /\ error = "none"
    /\ \/ Committed /\ durability' = ExecutorDurability
          /\ Returns("nil") /\ Completed("nil") /\ UNCHANGED inputs
       \/ (Committed \/ NotCommitted) /\ durability' = "Unknown"
          /\ Returns("error") /\ Completed("error") /\ Mark(Attempted, "Unknown")
    /\ UNCHANGED <<request, ctxDone, prepared, search, sent, failed, error, missed,
                   overruled, lost, caller>>

----------------------------------------------------------------------------
(* The environment.                                                        *)

\* The caller's context is cancelled.
Cancel ==
    /\ ~ctxDone /\ ctxDone' = TRUE /\ ret = "none"
    /\ UNCHANGED <<request, pc, prepared, search, sent, report, error, ret, events, database>>

\* The connection of the open transaction breaks, or database/sql rolls the
\* transaction back because its context was cancelled.
Break ==
    /\ ~lost /\ caller = "none"
    /\ IsTransaction \/ (opts.atomic /\ pc \in {"send", "answer", "end"})
    /\ lost' = TRUE /\ held' = {} /\ scope' = {}
    /\ UNCHANGED <<request, ctxDone, pc, prepared, search, sent, report, error, ret, events,
                   durable, missed, overruled, caller>>

\* The caller ends its transaction; COMMIT takes effect unless it is gone.
CallerEnds ==
    /\ pc = "done" /\ IsTransaction /\ pc' = "over" /\ held' = {}
    /\ \/ caller' = "committed" /\ ~lost /\ durable' = durable \cup held
       \/ caller' = "rolled back" /\ UNCHANGED durable
    /\ UNCHANGED <<request, ctxDone, prepared, search, sent, report, error, ret, events, scope,
                   missed, overruled, lost>>

Step == Start \/ Group \/ Search \/ Ready \/ Begin \/ Send \/ Answer \/ Return \/ Rollback \/ Commit

Next == Step \/ Cancel \/ Break \/ CallerEnds

Spec == Init /\ [][Next]_vars /\ WF_vars(Step)

----------------------------------------------------------------------------
(* Properties.                                                             *)

\* What ExecBatch reports of an input is what became of it, whatever hooks, the
\* server and the connection did, and whatever the caller does later: an input
\* applied and committed is durable; one applied and pending is durable when the
\* caller has committed; one rolled back, rejected or unattempted is not in the
\* database and will not be.  Two exceptions, and no third: "applied" says
\* nothing of a versioned update that matched no row, as the count of affected
\* rows is read and dropped (mutation.go:622); and "rejected" is the classifier's
\* word on whatever error came back (mutation.go:628), so an After hook whose
\* error wraps a constraint error makes it of a statement that took effect.
OutcomeIsTrue ==
    ret \in {"nil", "error"} =>
        \A i \in Inputs :
            /\ inputs[i] = "Applied" /\ durability = "Committed" => i \in durable \cup missed
            /\ inputs[i] = "Applied" /\ caller = "committed" => i \in durable \cup missed
            /\ inputs[i] \in {"RolledBack", "Rejected", "Unattempted"}
                  /\ i \in durable \cup held \cup scope
                  => inputs[i] = "Rejected" /\ i \in overruled

\* What an atomic batch changes is durable as a whole or not at all, at every
\* moment, also when it panics, is cancelled or loses its connection; on a
\* savepoint this needs a cleanup that did not fail, and a failed one is
\* reported.  The whole is every input but the versioned ones that match no row:
\* these do not undo the others.
AtomicAllOrNothing ==
    opts.atomic =>
        \/ durable \in {{}, Inputs \ missed}
        \/ caller = "committed" /\ (ret = "AtomicPanic" \/ durability = "Unknown")

\* A nil error means that every input was sent and took effect, except exactly
\* the versioned updates that matched no row: ExecBatch does not report these,
\* where Exec answers ErrPrecondition ("A zero-row result reports
\* `ErrPrecondition`", docs/orm/04-writing.md:44).
NilMeansAll ==
    ret = "nil" /\ caller # "rolled back" /\ ~lost => durable \cup held = Inputs \ missed

Together(i, n) ==
    LET sum[k \in Nat] == IF k = 0 THEN 0 ELSE sum[k - 1] + plans[i + k - 1].args
    IN  /\ i + n - 1 \in Inputs /\ n <= MaxRows
        /\ \A k \in i..i + n - 1 : plans[k].kind = "create" /\ plans[k].columns = plans[i].columns
        /\ BindLimit > 0 => sum[n] <= BindLimit

\* The statements stand for the inputs in order, each input once; an insert of
\* several inputs respects both limits, and one more input would not have
\* fitted.  The search by measured prices finds the same cut as trying every
\* prefix.
StatementsAreLongest ==
    \A k \in DOMAIN prepared :
        LET i == prepared[k].start
            n == prepared[k].end - i
        IN  /\ i = (IF k = 1 THEN 1 ELSE prepared[k - 1].end)
            /\ n = 1 \/ Together(i, n)
            /\ ~Together(i, n + 1)

\* The batch's event is completed exactly when the call is over, once, with an
\* error exactly when the caller gets one or a panic; and so is the event of
\* every statement that did not panic.
EventMatchesReturn ==
    /\ events.batch = "open" => ret = "none"
    /\ ret # "none" /\ events.batch # "none" => (events.batch = "nil" <=> ret = "nil")
    /\ ret # "none" /\ events.stmt = "open" => ret \in {"panic", "AtomicPanic"}

\* Every call returns or panics, once the driver's calls return: the search for
\* the longest prefix ends.
CallReturns == <>(ret # "none")
=============================================================================
