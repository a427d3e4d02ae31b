-------------------------------- MODULE Rows --------------------------------
(***************************************************************************)
(* The row sources of a transaction executor.  A query hands out eventRows *)
(* around exclusiveRows around ownedRows around *sql.Rows; each layer has  *)
(* its own "once".  Consumers are goroutines that share a source: one of   *)
(* them iterates, any of them may end the source with Finish or Close.     *)
(* A Finish is several steps, because ownedRows gives up its mutex while   *)
(* it closes the driver's rows and the outer layers run without it.        *)
(***************************************************************************)
EXTENDS Integers, Sequences, FiniteSets

CONSTANTS
    Consumers,     \* the goroutines that hold the source
    Reader,        \* the one that queries and iterates
    \* and, for sources that are shared and for sources that are not:
    MaxQueries(_), \* bound on queries
    Arguments(_),  \* the [err, early] that callers pass to Finish
    MaxRows(_),    \* bound on the rows of a result
    MaxFaults(_)   \* bound on failures

ASSUME RowsAssumption ==
    /\ Reader \in Consumers
    /\ \A b \in BOOLEAN :
          /\ Arguments(b) \subseteq [err : SUBSET {"caller"}, early : BOOLEAN]
          /\ {MaxQueries(b), MaxRows(b), MaxFaults(b)} \subseteq Nat

VARIABLES
    token,   \* the query that holds the busy token, 0 if it is free
    cur,     \* the number of queries made
    src,     \* the row source of each query
    pc,      \* where each consumer is
    call,    \* the Finish or Close that each consumer is in
    raised,  \* the errors the driver raised, for each query
    shared,  \* how the sources are used: by all consumers, with Close as well
             \* as Finish, or by the reader alone, with Finish
    faults

vars == <<token, cur, src, pc, call, raised, shared, faults>>

Queries == 1..MaxQueries(shared)

\* The fields of ownedRows, exclusiveRows.released, eventRows.finished and
\* eventRows.rows; open is the driver's side, left the rows not yet read.
\* completions and terminals are what invocation and event observers got.
NoSource == [live |-> FALSE, open |-> FALSE, left |-> 0, exhausted |-> FALSE,
             closed |-> FALSE, completed |-> FALSE, errs |-> {}, rowsRead |-> 0,
             released |-> FALSE, finished |-> FALSE, rows |-> 0,
             completions |-> <<>>, terminals |-> <<>>]

\* The arguments and locals of a call; report is what the completion will say.
NoCall == [q |-> 0, via |-> "Finish", early |-> FALSE, result |-> {},
           report |-> [errs |-> {}, rows |-> 0, early |-> FALSE]]

Init ==
    /\ shared \in BOOLEAN /\ token = 0 /\ cur = 0 /\ faults = 0
    /\ src = [q \in Queries |-> NoSource]
    /\ pc = [c \in Consumers |-> "idle"]
    /\ call = [c \in Consumers |-> NoCall]
    /\ raised = [q \in Queries |-> {}]

S == src[cur]
Goto(c, l) == pc' = [pc EXCEPT ![c] = l]

\* The driver raises e in query q, or it does not.
Raises(q, e) ==
    /\ faults < MaxFaults(shared) /\ faults' = faults + 1
    /\ raised' = [raised EXCEPT ![q] = @ \cup {e}]

Quiet == UNCHANGED <<faults, raised>>

Returns(c) == Goto(c, "idle") /\ call' = [call EXCEPT ![c] = NoCall]

----------------------------------------------------------------------------
(* The query and the iteration, by the reader.                             *)

\* queryGuarded takes the token; a query that finds it taken is refused.
Query ==
    /\ pc[Reader] = "idle" /\ cur < MaxQueries(shared) /\ token = 0
    /\ cur' = cur + 1 /\ token' = cur + 1 /\ Goto(Reader, "query")
    /\ UNCHANGED <<src, call, raised, shared, faults>>

\* Mutant: the token is given back when the query returns.
QueryReturnsReleases ==
    /\ pc[Reader] = "query" /\ Goto(Reader, "idle") /\ token' = 0
    /\ \E n \in 0..MaxRows(shared) :
          src' = [src EXCEPT ![cur].live = TRUE, ![cur].open = TRUE, ![cur].left = n]
    /\ UNCHANGED <<cur, shared, call, raised, faults>>

\* queryOwned: rows, or an error of a hook or of the driver.  An After hook
\* that fails closes the rows again.  Without rows, the token is released and
\* queryObserved reports the end of the statement.
QueryReturns ==
    /\ pc[Reader] = "query" /\ Goto(Reader, "idle")
    /\ \/ /\ \E n \in 0..MaxRows(shared) :
                src' = [src EXCEPT ![cur].live = TRUE, ![cur].open = TRUE, ![cur].left = n]
          /\ UNCHANGED token /\ Quiet
       \/ \E e \in {"hook", "query"} :
             /\ Raises(cur, e) /\ token' = 0
             /\ src' = [src EXCEPT ![cur].terminals =
                           Append(@, [errs |-> {e}, rows |-> 0, early |-> FALSE])]
    /\ UNCHANGED <<cur, shared, call>>

Reading == pc[Reader] = "idle" /\ cur > 0 /\ S.live

\* Next finds a row, Scan decodes it, RecordRow counts it.
ReadRow ==
    /\ Reading /\ S.open /\ S.left > 0
    /\ src' = [src EXCEPT ![cur].left = @ - 1, ![cur].rows = @ + 1,
                          ![cur].rowsRead = IF S.completed THEN @ ELSE @ + 1]
    /\ UNCHANGED <<token, cur, shared, pc, call>> /\ Quiet

\* Scan or Columns fails; the source keeps the error for Finish.
ScanFails ==
    /\ Reading /\ S.open /\ S.left > 0 /\ Raises(cur, "scan")
    /\ src' = [src EXCEPT ![cur].left = @ - 1, ![cur].errs = @ \cup {"scan"}]
    /\ UNCHANGED <<token, cur, shared, pc, call>>

ColumnsFails ==
    /\ Reading /\ S.open /\ Raises(cur, "column")
    /\ src' = [src EXCEPT ![cur].errs = @ \cup {"column"}]
    /\ UNCHANGED <<token, cur, shared, pc, call>>

\* Next finds none: the result is exhausted, iteration failed, or another
\* consumer closed the rows.  *sql.Rows closes itself ...
NextEnds ==
    /\ Reading /\ ~S.exhausted
    /\ \/ (S.left = 0 \/ ~S.open) /\ Quiet
          /\ call' = [call EXCEPT ![Reader].result = {}]
       \/ S.open /\ Raises(cur, "iter")
          /\ call' = [call EXCEPT ![Reader].result = {"iter"}]
    /\ src' = [src EXCEPT ![cur].open = FALSE]
    /\ Goto(Reader, "exhaust")
    /\ UNCHANGED <<token, cur, shared>>

\* Mutant: the iteration error is not kept ...
ExhaustForgets ==
    /\ pc[Reader] = "exhaust" /\ Goto(Reader, "idle")
    /\ call' = [call EXCEPT ![Reader] = NoCall]
    /\ src' = [src EXCEPT ![cur].exhausted = TRUE, ![cur].closed = TRUE]
    /\ UNCHANGED <<token, cur, shared, raised, faults>>

\* ... and Next records it under the mutex.
Exhaust ==
    /\ pc[Reader] = "exhaust" /\ Goto(Reader, "idle")
    /\ call' = [call EXCEPT ![Reader] = NoCall]
    /\ src' = [src EXCEPT ![cur].exhausted = TRUE, ![cur].closed = TRUE,
                          ![cur].errs = @ \cup call[Reader].result]
    /\ UNCHANGED <<token, cur, shared, raised, faults>>

----------------------------------------------------------------------------
(* Finish(err, early), and Close, by any consumer of any source.           *)

\* What the completion reports, computed under the mutex.
Completion(q, err, early) ==
    [errs |-> err \cup src[q].errs, rows |-> src[q].rowsRead,
     early |-> early /\ ~src[q].exhausted]

\* ownedRows.Finish up to the first point where it gives up the mutex.
End(c, q, via, err, early) ==
    /\ pc[c] = "idle" /\ src[q].live
    /\ LET started == [q |-> q, via |-> via, early |-> early, result |-> err,
                       report |-> Completion(q, err, early)]
       IN  \/ /\ src[q].completed /\ UNCHANGED src
              /\ IF via = "Close"
                 THEN Returns(c)
                 ELSE Goto(c, "release") /\ call' = [call EXCEPT ![c] = started]
           \/ /\ ~src[q].completed
              /\ src' = [src EXCEPT ![q].completed = TRUE, ![q].closed = TRUE]
              /\ call' = [call EXCEPT ![c] = started]
              /\ Goto(c, IF src[q].closed THEN "complete" ELSE "close")
    /\ UNCHANGED <<token, cur, shared, raised, faults>>

Finish(c, q, a) == (shared \/ c = Reader) /\ End(c, q, "Finish", a.err, a.early)

\* ownedRows.Close, which the outer layers inherit.
CloseEarly(c, q) == shared /\ End(c, q, "Close", {}, TRUE)

\* rows.Close, and the mutex again.
Close(c) ==
    LET q == call[c].q
        e == src'[q].errs
    IN  /\ pc[c] = "close" /\ Goto(c, "complete")
        /\ \/ Quiet /\ src' = [src EXCEPT ![q].open = FALSE]
           \/ /\ src[q].open /\ Raises(q, "close")
              /\ src' = [src EXCEPT ![q].open = FALSE, ![q].errs = @ \cup {"close"}]
        /\ call' = [call EXCEPT ![c].report =
                       [errs |-> call[c].result \cup e, rows |-> src[q].rowsRead,
                        early |-> call[c].early /\ ~src[q].exhausted]]
        /\ UNCHANGED <<token, cur, shared>>

\* completeInvocation; a Close is done with that.
Complete(c) ==
    LET q == call[c].q
    IN  /\ pc[c] = "complete"
        /\ src' = [src EXCEPT ![q].completions = Append(@, call[c].report)]
        /\ IF call[c].via = "Close" THEN Returns(c)
           ELSE /\ Goto(c, "release")
                /\ call' = [call EXCEPT ![c].result = call[c].report.errs]
        /\ UNCHANGED <<token, cur, shared, raised, faults>>

\* Mutant: released is not consulted, every Finish receives.
ReleaseAlways(c) ==
    LET q == call[c].q
    IN  /\ pc[c] = "release" /\ Goto(c, "terminal")
        /\ token = q /\ token' = 0
        /\ src' = [src EXCEPT ![q].released = TRUE]
        /\ UNCHANGED <<cur, shared, call, raised, faults>>

\* exclusiveRows.Finish: the first to get here receives from the channel,
\* which would block on an empty one.
ReleaseToken(c) ==
    LET q == call[c].q
    IN  /\ pc[c] = "release" /\ Goto(c, "terminal")
        /\ IF src[q].released THEN UNCHANGED <<src, token>>
           ELSE /\ token # 0 /\ token' = 0
                /\ src' = [src EXCEPT ![q].released = TRUE]
        /\ UNCHANGED <<cur, shared, call, raised, faults>>

\* Mutant: finished is not consulted.
TerminalAlways(c) ==
    LET q == call[c].q
    IN  /\ pc[c] = "terminal"
        /\ src' = [src EXCEPT ![q].finished = TRUE, ![q].terminals =
                       Append(@, [errs |-> call[c].result, rows |-> src[q].rows,
                                  early |-> call[c].early])]
        /\ Returns(c)
        /\ UNCHANGED <<token, cur, shared, raised, faults>>

\* eventRows.Finish: the first to get here reports the end of the statement.
Terminal(c) ==
    LET q == call[c].q
    IN  /\ pc[c] = "terminal"
        /\ IF src[q].finished THEN UNCHANGED src
           ELSE src' = [src EXCEPT ![q].finished = TRUE, ![q].terminals =
                           Append(@, [errs |-> call[c].result, rows |-> src[q].rows,
                                      early |-> call[c].early])]
        /\ Returns(c)
        /\ UNCHANGED <<token, cur, shared, raised, faults>>

Proceed(c) == Close(c) \/ Complete(c) \/ ReleaseToken(c) \/ Terminal(c)

Next ==
    \/ Query \/ QueryReturns \/ ReadRow \/ ScanFails \/ ColumnsFails \/ NextEnds \/ Exhaust
    \/ \E c \in Consumers :
          \/ \E q \in Queries, a \in Arguments(shared) : Finish(c, q, a)
          \/ \E q \in Queries : CloseEarly(c, q)
          \/ Proceed(c)

\* A goroutine that is in a call is scheduled.
Fairness == WF_vars(QueryReturns \/ Exhaust) /\ \A c \in Consumers : WF_vars(Proceed(c))

Spec == Init /\ [][Next]_vars /\ Fairness

----------------------------------------------------------------------------
(* Properties.                                                             *)

\* A source that has not released the token owns it, so that its release frees
\* its own token and not that of a later query.  For the one consumer of a source
\* the token also covers the driver's rows: while they are open no other
\* statement can start.
TokenIsHeld ==
    \A q \in Queries :
        /\ src[q].live /\ ~src[q].released => token = q
        /\ src[q].open /\ ~shared => token = q

\* Every error that the driver raised while its one consumer read or closed the
\* source is in the completion, together with the caller's.
ErrorsReported ==
    \A q \in Queries : src[q].completions # <<>> /\ ~shared =>
        raised[q] \subseteq src[q].completions[1].errs

\* However many consumers end a source, in whatever order, its consumption is
\* completed once and its statement gets one terminal event.  With one consumer
\* the two agree about rows and errors, an early end is one for the event as
\* well, and a statement that failed or was consumed has its terminal event.
EndsOnce ==
    \A q \in 1..cur :
        /\ Len(src[q].completions) <= 1 /\ Len(src[q].terminals) <= 1
        /\ ~shared /\ src[q].completions # <<>> /\ src[q].finished =>
              LET a == src[q].completions[1]
                  b == src[q].terminals[1]
              IN  a.errs = b.errs /\ a.rows = b.rows /\ (a.early => b.early)
        /\ ~shared /\ pc[Reader] = "idle" /\ (src[q].live => src[q].completed) =>
              src[q].terminals # <<>>

\* A Finish or Close returns: nobody waits for a token that is gone.
FinishReturns == \A c \in Consumers : pc[c] # "idle" ~> pc[c] = "idle"
=============================================================================
