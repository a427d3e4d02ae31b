----------------------------- MODULE RowsProof -----------------------------
(***************************************************************************)
(* Theorems about Rows, for any number of consumers, queries, rows and     *)
(* failures: a source is ended once, holds its own token, and tells its    *)
(* one consumer every error.                                               *)
(***************************************************************************)
EXTENDS Rows, TLAPS

Errors == {"caller", "hook", "query", "scan", "column", "iter", "close"}

Reports == [errs : SUBSET Errors, rows : Nat, early : BOOLEAN]

Sources == [live : BOOLEAN, open : BOOLEAN, left : Nat, exhausted : BOOLEAN,
            closed : BOOLEAN, completed : BOOLEAN, errs : SUBSET Errors, rowsRead : Nat,
            released : BOOLEAN, finished : BOOLEAN, rows : Nat,
            completions : Seq(Reports), terminals : Seq(Reports)]

Labels == {"idle", "query", "exhaust", "close", "complete", "release", "terminal"}

CallRecords == [q : Nat, via : {"Finish", "Close"}, early : BOOLEAN,
                result : SUBSET Errors, report : Reports]

\* The types of the variables.
TypeOK ==
    /\ shared \in BOOLEAN /\ cur \in 0..MaxQueries(shared) /\ token \in Nat
    /\ src \in [Queries -> Sources]
    /\ pc \in [Consumers -> Labels]
    /\ call \in [Consumers -> CallRecords]
    /\ raised \in [Queries -> SUBSET Errors]
    /\ faults \in Nat

\* A consumer is in the part of a call that only the one who set completed
\* runs, and in the part that every Finish runs.
Ending(c) == pc[c] \in {"close", "complete"}
Leaving(c) == pc[c] \in {"release", "terminal"}

\* What a source says about itself: before its query has returned it is blank;
\* alive and not released it owns the token; each layer ends it once.
SourceInv(q) ==
    LET s == src[q]
    IN  /\ q > cur \/ (q = cur /\ pc[Reader] = "query") => s = NoSource /\ raised[q] = {}
        /\ s.live /\ ~s.released => token = q
        /\ s.released \/ s.finished => s.completed
        /\ ~s.completed => s.completions = <<>>
        /\ s.live /\ ~s.finished => s.terminals = <<>>
        /\ s.finished => s.live /\ s.terminals # <<>>
        /\ ~s.live /\ q <= cur => s.terminals # <<>> \/ (q = cur /\ pc[Reader] = "query")
        /\ Len(s.completions) <= 1 /\ Len(s.terminals) <= 1

\* A call is about a source that was handed out, and has marked it; the one
\* that will complete it has not done so yet, and there is only one.
CallInv(c) ==
    /\ pc[c] \in {"query", "exhaust"} => c = Reader /\ cur > 0
    /\ pc[c] = "query" => token = cur
    /\ pc[c] = "exhaust" => src[cur].live
    /\ Ending(c) \/ Leaving(c) =>
          call[c].q \in Queries /\ src[call[c].q].live /\ src[call[c].q].completed
    /\ Ending(c) => src[call[c].q].completions = <<>>

OneEnds == \A c, d \in Consumers :
              Ending(c) /\ Ending(d) /\ call[c].q = call[d].q => c = d

\* With one consumer a source is also closed before its token is released, its
\* counters agree, and what its calls have in hand is what they will report.
Busy(q) == (Ending(Reader) \/ Leaving(Reader)) /\ call[Reader].q = q

AloneSource(q) ==
    LET s == src[q]
        a == s.completions[1]
        b == s.terminals[1]
    IN  /\ s.open => s.live
        /\ s.rows = s.rowsRead
        /\ s.closed /\ s.open => pc[Reader] = "close" /\ call[Reader].q = q
        /\ s.completed => s.closed
        /\ s.completed => s.finished \/ Busy(q)
        /\ s.live => raised[q] \subseteq s.errs \cup
                        (IF pc[Reader] = "exhaust" /\ q = cur THEN call[Reader].result ELSE {})
        /\ s.completions # <<>> => raised[q] \subseteq a.errs
        /\ s.completions # <<>> /\ s.finished =>
              a.errs = b.errs /\ a.rows = b.rows /\ (a.early => b.early)

AloneCall ==
    LET k == call[Reader]
        s == src[k.q]
        a == s.completions[1]
    IN  /\ \A c \in Consumers \ {Reader} : pc[c] = "idle"
        /\ k.via = "Finish"
        /\ pc[Reader] = "exhaust" => ~src[cur].open
        /\ pc[Reader] = "exhaust" /\ src[cur].completed => k.result = {}
        /\ Ending(Reader) => ~s.finished /\ ~s.released
        /\ pc[Reader] = "complete" => s.errs \subseteq k.report.errs
        /\ pc[Reader] = "complete" => k.report.rows = s.rowsRead /\ (k.report.early => k.early)
        /\ Leaving(Reader) /\ ~s.finished =>
              /\ s.completions # <<>> /\ k.result = a.errs
              /\ a.rows = s.rows /\ (a.early => k.early)

Alone == ~shared => AloneCall /\ \A q \in Queries : AloneSource(q)

\* The inductive invariant.
IInv == /\ TypeOK /\ OneEnds /\ Alone
        /\ \A q \in Queries : SourceInv(q)
        /\ \A c \in Consumers : CallInv(c)

-----------------------------------------------------------------------------
\* The blank source and the blank call.
LEMMA Blank ==
    /\ NoSource \in Sources /\ NoCall \in CallRecords
    /\ ~NoSource.live /\ ~NoSource.open /\ ~NoSource.completed /\ ~NoSource.finished
    /\ ~NoSource.released /\ ~NoSource.closed /\ NoSource.rows = NoSource.rowsRead
    /\ NoSource.completions = <<>> /\ NoSource.terminals = <<>> /\ NoSource.errs = {}
    /\ NoCall.via = "Finish"
<1>1. NoSource \in Sources /\ NoCall \in CallRecords
      BY DEF NoSource, NoCall, Sources, CallRecords, Reports
<1> QED BY <1>1 DEF NoSource, NoCall

LEMMA InitIInv == Init => IInv
<1> SUFFICES ASSUME Init PROVE IInv
    OBVIOUS
<1>2. TypeOK
      BY Blank, RowsAssumption DEF Init, TypeOK, Queries, Labels
<1>3. \A c \in Consumers : pc[c] = "idle" /\ call[c] = NoCall
      BY DEF Init
<1>4. \A q \in Queries : src[q] = NoSource /\ raised[q] = {} /\ q > cur
      BY <1>2 DEF Init, Queries
<1>5. ASSUME NEW q \in Queries PROVE SourceInv(q) /\ AloneSource(q)
  <2>1. q \in Nat /\ cur = 0
        BY RowsAssumption DEF Init, Queries
  <2>3. SourceInv(q)
        BY <1>4, <2>1, Blank DEF SourceInv
  <2> QED BY <1>4, <2>3, Blank DEF AloneSource
<1>6. ASSUME NEW c \in Consumers PROVE CallInv(c)
      BY <1>3 DEF CallInv, Ending, Leaving
<1>7. OneEnds
      BY <1>3 DEF OneEnds, Ending
<1>8. AloneCall
      BY <1>3, Blank, RowsAssumption DEF AloneCall, Ending, Leaving
<1> QED BY <1>2, <1>5, <1>6, <1>7, <1>8 DEF IInv, Alone

-----------------------------------------------------------------------------
(* Steps that leave alone what the layers remember of a source.            *)

\* t differs from s in what the driver and the iteration know only.
Untouched(s, t) ==
    /\ t.live = s.live /\ t.completed = s.completed /\ t.released = s.released
    /\ t.finished = s.finished /\ t.completions = s.completions /\ t.terminals = s.terminals

\* A step that updates the source of q with t.
Updates(q, t) == q \in Queries /\ t \in Sources /\ src' = [src EXCEPT ![q] = t]

LEMMA UpdatesSource ==
    ASSUME TypeOK, NEW q, NEW t, Updates(q, t), UNCHANGED shared
    PROVE  /\ q \in Queries /\ src'[q] = t /\ src' \in [Queries -> Sources]
           /\ \A p \in Queries : p # q => src'[p] = src[p]
BY Zenon DEF TypeOK, Updates

\* The sources that are blank are not handed out.
LEMMA BlankIsDead ==
    ASSUME NEW q \in Queries, SourceInv(q), src[q].live
    PROVE  ~(q > cur) /\ ~(q = cur /\ pc[Reader] = "query")
BY Blank DEF SourceInv

LEMMA SourceFrame ==
    ASSUME NEW p, SourceInv(p), src'[p] = src[p], raised'[p] = raised[p],
           UNCHANGED <<token, cur>>,
           pc'[Reader] = "query" <=> pc[Reader] = "query"
    PROVE  SourceInv(p)'
BY Zenon DEF SourceInv

LEMMA SourceKept ==
    ASSUME TypeOK, NEW q, NEW t, Updates(q, t), src[q].live, Untouched(src[q], t),
           SourceInv(q), UNCHANGED <<token, cur, shared>>,
           pc'[Reader] = "query" <=> pc[Reader] = "query",
           NEW p \in Queries, SourceInv(p), p # q => raised'[p] = raised[p]
    PROVE  SourceInv(p)'
<1>1. CASE p = q
  <2>1. src'[p] = t /\ ~(p > cur) /\ ~(p = cur /\ pc[Reader] = "query")
        BY <1>1, UpdatesSource, BlankIsDead
  <2> QED BY Zenon, <1>1, <2>1 DEF SourceInv, Untouched
<1>2. CASE p # q
      BY <1>2, UpdatesSource, SourceFrame
<1> QED BY <1>1, <1>2

LEMMA CallKept ==
    ASSUME TypeOK, NEW q, NEW t, Updates(q, t), Untouched(src[q], t),
           UNCHANGED <<token, cur, shared>>,
           NEW c \in Consumers, CallInv(c), pc'[c] = pc[c], call'[c].q = call[c].q
    PROVE  CallInv(c)'
<1>1. /\ src'[q] = t /\ \A p \in Queries : p # q => src'[p] = src[p]
      BY UpdatesSource
<1>2. \A p \in Queries : /\ src'[p].live = src[p].live /\ src'[p].completed = src[p].completed
                          /\ src'[p].completions = src[p].completions
      BY <1>1 DEF Untouched
<1>3. pc[c] = "exhaust" => cur \in Queries
      BY DEF CallInv, TypeOK, Queries
<1>4. Queries' = Queries
      BY DEF Queries
<1> QED BY <1>2, <1>3, <1>4 DEF CallInv, Ending, Leaving

\* Nobody begins to end a source.
LEMMA OneEndsKept ==
    ASSUME OneEnds,
           \A c \in Consumers : Ending(c)' => Ending(c) /\ call'[c].q = call[c].q
    PROVE  OneEnds'
BY DEF OneEnds

LEMMA AloneFrame ==
    ASSUME NEW p, AloneSource(p), src'[p] = src[p], raised'[p] = raised[p],
           UNCHANGED cur, pc'[Reader] = pc[Reader], call'[Reader] = call[Reader]
    PROVE  AloneSource(p)'
BY Zenon DEF AloneSource, Busy, Ending, Leaving
\* Between calls, and while its query runs, the one consumer has nothing in hand.
LEMMA AloneQuiet ==
    ASSUME \A c \in Consumers \ {Reader} : pc'[c] = "idle",
           pc'[Reader] \in {"idle", "query"}, call'[Reader].via = "Finish"
    PROVE  AloneCall'
<1>1. ~Ending(Reader)' /\ ~Leaving(Reader)' /\ pc'[Reader] \notin {"exhaust", "complete"}
      BY DEF Ending, Leaving
<1> QED BY Zenon, <1>1 DEF AloneCall

LEMMA AloneFacts ==
    ASSUME IInv, ~shared
    PROVE  /\ \A c \in Consumers \ {Reader} : pc[c] = "idle"
           /\ call[Reader].via = "Finish" /\ AloneCall
           /\ \A q \in Queries : AloneSource(q)
BY Zenon DEF IInv, Alone, AloneCall

-----------------------------------------------------------------------------
(* The query and the iteration.                                            *)

\* What the reader meets in an open source that it alone uses.
LEMMA OpenAlone ==
    ASSUME IInv, ~shared, Reading, S.open
    PROVE  /\ ~src[cur].closed /\ ~src[cur].completed /\ src[cur].completions = <<>>
           /\ raised[cur] \subseteq src[cur].errs /\ src[cur].rows = src[cur].rowsRead
<1>1. cur \in Queries /\ pc[Reader] = "idle" /\ src[cur].live /\ src[cur].open
      BY DEF IInv, TypeOK, Reading, S, Queries
<1>2. AloneSource(cur) /\ SourceInv(cur)
      BY <1>1 DEF IInv, Alone
<1>3. ~src[cur].closed /\ ~src[cur].completed
      BY <1>1, <1>2 DEF AloneSource
<1> QED BY <1>1, <1>2, <1>3 DEF AloneSource, SourceInv

\* A row or an error: the source stays open and the reader idle.
LEMMA ReadingStep ==
    ASSUME IInv, Reading, S.open,
           NEW t, Updates(cur, t), Untouched(src[cur], t),
           t.open = src[cur].open, t.closed = src[cur].closed,
           src[cur].rows = src[cur].rowsRead /\ ~src[cur].completed => t.rows = t.rowsRead,
           src[cur].errs \subseteq t.errs, raised'[cur] \subseteq raised[cur] \cup t.errs,
           \A p \in Queries : p # cur => raised'[p] = raised[p],
           raised' \in [Queries -> SUBSET Errors], faults' \in Nat,
           UNCHANGED <<token, cur, shared, pc, call>>
    PROVE  IInv'
<1>1. cur \in Queries /\ pc[Reader] = "idle" /\ src[cur].live /\ Queries' = Queries
      BY DEF IInv, TypeOK, Reading, S, Queries
<1>2. /\ src'[cur] = t /\ src' \in [Queries -> Sources]
      /\ \A p \in Queries : p # cur => src'[p] = src[p]
      BY UpdatesSource DEF IInv
<1>3. TypeOK'
      BY <1>1, <1>2 DEF IInv, TypeOK
<1>4. ASSUME NEW p \in Queries PROVE SourceInv(p)'
      BY <1>1, SourceKept DEF IInv
<1>5. ASSUME NEW c \in Consumers PROVE CallInv(c)'
      BY CallKept DEF IInv
<1>6. OneEnds'
      BY OneEndsKept DEF IInv, Ending
<1>7. ASSUME ~shared PROVE AloneCall'
  <2>1. /\ \A c \in Consumers \ {Reader} : pc[c] = "idle"
        /\ call[Reader].via = "Finish"
        BY ZenonT(30), <1>7, AloneFacts
  <2> QED BY <1>1, <2>1, AloneQuiet
<1>8. ASSUME ~shared, NEW p \in Queries PROVE AloneSource(p)'
  <2>1. AloneSource(p) /\ AloneSource(cur)
        BY <1>1, <1>8 DEF IInv, Alone
  <2>2. CASE p # cur
        BY <1>2, <1>8, <2>1, <2>2, AloneFrame
  <2>3. CASE p = cur
    <3>1. /\ ~src[cur].closed /\ ~src[cur].completed /\ src[cur].completions = <<>>
          /\ raised[cur] \subseteq src[cur].errs /\ src[cur].rows = src[cur].rowsRead
          BY <1>8, OpenAlone
    <3>2. raised'[cur] \subseteq t.errs /\ t.rows = t.rowsRead
          BY <3>1
    <3> QED BY Zenon, <1>1, <1>2, <2>1, <2>3, <3>1, <3>2 DEF AloneSource, Untouched
  <2> QED BY <2>2, <2>3
<1> QED BY <1>1, <1>3, <1>4, <1>5, <1>6, <1>7, <1>8 DEF IInv, Alone

LEMMA ReadRowStep == ASSUME IInv, ReadRow PROVE IInv'
<1> DEFINE n == IF S.completed THEN S.rowsRead ELSE S.rowsRead + 1
           t == [src[cur] EXCEPT !.left = src[cur].left - 1, !.rows = src[cur].rows + 1,
                                 !.rowsRead = n]
<1>1. /\ Reading /\ S.open /\ src[cur].left > 0 /\ src' = [src EXCEPT ![cur] = t]
      /\ UNCHANGED <<token, cur, shared, pc, call, faults, raised>>
      BY Zenon DEF ReadRow, S, Quiet
<1>2. cur \in Queries /\ src[cur] \in Sources /\ raised \in [Queries -> SUBSET Errors]
      /\ faults \in Nat
      BY <1>1 DEF IInv, TypeOK, Queries, Reading
<1>3. src[cur].left - 1 \in Nat /\ src[cur].rows + 1 \in Nat /\ n \in Nat
      BY <1>1, <1>2 DEF Sources, S
<1>4. ~src[cur].completed => n = src[cur].rowsRead + 1
      BY DEF S
<1> HIDE DEF n
<1>5. /\ t \in Sources /\ t.rows = src[cur].rows + 1 /\ t.rowsRead = n
      /\ t.open = src[cur].open /\ t.closed = src[cur].closed /\ t.errs = src[cur].errs
      BY Zenon, <1>2, <1>3 DEF Sources
<1>6. Untouched(src[cur], t)
      BY Zenon, <1>2 DEF Sources, Untouched
<1> HIDE DEF t
<1>7. src[cur].rows = src[cur].rowsRead /\ ~src[cur].completed => t.rows = t.rowsRead
      BY <1>4, <1>5
<1> QED BY Zenon, <1>1, <1>2, <1>5, <1>6, <1>7, ReadingStep DEF Updates

\* The driver's errors are counted and kept for the query.
LEMMA RaisesTypes ==
    ASSUME TypeOK, NEW q \in Queries, NEW e \in Errors, Raises(q, e)
    PROVE  /\ faults' \in Nat /\ raised' \in [Queries -> SUBSET Errors]
           /\ raised'[q] = raised[q] \cup {e}
           /\ \A p \in Queries : p # q => raised'[p] = raised[p]
BY DEF TypeOK, Raises

LEMMA ScanFailsStep == ASSUME IInv, ScanFails PROVE IInv'
<1> DEFINE t == [src[cur] EXCEPT !.left = src[cur].left - 1, !.errs = src[cur].errs \cup {"scan"}]
<1>1. /\ Reading /\ S.open /\ src[cur].left > 0 /\ src' = [src EXCEPT ![cur] = t]
      /\ Raises(cur, "scan") /\ UNCHANGED <<token, cur, shared, pc, call>>
      BY Zenon DEF ScanFails, S
<1>2. cur \in Queries /\ src[cur] \in Sources /\ TypeOK /\ "scan" \in Errors
      BY <1>1 DEF IInv, TypeOK, Queries, Reading, Errors
<1>3. src[cur].left - 1 \in Nat /\ src[cur].errs \cup {"scan"} \in SUBSET Errors
      BY <1>1, <1>2 DEF Sources
<1>4. /\ t \in Sources /\ t.rows = src[cur].rows /\ t.rowsRead = src[cur].rowsRead
      /\ t.open = src[cur].open /\ t.closed = src[cur].closed
      /\ t.errs = src[cur].errs \cup {"scan"}
      BY Zenon, <1>2, <1>3 DEF Sources
<1>5. Untouched(src[cur], t)
      BY Zenon, <1>2 DEF Sources, Untouched
<1> HIDE DEF t
<1> QED BY Zenon, <1>1, <1>2, <1>4, <1>5, RaisesTypes, ReadingStep DEF Updates

LEMMA ColumnsFailsStep == ASSUME IInv, ColumnsFails PROVE IInv'
<1> DEFINE t == [src[cur] EXCEPT !.errs = src[cur].errs \cup {"column"}]
<1>1. /\ Reading /\ S.open /\ src' = [src EXCEPT ![cur] = t]
      /\ Raises(cur, "column") /\ UNCHANGED <<token, cur, shared, pc, call>>
      BY Zenon DEF ColumnsFails, S
<1>2. cur \in Queries /\ src[cur] \in Sources /\ TypeOK /\ "column" \in Errors
      BY <1>1 DEF IInv, TypeOK, Queries, Reading, Errors
<1>3. src[cur].errs \cup {"column"} \in SUBSET Errors
      BY <1>1, <1>2 DEF Sources
<1>4. /\ t \in Sources /\ t.rows = src[cur].rows /\ t.rowsRead = src[cur].rowsRead
      /\ t.open = src[cur].open /\ t.closed = src[cur].closed
      /\ t.errs = src[cur].errs \cup {"column"}
      BY Zenon, <1>2, <1>3 DEF Sources
<1>5. Untouched(src[cur], t)
      BY Zenon, <1>2 DEF Sources, Untouched
<1> HIDE DEF t
<1> QED BY Zenon, <1>1, <1>2, <1>4, <1>5, RaisesTypes, ReadingStep DEF Updates
LEMMA QueryStep == ASSUME IInv, Query PROVE IInv'
<1>1. /\ pc[Reader] = "idle" /\ cur < MaxQueries(shared) /\ token = 0
      /\ cur' = cur + 1 /\ token' = cur + 1 /\ pc' = [pc EXCEPT ![Reader] = "query"]
      /\ UNCHANGED <<src, call, raised, shared, faults>>
      BY DEF Query, Goto
<1>2. Queries' = Queries /\ Queries \subseteq Nat \ {0} /\ cur \in Nat
      BY <1>1, RowsAssumption DEF Queries, IInv, TypeOK
<1>3. /\ Reader \in Consumers /\ pc'[Reader] = "query"
      /\ \A c \in Consumers : c # Reader => pc'[c] = pc[c]
      BY <1>1, RowsAssumption DEF IInv, TypeOK
<1>4. TypeOK'
      BY <1>1, <1>2, RowsAssumption DEF IInv, TypeOK, Labels
<1>5. ASSUME NEW p \in Queries PROVE SourceInv(p)'
  <2>1. SourceInv(p) /\ p \in Nat /\ p # 0
        BY <1>2 DEF IInv
  <2>2. ~(src[p].live /\ ~src[p].released)
        BY <1>1, <2>1 DEF SourceInv
  <2> QED BY <1>1, <1>2, <1>3, <2>1, <2>2 DEF SourceInv
<1>6. ASSUME NEW c \in Consumers PROVE CallInv(c)'
      BY <1>1, <1>2, <1>3 DEF IInv, CallInv, Ending, Leaving
<1>7. OneEnds'
  <2>1. \A c \in Consumers : Ending(c)' => Ending(c) /\ call'[c].q = call[c].q
        BY <1>1, <1>3 DEF Ending
  <2> QED BY <2>1, OneEndsKept DEF IInv
<1>8. ASSUME ~shared PROVE AloneCall'
      BY Zenon, <1>1, <1>3, <1>8, AloneQuiet, AloneFacts
<1>9. ASSUME ~shared, NEW p \in Queries PROVE AloneSource(p)'
      BY <1>1, <1>3, <1>9 DEF IInv, Alone, AloneSource, Busy, Ending, Leaving
<1> QED BY <1>1, <1>2, <1>4, <1>5, <1>6, <1>7, <1>8, <1>9 DEF IInv, Alone

\* The source of a query that has not returned.
LEMMA QueryBlank ==
    ASSUME IInv, pc[Reader] = "query"
    PROVE  /\ Reader \in Consumers /\ cur \in Queries /\ cur # 0 /\ token = cur
           /\ src[cur] = NoSource /\ raised[cur] = {} /\ TypeOK
           /\ \A c \in Consumers : Ending(c) \/ Leaving(c) => call[c].q # cur
<1>1. /\ Reader \in Consumers /\ CallInv(Reader) /\ cur \in Nat
      BY RowsAssumption DEF IInv, TypeOK
<1>2. cur \in Queries /\ token = cur /\ cur # 0
      BY <1>1 DEF IInv, TypeOK, CallInv, Queries
<1>3. src[cur] = NoSource /\ raised[cur] = {}
      BY <1>2 DEF IInv, SourceInv
<1> QED BY <1>1, <1>2, <1>3, Blank DEF IInv, CallInv

\* The query returns rows: a source that owns the token.
LEMMA RowsStep ==
    ASSUME IInv, pc[Reader] = "query", Goto(Reader, "idle"), NEW n \in Nat,
           src' = [src EXCEPT ![cur].live = TRUE, ![cur].open = TRUE, ![cur].left = n],
           UNCHANGED <<token, cur, shared, call, raised, faults>>
    PROVE  IInv'
<1> DEFINE t == [NoSource EXCEPT !.live = TRUE, !.open = TRUE, !.left = n]
<1>1. /\ Reader \in Consumers /\ cur \in Queries /\ cur # 0 /\ token = cur /\ TypeOK
      /\ src[cur] = NoSource /\ raised[cur] = {}
      /\ \A c \in Consumers : Ending(c) \/ Leaving(c) => call[c].q # cur
      BY QueryBlank
<1>2. src' = [src EXCEPT ![cur] = t]
      BY Zenon, <1>1 DEF TypeOK
<1>3. /\ t \in Sources /\ t.live /\ ~t.completed /\ ~t.closed /\ ~t.finished /\ ~t.released
      /\ t.completions = <<>> /\ t.terminals = <<>> /\ t.rows = t.rowsRead
      BY Zenon, Blank DEF Sources
<1> HIDE DEF t
<1>4. /\ src'[cur] = t /\ src' \in [Queries -> Sources]
      /\ \A p \in Queries : p # cur => src'[p] = src[p]
  <2>1. Updates(cur, t) /\ UNCHANGED shared
        BY Zenon, <1>1, <1>2, <1>3 DEF Updates
  <2> QED BY Zenon, <1>1, <2>1, UpdatesSource
<1>5. /\ pc' = [pc EXCEPT ![Reader] = "idle"] /\ pc'[Reader] = "idle" /\ Queries' = Queries
      /\ \A c \in Consumers : c # Reader => pc'[c] = pc[c]
      BY <1>1 DEF Goto, TypeOK, Queries
<1>6. TypeOK'
      BY <1>4, <1>5 DEF IInv, TypeOK, Labels
<1>7. ASSUME NEW p \in Queries PROVE SourceInv(p)'
  <2>1. CASE p = cur
    <3>1. ~(p > cur) /\ Len(<<>>) <= 1
          BY <1>1, <2>1 DEF TypeOK
    <3> QED BY Zenon, <1>1, <1>3, <1>4, <1>5, <2>1, <3>1 DEF SourceInv
  <2>2. CASE p # cur
        BY <1>4, <1>5, <2>2 DEF IInv, SourceInv
  <2> QED BY <2>1, <2>2
<1>8. ASSUME NEW c \in Consumers PROVE CallInv(c)'
      BY <1>1, <1>4, <1>5 DEF IInv, CallInv, Ending, Leaving
<1>9. OneEnds'
  <2>1. \A c \in Consumers : Ending(c)' => Ending(c) /\ call'[c].q = call[c].q
        BY <1>5 DEF Ending
  <2> QED BY <2>1, OneEndsKept DEF IInv
<1>a. ASSUME ~shared PROVE AloneCall'
      BY Zenon, <1>5, <1>a, AloneQuiet, AloneFacts
<1>b. ASSUME ~shared, NEW p \in Queries PROVE AloneSource(p)'
  <2>1. CASE p = cur
        BY Zenon, <1>1, <1>3, <1>4, <1>5, <2>1 DEF AloneSource
  <2>2. CASE p # cur
        BY <1>4, <1>5, <1>b, <2>2 DEF IInv, Alone, AloneSource, Busy, Ending, Leaving
  <2> QED BY <2>1, <2>2
<1> QED BY <1>5, <1>6, <1>7, <1>8, <1>9, <1>a, <1>b DEF IInv, Alone
\* The query fails: the token is free again, and no source was handed out.
LEMMA NoRowsStep ==
    ASSUME IInv, pc[Reader] = "query", Goto(Reader, "idle"), NEW e \in {"hook", "query"},
           Raises(cur, e), token' = 0,
           src' = [src EXCEPT ![cur].terminals =
                      Append(@, [errs |-> {e}, rows |-> 0, early |-> FALSE])],
           UNCHANGED <<cur, shared, call>>
    PROVE  IInv'
<1> DEFINE r == [errs |-> {e}, rows |-> 0, early |-> FALSE]
           t == [NoSource EXCEPT !.terminals = <<r>>]
<1>1. /\ Reader \in Consumers /\ cur \in Queries /\ cur # 0 /\ token = cur /\ TypeOK
      /\ src[cur] = NoSource /\ e \in Errors
      /\ \A c \in Consumers : Ending(c) \/ Leaving(c) => call[c].q # cur
      BY QueryBlank DEF Errors
<1>2. src' = [src EXCEPT ![cur] = t]
  <2>1. src' = [src EXCEPT ![cur] = [src[cur] EXCEPT !.terminals = Append(src[cur].terminals, r)]]
        BY Zenon, <1>1 DEF TypeOK
  <2>2. Append(src[cur].terminals, r) = <<r>>
        BY <1>1, Blank
  <2> QED BY Zenon, <1>1, <2>1, <2>2
<1>3. <<r>> \in Seq(Reports) /\ Len(<<r>>) = 1 /\ <<r>> # <<>>
      BY <1>1 DEF Reports
<1> HIDE DEF r
<1>4. /\ t \in Sources /\ ~t.live /\ ~t.completed /\ ~t.closed /\ ~t.finished /\ ~t.released
      /\ ~t.open /\ t.completions = <<>> /\ t.terminals = <<r>> /\ t.rows = t.rowsRead
      BY Zenon, <1>3, Blank DEF Sources
<1> HIDE DEF t
<1>5. /\ src'[cur] = t /\ src' \in [Queries -> Sources]
      /\ \A p \in Queries : p # cur => src'[p] = src[p]
  <2>1. Updates(cur, t) /\ UNCHANGED shared
        BY Zenon, <1>1, <1>2, <1>4 DEF Updates
  <2> QED BY Zenon, <1>1, <2>1, UpdatesSource
<1>6. /\ pc' = [pc EXCEPT ![Reader] = "idle"] /\ pc'[Reader] = "idle" /\ Queries' = Queries
      /\ \A c \in Consumers : c # Reader => pc'[c] = pc[c]
      BY <1>1 DEF Goto, TypeOK, Queries
<1>7. /\ faults' \in Nat /\ raised' \in [Queries -> SUBSET Errors]
      /\ \A p \in Queries : p # cur => raised'[p] = raised[p]
      BY <1>1, RaisesTypes
<1>8. TypeOK'
      BY <1>5, <1>6, <1>7 DEF IInv, TypeOK, Labels
<1>9. ASSUME NEW p \in Queries PROVE SourceInv(p)'
  <2>1. CASE p = cur
    <3>1. ~(p > cur) /\ Len(<<>>) <= 1 /\ Len(<<r>>) <= 1
          BY <1>1, <1>3, <2>1 DEF TypeOK
    <3> QED BY Zenon, <1>1, <1>3, <1>4, <1>5, <1>6, <2>1, <3>1 DEF SourceInv
  <2>2. CASE p # cur
    <3>1. SourceInv(p) /\ ~(src[p].live /\ ~src[p].released)
          BY <1>1, <2>2 DEF IInv, SourceInv
    <3> QED BY <1>5, <1>6, <1>7, <2>2, <3>1 DEF SourceInv
  <2> QED BY <2>1, <2>2
<1>a. ASSUME NEW c \in Consumers PROVE CallInv(c)'
      BY <1>1, <1>5, <1>6 DEF IInv, CallInv, Ending, Leaving
<1>b. OneEnds'
  <2>1. \A c \in Consumers : Ending(c)' => Ending(c) /\ call'[c].q = call[c].q
        BY <1>6 DEF Ending
  <2> QED BY <2>1, OneEndsKept DEF IInv
<1>c. ASSUME ~shared PROVE AloneCall'
      BY Zenon, <1>6, <1>c, AloneQuiet, AloneFacts
<1>d. ASSUME ~shared, NEW p \in Queries PROVE AloneSource(p)'
  <2>1. CASE p = cur
        BY Zenon, <1>1, <1>4, <1>5, <1>6, <2>1 DEF AloneSource
  <2>2. CASE p # cur
        BY <1>5, <1>6, <1>7, <1>d, <2>2, AloneFacts DEF AloneSource, Busy, Ending, Leaving
  <2> QED BY <2>1, <2>2
<1> QED BY <1>6, <1>8, <1>9, <1>a, <1>b, <1>c, <1>d DEF IInv, Alone

LEMMA QueryReturnsStep == ASSUME IInv, QueryReturns PROVE IInv'
<1>1. ASSUME NEW n \in 0..MaxRows(shared), UNCHANGED token, Quiet,
             src' = [src EXCEPT ![cur].live = TRUE, ![cur].open = TRUE, ![cur].left = n]
      PROVE  IInv'
  <2>1. n \in Nat
        BY RowsAssumption DEF IInv, TypeOK
  <2> QED BY Zenon, <1>1, <2>1, RowsStep DEF QueryReturns, Quiet
<1>2. ASSUME NEW e \in {"hook", "query"}, Raises(cur, e), token' = 0,
             src' = [src EXCEPT ![cur].terminals =
                        Append(@, [errs |-> {e}, rows |-> 0, early |-> FALSE])]
      PROVE  IInv'
      BY Zenon, <1>2, NoRowsStep DEF QueryReturns
<1> QED BY Zenon, <1>1, <1>2 DEF QueryReturns
\* Next finds no row, with the error r of the iteration in hand.
LEMMA EndsStep ==
    ASSUME IInv, Reading, ~S.exhausted, NEW r \in SUBSET Errors,
           call' = [call EXCEPT ![Reader].result = r],
           src' = [src EXCEPT ![cur].open = FALSE], Goto(Reader, "exhaust"),
           UNCHANGED <<token, cur, shared>>,
           faults' \in Nat, raised' \in [Queries -> SUBSET Errors],
           raised'[cur] = raised[cur] \cup r,
           \A p \in Queries : p # cur => raised'[p] = raised[p],
           S.open \/ r = {}
    PROVE  IInv'
<1> DEFINE t == [src[cur] EXCEPT !.open = FALSE]
           k == [call[Reader] EXCEPT !.result = r]
<1>1. /\ cur \in Queries /\ cur > 0 /\ pc[Reader] = "idle" /\ src[cur].live /\ Queries' = Queries
      /\ Reader \in Consumers /\ TypeOK /\ src[cur] \in Sources
      BY RowsAssumption DEF IInv, TypeOK, Reading, S, Queries
<1>2. src' = [src EXCEPT ![cur] = t] /\ call' = [call EXCEPT ![Reader] = k]
      BY Zenon
<1>3. /\ t \in Sources /\ ~t.open /\ t.rows = src[cur].rows /\ t.rowsRead = src[cur].rowsRead
      /\ t.closed = src[cur].closed /\ t.errs = src[cur].errs
      BY Zenon, <1>1 DEF Sources
<1>4. Untouched(src[cur], t)
      BY Zenon, <1>1 DEF Untouched, Sources
<1>5. k \in CallRecords /\ k.result = r /\ k.via = call[Reader].via /\ k.q = call[Reader].q
  <2>1. call[Reader] \in CallRecords
        BY <1>1 DEF TypeOK
  <2> QED BY Zenon, <2>1 DEF CallRecords
<1> HIDE DEF t, k
<1>6. Updates(cur, t)
      BY Zenon, <1>1, <1>2, <1>3 DEF Updates
<1>7. /\ src'[cur] = t /\ src' \in [Queries -> Sources]
      /\ \A p \in Queries : p # cur => src'[p] = src[p]
      BY Zenon, <1>1, <1>6, UpdatesSource
<1>8. /\ pc' \in [Consumers -> Labels] /\ pc'[Reader] = "exhaust"
      /\ \A c \in Consumers : c # Reader => pc'[c] = pc[c] /\ call'[c] = call[c]
      /\ call' \in [Consumers -> CallRecords] /\ call'[Reader] = k
      BY <1>1, <1>2, <1>5 DEF Goto, TypeOK, Labels
<1>9. TypeOK'
      BY <1>1, <1>7, <1>8 DEF TypeOK
<1>a. ASSUME NEW p \in Queries PROVE SourceInv(p)'
      BY Zenon, <1>1, <1>4, <1>6, <1>8, SourceKept DEF IInv
<1>b. ASSUME NEW c \in Consumers PROVE CallInv(c)'
  <2>1. CASE c = Reader
        BY <1>1, <1>4, <1>7, <1>8, <2>1 DEF CallInv, Ending, Leaving, Untouched
  <2>2. CASE c # Reader
        BY Zenon, <1>1, <1>4, <1>6, <1>8, <2>2, CallKept DEF IInv
  <2> QED BY <2>1, <2>2
<1>c. OneEnds'
  <2>1. \A c \in Consumers : Ending(c)' => Ending(c) /\ call'[c].q = call[c].q
        BY <1>8 DEF Ending
  <2> QED BY <2>1, OneEndsKept DEF IInv
<1>d. ASSUME ~shared
      PROVE  /\ AloneSource(cur)
             /\ r # {} => /\ ~src[cur].completed /\ src[cur].completions = <<>>
  <2>1. r # {} => ~src[cur].completed /\ src[cur].completions = <<>>
        BY <1>d, OpenAlone
  <2> QED BY <1>1, <1>d, <2>1, AloneFacts
<1>e. ASSUME ~shared PROVE AloneCall'
  <2>1. ~Ending(Reader)' /\ ~Leaving(Reader)' /\ pc'[Reader] # "complete"
        BY <1>8 DEF Ending, Leaving
  <2>2. /\ \A c \in Consumers \ {Reader} : pc'[c] = "idle"
        /\ call'[Reader].via = "Finish"
        BY <1>5, <1>8, <1>e, AloneFacts
  <2>3. ~src'[cur].open /\ (src'[cur].completed => call'[Reader].result = {})
        BY <1>3, <1>4, <1>5, <1>7, <1>8, <1>d, <1>e DEF Untouched
  <2> QED BY Zenon, <2>1, <2>2, <2>3 DEF AloneCall
<1>f. ASSUME ~shared, NEW p \in Queries PROVE AloneSource(p)'
  <2>1. CASE p = cur
    <3>1. src'[cur].live => raised'[cur] \subseteq src'[cur].errs \cup call'[Reader].result
          BY <1>1, <1>3, <1>5, <1>7, <1>8, <1>d, <1>f DEF AloneSource
    <3>2. /\ src'[cur].completions = src[cur].completions
          /\ src[cur].completions # <<>> =>
                raised'[cur] \subseteq src[cur].completions[1].errs
          BY <1>4, <1>7, <1>d, <1>f DEF AloneSource, Untouched
    <3>3. src[cur].completed => src[cur].finished
          BY <1>1, <1>d, <1>f DEF AloneSource, Busy, Ending, Leaving
    <3>4. /\ ~src'[cur].open /\ src'[cur].rows = src'[cur].rowsRead
          /\ src'[cur].completed => src'[cur].closed /\ src'[cur].finished
          /\ src'[cur].finished = src[cur].finished /\ src'[cur].terminals = src[cur].terminals
          BY <1>3, <1>4, <1>7, <1>d, <1>f, <3>3 DEF AloneSource, Untouched
    <3>5. src[cur].completions # <<>> /\ src[cur].finished =>
             LET a == src[cur].completions[1]
                 b == src[cur].terminals[1]
             IN  a.errs = b.errs /\ a.rows = b.rows /\ (a.early => b.early)
          BY Zenon, <1>d, <1>f DEF AloneSource
    <3> QED BY ZenonT(30), <1>8, <2>1, <3>1, <3>2, <3>4, <3>5 DEF AloneSource
  <2>2. CASE p # cur
        BY <1>1, <1>7, <1>8, <1>f, <2>2, AloneFacts DEF AloneSource, Busy, Ending, Leaving
  <2> QED BY <2>1, <2>2
<1> QED BY <1>1, <1>9, <1>a, <1>b, <1>c, <1>e, <1>f DEF IInv, Alone

LEMMA NextEndsStep == ASSUME IInv, NextEnds PROVE IInv'
<1>1. cur \in Queries /\ TypeOK /\ "iter" \in Errors
      BY DEF IInv, TypeOK, NextEnds, Reading, Queries, Errors
<1>2. CASE S.open /\ Raises(cur, "iter") /\ call' = [call EXCEPT ![Reader].result = {"iter"}]
  <2>1. /\ faults' \in Nat /\ raised' \in [Queries -> SUBSET Errors]
        /\ raised'[cur] = raised[cur] \cup {"iter"}
        /\ \A p \in Queries : p # cur => raised'[p] = raised[p]
        BY <1>1, <1>2, RaisesTypes
  <2>2. {"iter"} \in SUBSET Errors
        BY <1>1
  <2> QED BY Zenon, <1>2, <2>1, <2>2, EndsStep DEF NextEnds
<1>3. CASE Quiet /\ call' = [call EXCEPT ![Reader].result = {}]
  <2>1. /\ faults' \in Nat /\ raised' \in [Queries -> SUBSET Errors]
        /\ raised'[cur] = raised[cur] \cup {}
        /\ \A p \in Queries : p # cur => raised'[p] = raised[p]
        BY <1>1, <1>3 DEF Quiet, TypeOK
  <2>2. {} \in SUBSET Errors
        OBVIOUS
  <2> QED BY Zenon, <1>3, <2>1, <2>2, EndsStep DEF NextEnds
<1> QED BY Zenon, <1>2, <1>3 DEF NextEnds
LEMMA ExhaustStep == ASSUME IInv, Exhaust PROVE IInv'
<1> DEFINE e == src[cur].errs \cup call[Reader].result
           t == [src[cur] EXCEPT !.exhausted = TRUE, !.closed = TRUE, !.errs = e]
<1>1. /\ pc[Reader] = "exhaust" /\ pc' = [pc EXCEPT ![Reader] = "idle"]
      /\ call' = [call EXCEPT ![Reader] = NoCall] /\ src' = [src EXCEPT ![cur] = t]
      /\ UNCHANGED <<token, cur, shared, raised, faults>>
      BY Zenon DEF Exhaust, Goto
<1>2. /\ Reader \in Consumers /\ TypeOK /\ cur \in Queries /\ src[cur].live /\ Queries' = Queries
      /\ src[cur] \in Sources /\ call[Reader] \in CallRecords
      BY <1>1, RowsAssumption DEF IInv, TypeOK, CallInv, Queries
<1>3. e \in SUBSET Errors
      BY <1>2 DEF Sources, CallRecords
<1>4. Untouched(src[cur], t) /\ t \in Sources /\ t.errs = e /\ t.closed
      /\ t.open = src[cur].open /\ t.rows = src[cur].rows /\ t.rowsRead = src[cur].rowsRead
      BY Zenon, <1>2, <1>3 DEF Sources, Untouched
<1>e. src[cur].errs \subseteq e /\ call[Reader].result \subseteq e
      /\ (call[Reader].result = {} => e = src[cur].errs)
      OBVIOUS
<1> HIDE DEF e, t
<1>5. Updates(cur, t)
      BY Zenon, <1>1, <1>2, <1>4 DEF Updates
<1>6. /\ src'[cur] = t /\ src' \in [Queries -> Sources]
      /\ \A p \in Queries : p # cur => src'[p] = src[p]
      BY Zenon, <1>1, <1>2, <1>5, UpdatesSource
<1>7. /\ pc' \in [Consumers -> Labels] /\ pc'[Reader] = "idle"
      /\ \A c \in Consumers : c # Reader => pc'[c] = pc[c] /\ call'[c] = call[c]
      /\ call' \in [Consumers -> CallRecords] /\ call'[Reader] = NoCall
      BY <1>1, <1>2, Blank DEF TypeOK, Labels
<1>8. TypeOK'
      BY <1>1, <1>2, <1>6, <1>7 DEF TypeOK
<1>9. ASSUME NEW p \in Queries PROVE SourceInv(p)'
      BY <1>1, <1>2, <1>4, <1>5, <1>7, SourceKept DEF IInv
<1>a. ASSUME NEW c \in Consumers PROVE CallInv(c)'
  <2>1. CASE c = Reader
        BY <1>7, <2>1 DEF CallInv, Ending, Leaving
  <2>2. CASE c # Reader
        BY <1>1, <1>2, <1>4, <1>5, <1>7, <2>2, CallKept DEF IInv
  <2> QED BY <2>1, <2>2
<1>b. OneEnds'
  <2>1. \A c \in Consumers : Ending(c)' => Ending(c) /\ call'[c].q = call[c].q
        BY <1>7 DEF Ending
  <2> QED BY <2>1, OneEndsKept DEF IInv
<1>c. ASSUME ~shared PROVE AloneCall'
      BY Zenon, <1>7, <1>c, AloneQuiet, AloneFacts, Blank
<1>d. ASSUME ~shared, NEW p \in Queries PROVE AloneSource(p)'
  <2>1. AloneSource(p) /\ ~src[cur].open
        BY <1>1, <1>d, AloneFacts DEF AloneCall
  <2>2. src[p].completed => src[p].finished
        BY <1>1, <2>1 DEF AloneSource, Busy, Ending, Leaving
  <2>3. CASE p = cur
    <3>1. /\ ~src'[p].open /\ src'[p].rows = src'[p].rowsRead /\ src'[p].closed
          /\ src'[p].completed => src'[p].finished
          /\ src'[p].finished = src[p].finished /\ src'[p].terminals = src[p].terminals
          /\ src'[p].completions = src[p].completions /\ src'[p].live
          BY Zenon, <1>2, <1>4, <1>6, <2>1, <2>2, <2>3 DEF AloneSource, Untouched
    <3>2. raised'[p] \subseteq src'[p].errs /\ raised'[p] = raised[p]
          BY <1>1, <1>2, <1>4, <1>6, <1>e, <2>1, <2>3 DEF AloneSource
    <3>3. /\ src[p].completions # <<>> => raised[p] \subseteq src[p].completions[1].errs
          /\ src[p].completions # <<>> /\ src[p].finished =>
                LET a == src[p].completions[1]
                    b == src[p].terminals[1]
                IN  a.errs = b.errs /\ a.rows = b.rows /\ (a.early => b.early)
          BY Zenon, <2>1 DEF AloneSource
    <3> QED BY Zenon, <1>7, <3>1, <3>2, <3>3 DEF AloneSource
  <2>4. CASE p # cur
        BY <1>1, <1>6, <1>7, <2>1, <2>2, <2>4 DEF AloneSource
  <2> QED BY <2>3, <2>4
<1> QED BY <1>1, <1>2, <1>8, <1>9, <1>a, <1>b, <1>c, <1>d DEF IInv, Alone

-----------------------------------------------------------------------------
(* The end of a source.                                                    *)

\* Where a consumer c goes to l with the record k of its call.
LEMMA Moves ==
    ASSUME TypeOK, NEW c \in Consumers, NEW l \in Labels, NEW k \in CallRecords,
           pc' = [pc EXCEPT ![c] = l], call' = [call EXCEPT ![c] = k]
    PROVE  /\ pc' \in [Consumers -> Labels] /\ call' \in [Consumers -> CallRecords]
           /\ pc'[c] = l /\ call'[c] = k
           /\ \A d \in Consumers : d # c => pc'[d] = pc[d] /\ call'[d] = call[d]
BY Zenon DEF TypeOK

\* What another consumer's call knows, when no source loses what it relies on.
LEMMA CallFrame ==
    ASSUME TypeOK, NEW d \in Consumers, CallInv(d), pc'[d] = pc[d], call'[d] = call[d],
           UNCHANGED <<cur, shared>>, pc[d] = "query" => token' = token,
           \A p \in Queries : /\ src[p].live => src'[p].live
                              /\ src[p].completed => src'[p].completed,
           Ending(d) => src'[call[d].q].completions = src[call[d].q].completions
    PROVE  CallInv(d)'
<1>1. pc[d] = "exhaust" => cur \in Queries
      BY DEF CallInv, TypeOK, Queries
<1>2. Queries' = Queries
      BY DEF Queries
<1> QED BY <1>1, <1>2 DEF CallInv, Ending, Leaving

\* What the one consumer's other sources say, whatever it does between two calls.
LEMMA AloneElsewhere ==
    ASSUME NEW p, AloneSource(p), src'[p] = src[p], raised'[p] = raised[p],
           pc[Reader] \notin {"exhaust"}, pc'[Reader] \notin {"exhaust"},
           pc[Reader] = "idle" \/ call[Reader].q # p
    PROVE  AloneSource(p)'
<1>1. ~Busy(p) /\ ~(pc[Reader] = "close" /\ call[Reader].q = p)
      BY DEF Busy, Ending, Leaving
<1>2. /\ ~(src'[p].closed /\ src'[p].open)
      /\ src'[p].completed => src'[p].finished
      /\ src'[p].live => raised'[p] \subseteq src'[p].errs
      BY <1>1 DEF AloneSource
<1> QED BY Zenon, <1>2 DEF AloneSource

\* A Finish of a source that has been ended goes on to the outer layers.
LEMMA FinishAgain ==
    ASSUME IInv, NEW c \in Consumers, NEW q \in Queries, NEW k \in CallRecords,
           pc[c] = "idle", src[q].live, src[q].completed, k.q = q, k.via = "Finish",
           shared \/ c = Reader,
           pc' = [pc EXCEPT ![c] = "release"], call' = [call EXCEPT ![c] = k],
           UNCHANGED <<src, token, cur, shared, raised, faults>>
    PROVE  IInv'
<1>1. /\ pc' \in [Consumers -> Labels] /\ call' \in [Consumers -> CallRecords]
      /\ pc'[c] = "release" /\ call'[c] = k
      /\ \A d \in Consumers : d # c => pc'[d] = pc[d] /\ call'[d] = call[d]
  <2>1. TypeOK /\ "release" \in Labels
        BY DEF IInv, Labels
  <2> QED BY Zenon, <2>1, Moves
<1>2. Reader \in Consumers /\ TypeOK /\ Queries' = Queries
      BY RowsAssumption DEF IInv, Queries
<1>3. TypeOK'
      BY <1>1, <1>2 DEF TypeOK
<1>4. pc'[Reader] = "query" <=> pc[Reader] = "query"
      BY <1>1, <1>2
<1>5. ASSUME NEW p \in Queries PROVE SourceInv(p)'
      BY Zenon, <1>4, SourceFrame DEF IInv
<1>6. ASSUME NEW d \in Consumers PROVE CallInv(d)'
  <2>1. CASE d = c
        BY <1>1, <1>2, <2>1 DEF CallInv, Ending, Leaving
  <2>2. CASE d # c
        BY <1>1, <1>2, <2>2, CallFrame DEF IInv
  <2> QED BY <2>1, <2>2
<1>7. OneEnds'
  <2>1. \A d \in Consumers : Ending(d)' => Ending(d) /\ call'[d].q = call[d].q
        BY <1>1 DEF Ending
  <2> QED BY <2>1, OneEndsKept DEF IInv
<1>8. ASSUME ~shared, NEW p \in Queries PROVE AloneSource(p)'
      BY <1>1, <1>8, AloneFacts, AloneElsewhere
<1>9. ASSUME ~shared PROVE AloneCall'
  <2>1. /\ c = Reader /\ pc'[Reader] = "release" /\ call'[Reader] = k
        /\ \A d \in Consumers \ {Reader} : pc'[d] = "idle"
        BY <1>1, <1>9, AloneFacts
  <2>2. src[q].finished
        BY <1>9, <2>1, AloneFacts DEF AloneSource, Busy, Ending, Leaving
  <2> QED BY <2>1, <2>2 DEF AloneCall, Ending, Leaving
<1> QED BY <1>2, <1>3, <1>5, <1>6, <1>7, <1>8, <1>9 DEF IInv, Alone

\* A Close of such a source does nothing.
LEMMA CloseAgain ==
    ASSUME IInv, NEW c \in Consumers, pc[c] = "idle", shared, Returns(c),
           UNCHANGED <<src, token, cur, shared, raised, faults>>
    PROVE  IInv'
<1>1. /\ pc' \in [Consumers -> Labels] /\ call' \in [Consumers -> CallRecords]
      /\ pc'[c] = "idle" /\ call'[c] = NoCall
      /\ \A d \in Consumers : d # c => pc'[d] = pc[d] /\ call'[d] = call[d]
  <2>1. TypeOK /\ "idle" \in Labels /\ NoCall \in CallRecords
        BY Blank DEF IInv, Labels
  <2> QED BY Zenon, <2>1, Moves DEF Returns, Goto
<1>2. Reader \in Consumers /\ TypeOK /\ Queries' = Queries
      BY RowsAssumption DEF IInv, Queries
<1>3. TypeOK'
      BY Zenon, <1>1, <1>2 DEF TypeOK
<1>4. ASSUME NEW p \in Queries PROVE SourceInv(p)'
  <2>1. pc'[Reader] = "query" <=> pc[Reader] = "query"
        BY <1>1, <1>2
  <2> QED BY Zenon, <2>1, SourceFrame DEF IInv
<1>5. ASSUME NEW d \in Consumers PROVE CallInv(d)'
  <2>1. CASE d = c
        BY <1>1, <1>2, <2>1 DEF CallInv, Ending, Leaving
  <2>2. CASE d # c
        BY <1>1, <1>2, <2>2, CallFrame DEF IInv
  <2> QED BY <2>1, <2>2
<1>6. OneEnds'
  <2>1. \A d \in Consumers : Ending(d)' => Ending(d) /\ call'[d].q = call[d].q
        BY <1>1 DEF Ending
  <2> QED BY <2>1, OneEndsKept DEF IInv
<1> QED BY <1>2, <1>3, <1>4, <1>5, <1>6 DEF IInv, Alone
\* The first to end a source marks it, and will be the one to complete it.
LEMMA EndFirst ==
    ASSUME IInv, NEW c \in Consumers, NEW q \in Queries, NEW k \in CallRecords,
           NEW l \in {"close", "complete"},
           pc[c] = "idle", src[q].live, ~src[q].completed, k.q = q,
           l = "close" \/ src[q].closed,
           shared \/ (c = Reader /\ k.via = "Finish"),
           src[q].errs \subseteq k.report.errs, k.report.rows = src[q].rowsRead,
           k.report.early => k.early,
           src' = [src EXCEPT ![q].completed = TRUE, ![q].closed = TRUE],
           pc' = [pc EXCEPT ![c] = l], call' = [call EXCEPT ![c] = k],
           UNCHANGED <<token, cur, shared, raised, faults>>
    PROVE  IInv'
<1> DEFINE t == [src[q] EXCEPT !.completed = TRUE, !.closed = TRUE]
<1>1. /\ pc' \in [Consumers -> Labels] /\ call' \in [Consumers -> CallRecords]
      /\ pc'[c] = l /\ call'[c] = k
      /\ \A d \in Consumers : d # c => pc'[d] = pc[d] /\ call'[d] = call[d]
  <2>1. TypeOK /\ l \in Labels
        BY DEF IInv, Labels
  <2> QED BY Zenon, <2>1, Moves
<1>2. /\ Reader \in Consumers /\ TypeOK /\ Queries' = Queries /\ src[q] \in Sources
      /\ SourceInv(q)
      BY RowsAssumption DEF IInv, Queries, TypeOK
<1>3. /\ t \in Sources /\ t.completed /\ t.closed /\ t.live = src[q].live /\ t.open = src[q].open
      /\ t.errs = src[q].errs /\ t.rowsRead = src[q].rowsRead /\ t.rows = src[q].rows
      /\ t.released = src[q].released /\ t.finished = src[q].finished
      /\ t.completions = src[q].completions /\ t.terminals = src[q].terminals
      BY Zenon, <1>2 DEF Sources
<1>4. src' = [src EXCEPT ![q] = t]
      BY Zenon
<1> HIDE DEF t
<1>5. /\ src'[q] = t /\ src' \in [Queries -> Sources]
      /\ \A p \in Queries : p # q => src'[p] = src[p]
  <2>1. Updates(q, t) /\ UNCHANGED shared
        BY Zenon, <1>3, <1>4 DEF Updates
  <2> QED BY Zenon, <1>2, <2>1, UpdatesSource
<1>6. TypeOK'
      BY Zenon, <1>1, <1>2, <1>5 DEF TypeOK
<1>7. ASSUME NEW p \in Queries PROVE SourceInv(p)'
  <2>0. pc'[Reader] = "query" <=> pc[Reader] = "query"
        BY <1>1, <1>2
  <2>1. CASE p = q
    <3>1. ~(q > cur) /\ ~(q = cur /\ pc[Reader] = "query")
          BY <1>2, BlankIsDead
    <3> QED BY Zenon, <1>2, <1>3, <1>5, <2>0, <2>1, <3>1 DEF SourceInv
  <2>2. CASE p # q
        BY Zenon, <1>5, <2>0, <2>2, SourceFrame DEF IInv
  <2> QED BY <2>1, <2>2
<1>8. ASSUME NEW d \in Consumers PROVE CallInv(d)'
  <2>1. CASE d = c
        BY <1>1, <1>2, <1>3, <1>5, <2>1 DEF CallInv, SourceInv, Ending, Leaving
  <2>2. CASE d # c
    <3>1. \A p \in Queries : /\ src[p].live => src'[p].live
                             /\ src[p].completed => src'[p].completed
                             /\ src'[p].completions = src[p].completions
          BY <1>3, <1>5
    <3>2. Ending(d) => call[d].q \in Queries
          BY DEF IInv, CallInv
    <3> QED BY Zenon, <1>1, <1>2, <2>2, <3>1, <3>2, CallFrame DEF IInv
  <2> QED BY <2>1, <2>2
<1>9. OneEnds'
  <2>1. \A d \in Consumers : Ending(d) => call[d].q # q
        BY DEF IInv, CallInv
  <2>2. \A d \in Consumers : d # c => (Ending(d)' <=> Ending(d)) /\ call'[d].q = call[d].q
        BY <1>1 DEF Ending
  <2>3. call'[c].q = q
        BY <1>1
  <2> QED BY <2>1, <2>2, <2>3 DEF IInv, OneEnds
<1>a. ASSUME ~shared
      PROVE  c = Reader /\ k.via = "Finish" /\ ~src[q].finished /\ ~src[q].released
      BY <1>2, <1>a DEF SourceInv
<1>b. ASSUME ~shared PROVE AloneCall'
  <2>1. /\ pc'[Reader] = l /\ call'[Reader] = k
        /\ \A d \in Consumers \ {Reader} : pc'[d] = "idle"
        BY <1>1, <1>a, <1>b, AloneFacts
  <2>2. src'[k.q] = t /\ ~t.finished /\ ~t.released /\ t.errs \subseteq k.report.errs
        /\ k.report.rows = t.rowsRead
        BY <1>3, <1>5, <1>a, <1>b
  <2>3. ~Leaving(Reader)' /\ pc'[Reader] # "exhaust"
        BY <2>1 DEF Leaving
  <2> QED BY Zenon, <1>a, <1>b, <2>1, <2>2, <2>3 DEF AloneCall
<1>c. ASSUME ~shared, NEW p \in Queries PROVE AloneSource(p)'
  <2>1. AloneSource(p) /\ pc[Reader] = "idle" /\ pc'[Reader] = l /\ call'[Reader] = k
        BY <1>1, <1>a, <1>c, AloneFacts
  <2>2. CASE p = q
    <3>1. /\ src[q].closed => ~src[q].open
          /\ src[q].rows = src[q].rowsRead /\ raised[q] \subseteq src[q].errs
          BY <2>1, <2>2 DEF AloneSource
    <3>2. Busy(q)' /\ (t.open => l = "close")
          BY <1>3, <2>1, <3>1 DEF Busy, Ending
    <3>3. t.completions = <<>> /\ raised'[q] \subseteq t.errs /\ t.rows = t.rowsRead
          BY <1>2, <1>3, <3>1 DEF SourceInv
    <3> QED BY ZenonT(30), <1>3, <1>5, <2>1, <2>2, <3>2, <3>3 DEF AloneSource
  <2>3. CASE p # q
        BY <1>5, <2>1, <2>3, AloneElsewhere
  <2> QED BY <2>2, <2>3
<1> QED BY <1>2, <1>6, <1>7, <1>8, <1>9, <1>b, <1>c DEF IInv, Alone

LEMMA EndStep ==
    ASSUME IInv, NEW c \in Consumers, NEW q \in Queries, NEW via \in {"Finish", "Close"},
           NEW err \in SUBSET Errors, NEW early \in BOOLEAN,
           shared \/ (c = Reader /\ via = "Finish"), via = "Close" => shared,
           End(c, q, via, err, early)
    PROVE  IInv'
<1> DEFINE r == Completion(q, err, early)
           k == [q |-> q, via |-> via, early |-> early, result |-> err, report |-> r]
<1>1. src[q] \in Sources /\ q \in Nat
      BY RowsAssumption DEF IInv, TypeOK, Queries
<1>2. /\ r \in Reports /\ src[q].errs \subseteq r.errs /\ r.rows = src[q].rowsRead
      /\ r.early => early
      BY <1>1 DEF Completion, Reports, Sources
<1> HIDE DEF r
<1>3. k \in CallRecords /\ k.q = q /\ k.via = via /\ k.report = r /\ k.early = early
      BY <1>1, <1>2 DEF CallRecords
<1>4. CASE src[q].completed /\ via = "Close"
      BY Zenon, <1>4, CloseAgain DEF End
<1>5. CASE src[q].completed /\ via = "Finish"
  <2>1. pc' = [pc EXCEPT ![c] = "release"] /\ call' = [call EXCEPT ![c] = k] /\ UNCHANGED src
        BY Zenon, <1>5 DEF End, Goto, r
  <2> HIDE DEF k
  <2> QED BY Zenon, <1>3, <1>5, <2>1, FinishAgain DEF End
<1>6. CASE ~src[q].completed
  <2> DEFINE l == IF src[q].closed THEN "complete" ELSE "close"
  <2>1. /\ pc' = [pc EXCEPT ![c] = l] /\ call' = [call EXCEPT ![c] = k]
        /\ src' = [src EXCEPT ![q].completed = TRUE, ![q].closed = TRUE]
        /\ pc[c] = "idle" /\ src[q].live /\ UNCHANGED <<token, cur, shared, raised, faults>>
        BY Zenon, <1>6 DEF End, Goto, r
  <2>2. l \in {"close", "complete"} /\ (l = "close" \/ src[q].closed)
        OBVIOUS
  <2> HIDE DEF k, l
  <2> QED BY Zenon, <1>2, <1>3, <1>6, <2>1, <2>2, EndFirst
<1> QED BY <1>4, <1>5, <1>6

\* The driver's rows are closed, with or without an error: the source becomes t
\* and the call k.
Closes(c, q, t, k) ==
    /\ pc[c] = "close" /\ q = call[c].q
    /\ Updates(q, t) /\ Untouched(src[q], t) /\ ~t.open /\ t.closed = src[q].closed
    /\ t.rows = src[q].rows /\ t.rowsRead = src[q].rowsRead /\ src[q].errs \subseteq t.errs
    /\ raised'[q] \subseteq raised[q] \cup t.errs
    /\ \A p \in Queries : p # q => raised'[p] = raised[p]
    /\ raised' \in [Queries -> SUBSET Errors] /\ faults' \in Nat
    /\ k \in CallRecords /\ k.q = q /\ k.via = call[c].via /\ k.early = call[c].early
    /\ t.errs \subseteq k.report.errs /\ k.report.rows = t.rowsRead
    /\ k.report.early => k.early
    /\ pc' = [pc EXCEPT ![c] = "complete"] /\ call' = [call EXCEPT ![c] = k]
    /\ UNCHANGED <<token, cur, shared>>

LEMMA ClosesStep ==
    ASSUME IInv, NEW c \in Consumers, NEW q, NEW t, NEW k, Closes(c, q, t, k)
    PROVE  IInv'
<1> USE DEF Closes
<1>1. /\ pc' \in [Consumers -> Labels] /\ call' \in [Consumers -> CallRecords]
      /\ pc'[c] = "complete" /\ call'[c] = k
      /\ \A d \in Consumers : d # c => pc'[d] = pc[d] /\ call'[d] = call[d]
  <2>1. TypeOK /\ "complete" \in Labels
        BY DEF IInv, Labels
  <2> QED BY Zenon, <2>1, Moves
<1>2. /\ Reader \in Consumers /\ TypeOK /\ Queries' = Queries /\ q \in Queries
      /\ src[q].live /\ src[q].completed /\ src[q].completions = <<>>
      BY RowsAssumption DEF IInv, Queries, CallInv, Ending
<1>3. /\ src'[q] = t /\ src' \in [Queries -> Sources]
      /\ \A p \in Queries : p # q => src'[p] = src[p]
      BY Zenon, <1>2, UpdatesSource
<1>4. TypeOK'
      BY Zenon, <1>1, <1>2, <1>3 DEF TypeOK
<1>5. ASSUME NEW p \in Queries PROVE SourceInv(p)'
  <2>1. pc'[Reader] = "query" <=> pc[Reader] = "query"
        BY <1>1, <1>2
  <2>2. SourceInv(p) /\ SourceInv(q)
        BY <1>2 DEF IInv
  <2> QED BY Zenon, <1>2, <2>1, <2>2, SourceKept
<1>6. ASSUME NEW d \in Consumers PROVE CallInv(d)'
  <2>1. CASE d = c
    <3>1. t.live /\ t.completed /\ t.completions = <<>>
          BY <1>2 DEF Untouched
    <3>2. pc'[d] = "complete" /\ call'[d].q = q /\ src'[q] = t
          BY <1>1, <1>3, <2>1
    <3> QED BY Zenon, <1>2, <3>1, <3>2 DEF CallInv
  <2>2. CASE d # c
        BY Zenon, <1>1, <1>2, <2>2, CallKept DEF IInv
  <2> QED BY <2>1, <2>2
<1>7. OneEnds'
  <2>1. \A d \in Consumers : Ending(d)' => Ending(d) /\ call'[d].q = call[d].q
        BY Zenon, <1>1 DEF Ending
  <2> QED BY Zenon, <2>1, OneEndsKept DEF IInv
<1>8. ASSUME ~shared
      PROVE  /\ c = Reader /\ k.via = "Finish" /\ AloneSource(q)
             /\ ~src[q].finished /\ ~src[q].released
  <2>1. c = Reader
        BY <1>8, AloneFacts
  <2> QED BY <1>2, <1>8, <2>1, AloneFacts DEF AloneCall, Ending
<1>9. ASSUME ~shared PROVE AloneCall'
  <2>1. /\ pc'[Reader] = "complete" /\ call'[Reader] = k
        /\ \A d \in Consumers \ {Reader} : pc'[d] = "idle"
        BY <1>1, <1>8, <1>9, AloneFacts
  <2>2. src'[k.q] = t /\ ~t.finished /\ ~t.released
        BY <1>3, <1>8, <1>9 DEF Untouched
  <2>3. ~Leaving(Reader)' /\ pc'[Reader] # "exhaust"
        BY <2>1 DEF Leaving
  <2> QED BY Zenon, <1>8, <1>9, <2>1, <2>2, <2>3 DEF AloneCall
<1>a. ASSUME ~shared, NEW p \in Queries PROVE AloneSource(p)'
  <2>1. /\ AloneSource(p) /\ pc[Reader] = "close" /\ call[Reader].q = q
        /\ pc'[Reader] = "complete" /\ call'[Reader] = k
        BY <1>1, <1>8, <1>a, AloneFacts
  <2>2. CASE p = q
    <3>1. /\ src[q].rows = src[q].rowsRead /\ raised[q] \subseteq src[q].errs /\ src[q].closed
          BY <1>2, <2>1, <2>2 DEF AloneSource
    <3>2. Busy(q)'
          BY <2>1 DEF Busy, Ending
    <3>3. t.completions = <<>> /\ raised'[q] \subseteq t.errs /\ t.rows = t.rowsRead
          BY <1>2, <3>1 DEF Untouched
    <3> QED BY ZenonT(30), <1>3, <2>1, <2>2, <3>1, <3>2, <3>3 DEF AloneSource
  <2>3. CASE p # q
        BY Zenon, <1>3, <2>1, <2>3, AloneElsewhere
  <2> QED BY <2>2, <2>3
<1> QED BY Zenon, <1>2, <1>4, <1>5, <1>6, <1>7, <1>9, <1>a DEF IInv, Alone

LEMMA CloseStep == ASSUME IInv, NEW c \in Consumers, Close(c) PROVE IInv'
<1> DEFINE q == call[c].q
           r == [errs |-> call[c].result \cup src'[q].errs, rows |-> src[q].rowsRead,
                 early |-> call[c].early /\ ~src[q].exhausted]
           k == [call[c] EXCEPT !.report = r]
<1>1. /\ pc[c] = "close" /\ pc' = [pc EXCEPT ![c] = "complete"]
      /\ call' = [call EXCEPT ![c] = k] /\ UNCHANGED <<token, cur, shared>>
      BY Zenon DEF Close, Goto
<1>2. /\ TypeOK /\ q \in Queries /\ src[q] \in Sources /\ call[c] \in CallRecords
      /\ "close" \in Errors
      BY <1>1 DEF IInv, TypeOK, CallInv, Ending, Errors
<1>3. ASSUME NEW t, t \in Sources, src'[q] = t, t.rowsRead = src[q].rowsRead
      PROVE  /\ k \in CallRecords /\ k.q = q /\ k.via = call[c].via /\ k.early = call[c].early
             /\ t.errs \subseteq k.report.errs /\ k.report.rows = t.rowsRead
             /\ k.report.early => k.early
  <2>1. /\ r \in Reports /\ t.errs \subseteq r.errs /\ r.rows = t.rowsRead
        /\ r.early => call[c].early
        BY <1>2, <1>3 DEF Reports, Sources, CallRecords
  <2> HIDE DEF r
  <2>2. /\ k \in CallRecords /\ k.q = q /\ k.via = call[c].via /\ k.early = call[c].early
        /\ k.report = r
        BY Zenon, <1>2, <2>1 DEF CallRecords
  <2> QED BY <2>1, <2>2
<1>q. q = call[c].q
      OBVIOUS
<1> HIDE DEF r, k
<1>4. CASE Quiet /\ src' = [src EXCEPT ![q].open = FALSE]
  <2> DEFINE t == [src[q] EXCEPT !.open = FALSE]
  <2>1. /\ t \in Sources /\ ~t.open /\ t.rows = src[q].rows /\ t.rowsRead = src[q].rowsRead
        /\ t.closed = src[q].closed /\ t.errs = src[q].errs /\ Untouched(src[q], t)
        BY Zenon, <1>2 DEF Sources, Untouched
  <2>2. Updates(q, t)
        BY Zenon, <1>2, <1>4, <2>1 DEF Updates
  <2>3. src'[q] = t
        BY Zenon, <1>2, <1>4 DEF TypeOK
  <2>4. /\ raised' \in [Queries -> SUBSET Errors] /\ faults' \in Nat
        /\ \A p \in Queries : raised'[p] = raised[p]
        BY <1>2, <1>4 DEF Quiet, TypeOK
  <2>5. src[q].errs \subseteq t.errs /\ raised'[q] \subseteq raised[q] \cup t.errs
        BY <1>2, <2>1, <2>4
  <2>6. /\ k \in CallRecords /\ k.q = q /\ k.via = call[c].via /\ k.early = call[c].early
        /\ t.errs \subseteq k.report.errs /\ k.report.rows = t.rowsRead
        /\ k.report.early => k.early
        BY Zenon, <1>3, <2>1, <2>3
  <2> HIDE DEF t, q
  <2>7. Closes(c, q, t, k)
        BY Zenon, <1>1, <1>q, <2>1, <2>2, <2>4, <2>5, <2>6 DEF Closes
  <2> QED BY Zenon, <2>7, ClosesStep
<1>5. CASE /\ src[q].open /\ Raises(q, "close")
           /\ src' = [src EXCEPT ![q].open = FALSE, ![q].errs = @ \cup {"close"}]
  <2> DEFINE e == src[q].errs \cup {"close"}
             t == [src[q] EXCEPT !.open = FALSE, !.errs = e]
  <2>0. e \in SUBSET Errors /\ src[q].errs \subseteq e /\ "close" \in e
        BY <1>2 DEF Sources
  <2>a. src' = [src EXCEPT ![q] = t]
        BY Zenon, <1>2, <1>5 DEF TypeOK
  <2> HIDE DEF e
  <2>1. /\ t \in Sources /\ ~t.open /\ t.rows = src[q].rows /\ t.rowsRead = src[q].rowsRead
        /\ t.closed = src[q].closed /\ t.errs = e /\ Untouched(src[q], t)
        BY Zenon, <1>2, <2>0 DEF Sources, Untouched
  <2> HIDE DEF t
  <2>2. Updates(q, t)
        BY Zenon, <1>2, <2>1, <2>a DEF Updates
  <2>3. src'[q] = t
        BY Zenon, <1>2, <2>a DEF TypeOK
  <2>4. /\ raised' \in [Queries -> SUBSET Errors] /\ faults' \in Nat
        /\ raised'[q] = raised[q] \cup {"close"}
        /\ \A p \in Queries : p # q => raised'[p] = raised[p]
        BY <1>2, <1>5, RaisesTypes
  <2>5. src[q].errs \subseteq t.errs /\ raised'[q] \subseteq raised[q] \cup t.errs
        BY <2>0, <2>1, <2>4
  <2>6. /\ k \in CallRecords /\ k.q = q /\ k.via = call[c].via /\ k.early = call[c].early
        /\ t.errs \subseteq k.report.errs /\ k.report.rows = t.rowsRead
        /\ k.report.early => k.early
        BY Zenon, <1>3, <2>1, <2>3
  <2> HIDE DEF q
  <2>7. Closes(c, q, t, k)
        BY Zenon, <1>1, <1>q, <2>1, <2>2, <2>4, <2>5, <2>6 DEF Closes
  <2> QED BY Zenon, <2>7, ClosesStep
<1> QED BY Zenon, <1>4, <1>5 DEF Close

\* The invocation is completed with the report of the one who ended the source.
LEMMA CompleteStep == ASSUME IInv, NEW c \in Consumers, Complete(c) PROVE IInv'
<1> DEFINE q == call[c].q
           r == call[c].report
           t == [src[q] EXCEPT !.completions = <<r>>]
           l == IF call[c].via = "Close" THEN "idle" ELSE "release"
           k == IF call[c].via = "Close" THEN NoCall ELSE [call[c] EXCEPT !.result = r.errs]
<1>1. /\ pc[c] = "complete" /\ TypeOK /\ Reader \in Consumers /\ Queries' = Queries
      /\ UNCHANGED <<token, cur, shared, raised, faults>>
      BY RowsAssumption DEF Complete, IInv, Queries
<1>2. /\ q \in Queries /\ src[q].live /\ src[q].completed /\ src[q].completions = <<>>
      /\ src[q] \in Sources /\ call[c] \in CallRecords
      BY <1>1 DEF IInv, CallInv, Ending, TypeOK
<1>3. r \in Reports /\ r.errs \in SUBSET Errors
      BY <1>2 DEF CallRecords, Reports
<1>4. <<r>> \in Seq(Reports) /\ Len(<<r>>) = 1 /\ <<r>> # <<>> /\ <<r>>[1] = r
      BY <1>3
<1>5. src' = [src EXCEPT ![q] = t]
  <2>1. src' = [src EXCEPT ![q] = [src[q] EXCEPT !.completions = Append(src[q].completions, r)]]
        BY Zenon DEF Complete
  <2>2. Append(src[q].completions, r) = <<r>>
        BY <1>2
  <2> QED BY Zenon, <2>1, <2>2
<1>6. pc' = [pc EXCEPT ![c] = l] /\ call' = [call EXCEPT ![c] = k]
      BY Zenon DEF Complete, Returns, Goto
<1>7. /\ k \in CallRecords
      /\ call[c].via # "Close" => /\ l = "release" /\ k.q = q /\ k.result = r.errs
                                  /\ k.via = call[c].via /\ k.early = call[c].early
  <2>1. CASE call[c].via = "Close"
        BY <2>1, Blank
  <2>2. CASE call[c].via # "Close"
        BY Zenon, <1>2, <1>3, <2>2 DEF CallRecords
  <2> QED BY <2>1, <2>2
<1>8. l \in Labels /\ l \in {"idle", "release"} /\ (l = "release" => k.q = q)
      BY <1>7 DEF Labels
<1> HIDE DEF r, k, l
<1>9. /\ t \in Sources /\ t.completions = <<r>> /\ t.live = src[q].live
      /\ t.open = src[q].open /\ t.closed = src[q].closed /\ t.completed = src[q].completed
      /\ t.errs = src[q].errs /\ t.rows = src[q].rows /\ t.rowsRead = src[q].rowsRead
      /\ t.released = src[q].released /\ t.finished = src[q].finished
      /\ t.terminals = src[q].terminals
      BY Zenon, <1>2, <1>4 DEF Sources
<1> HIDE DEF t
<1>a. /\ pc' \in [Consumers -> Labels] /\ call' \in [Consumers -> CallRecords]
      /\ pc'[c] = l /\ call'[c] = k
      /\ \A d \in Consumers : d # c => pc'[d] = pc[d] /\ call'[d] = call[d]
      BY Zenon, <1>1, <1>6, <1>7, <1>8, Moves
<1>b. /\ src'[q] = t /\ src' \in [Queries -> Sources]
      /\ \A p \in Queries : p # q => src'[p] = src[p]
  <2>1. Updates(q, t) /\ UNCHANGED shared
        BY Zenon, <1>1, <1>2, <1>5, <1>9 DEF Updates
  <2> QED BY Zenon, <1>1, <2>1, UpdatesSource
<1>c. TypeOK'
      BY Zenon, <1>1, <1>a, <1>b DEF TypeOK
<1>d. ASSUME NEW p \in Queries PROVE SourceInv(p)'
  <2>0. pc'[Reader] = "query" <=> pc[Reader] = "query"
        BY <1>1, <1>8, <1>a
  <2>1. CASE p = q
    <3>1. SourceInv(q) /\ ~(q > cur) /\ ~(q = cur /\ pc[Reader] = "query")
          BY <1>2, BlankIsDead DEF IInv
    <3>2. Len(<<r>>) <= 1
          BY <1>4
    <3> QED BY Zenon, <1>1, <1>2, <1>9, <1>b, <2>0, <2>1, <3>1, <3>2 DEF SourceInv
  <2>2. CASE p # q
        BY Zenon, <1>1, <1>b, <2>0, <2>2, SourceFrame DEF IInv
  <2> QED BY <2>1, <2>2
<1>e. ASSUME NEW d \in Consumers PROVE CallInv(d)'
  <2>1. CASE d = c
    <3>1. /\ pc'[d] = l /\ l \notin {"query", "exhaust", "close", "complete"}
          /\ l = "release" => call'[d].q = q /\ src'[q].live /\ src'[q].completed
          BY Zenon, <1>2, <1>8, <1>9, <1>a, <1>b, <2>1
    <3> QED BY Zenon, <1>1, <1>2, <1>8, <3>1 DEF CallInv, Ending, Leaving
  <2>2. CASE d # c
    <3>1. \A p \in Queries : /\ src[p].live => src'[p].live
                             /\ src[p].completed => src'[p].completed
          BY <1>9, <1>b
    <3>2. Ending(d) => call[d].q \in Queries /\ call[d].q # q
          BY <1>1, <2>2 DEF IInv, CallInv, OneEnds, Ending
    <3>3. Ending(d) => src'[call[d].q].completions = src[call[d].q].completions
          BY <1>b, <3>2
    <3> QED BY Zenon, <1>1, <1>a, <2>2, <3>1, <3>3, CallFrame DEF IInv
  <2> QED BY <2>1, <2>2
<1>f. OneEnds'
  <2>1. \A d \in Consumers : Ending(d)' => Ending(d) /\ call'[d].q = call[d].q
        BY <1>8, <1>a DEF Ending
  <2> QED BY <2>1, OneEndsKept DEF IInv
<1>g. ASSUME ~shared
      PROVE  /\ c = Reader /\ pc'[Reader] = "release" /\ call'[Reader] = k
             /\ \A d \in Consumers \ {Reader} : pc'[d] = "idle"
             /\ k.q = q /\ k.result = r.errs /\ k.via = "Finish"
             /\ ~src[q].finished /\ src[q].errs \subseteq r.errs /\ r.rows = src[q].rowsRead
             /\ r.early => k.early
  <2>1. c = Reader
        BY <1>1, <1>g, AloneFacts
  <2>2. call[c].via = "Finish"
        BY <1>g, <2>1, AloneFacts
  <2>3. /\ ~src[q].finished /\ src[q].errs \subseteq r.errs /\ r.rows = src[q].rowsRead
        /\ r.early => call[c].early
        BY Zenon, <1>1, <1>g, <2>1, AloneFacts DEF AloneCall, Ending, r
  <2> QED BY <1>7, <1>a, <1>g, <2>1, <2>2, <2>3, AloneFacts
<1>h. ASSUME ~shared PROVE AloneCall'
  <2>1. /\ src'[k.q] = t /\ t.completions # <<>> /\ t.completions[1] = r
        BY <1>4, <1>9, <1>b, <1>g, <1>h
  <2>2. r.rows = t.rows
    <3>1. src[q].rows = src[q].rowsRead
          BY <1>2, <1>h, AloneFacts DEF AloneSource
    <3> QED BY <1>9, <1>g, <1>h, <3>1
  <2>3. ~Ending(Reader)' /\ pc'[Reader] # "exhaust" /\ pc'[Reader] # "complete"
        BY <1>g, <1>h DEF Ending
  <2> QED BY Zenon, <1>g, <1>h, <2>1, <2>2, <2>3 DEF AloneCall
<1>i. ASSUME ~shared, NEW p \in Queries PROVE AloneSource(p)'
  <2>1. AloneSource(p) /\ pc[Reader] = "complete" /\ call[Reader].q = q
        BY <1>1, <1>g, <1>i, AloneFacts
  <2>2. CASE p = q
    <3>1. /\ src[q].rows = src[q].rowsRead /\ raised[q] \subseteq src[q].errs /\ src[q].closed
          /\ ~src[q].open
          BY <1>2, <2>1, <2>2 DEF AloneSource
    <3>2. Busy(p)'
          BY Zenon, <1>g, <1>i, <2>2 DEF Busy, Leaving
    <3>3. t.completions[1] = r /\ raised'[q] \subseteq r.errs /\ raised'[q] \subseteq t.errs
          /\ t.rows = t.rowsRead /\ ~t.finished /\ ~t.open /\ t.closed
          BY <1>1, <1>4, <1>9, <1>g, <1>i, <3>1
    <3>4. /\ t.live => raised'[p] \subseteq t.errs \cup
                (IF pc'[Reader] = "exhaust" /\ p = cur' THEN call'[Reader].result ELSE {})
          /\ t.open => t.live
          BY <2>2, <3>3
    <3> HIDE DEF q
    <3> QED BY Zenon, <1>b, <2>2, <3>2, <3>3, <3>4 DEF AloneSource
  <2>3. CASE p # q
        BY <1>1, <1>b, <1>g, <1>i, <2>1, <2>3, AloneElsewhere
  <2> QED BY <2>2, <2>3
<1> QED BY <1>1, <1>c, <1>d, <1>e, <1>f, <1>h, <1>i DEF IInv, Alone
\* A Finish leaves an outer layer: the source becomes t, which differs in what
\* that layer remembers, and the call goes on to the next or returns.
Leaves(c, q, t, l, k) ==
    /\ Leaving(c) /\ q = call[c].q /\ Updates(q, t)
    /\ t.live = src[q].live /\ t.open = src[q].open /\ t.closed = src[q].closed
    /\ t.completed = src[q].completed /\ t.errs = src[q].errs /\ t.rows = src[q].rows
    /\ t.rowsRead = src[q].rowsRead /\ t.completions = src[q].completions
    /\ pc' = [pc EXCEPT ![c] = l] /\ call' = [call EXCEPT ![c] = k]
    /\ k \in CallRecords /\ (k.via = "Finish" \/ shared)
    /\ (l = "terminal" /\ k = call[c]) \/ (l = "idle" /\ t.finished)
    /\ UNCHANGED token \/ (token = q /\ t.released)
    /\ src[q].released => t.released
    /\ (t.finished <=> t.terminals # <<>>) /\ (src[q].finished => t.finished)
    /\ Len(t.terminals) <= 1
    /\ ~shared /\ t.completions # <<>> /\ t.finished =>
          /\ t.completions[1].errs = t.terminals[1].errs
          /\ t.completions[1].rows = t.terminals[1].rows
          /\ t.completions[1].early => t.terminals[1].early
    /\ token' \in Nat /\ UNCHANGED <<cur, shared, raised, faults>>

LEMMA LeavesStep ==
    ASSUME IInv, NEW c \in Consumers, NEW q, NEW t, NEW l, NEW k, Leaves(c, q, t, l, k)
    PROVE  IInv'
<1>u. /\ Leaving(c) /\ q = call[c].q /\ Updates(q, t) /\ k \in CallRecords
      /\ pc' = [pc EXCEPT ![c] = l] /\ call' = [call EXCEPT ![c] = k]
      /\ token' \in Nat /\ cur' = cur /\ shared' = shared /\ raised' = raised /\ faults' = faults
      BY DEF Leaves
<1>s. /\ t.live = src[q].live /\ t.open = src[q].open /\ t.closed = src[q].closed
      /\ t.completed = src[q].completed /\ t.errs = src[q].errs /\ t.rows = src[q].rows
      /\ t.rowsRead = src[q].rowsRead /\ t.completions = src[q].completions
      BY DEF Leaves
<1>l. /\ (l = "terminal" /\ k = call[c]) \/ (l = "idle" /\ t.finished)
      /\ k.via = "Finish" \/ shared
      BY DEF Leaves
<1>r. /\ token' = token \/ (token = q /\ t.released)
      /\ src[q].released => t.released
      BY DEF Leaves
<1>f. /\ (t.finished <=> t.terminals # <<>>) /\ (src[q].finished => t.finished)
      /\ Len(t.terminals) <= 1
      /\ ~shared /\ t.completions # <<>> /\ t.finished =>
            /\ t.completions[1].errs = t.terminals[1].errs
            /\ t.completions[1].rows = t.terminals[1].rows
            /\ t.completions[1].early => t.terminals[1].early
      BY DEF Leaves
<1>1. /\ pc' \in [Consumers -> Labels] /\ call' \in [Consumers -> CallRecords]
      /\ pc'[c] = l /\ call'[c] = k
      /\ \A d \in Consumers : d # c => pc'[d] = pc[d] /\ call'[d] = call[d]
  <2>1. TypeOK /\ l \in Labels
        BY <1>l DEF IInv, Labels
  <2> QED BY Zenon, <1>u, <2>1, Moves
<1>2. /\ Reader \in Consumers /\ TypeOK /\ Queries' = Queries /\ q \in Queries
      /\ src[q].live /\ src[q].completed /\ SourceInv(q) /\ pc[c] \in {"release", "terminal"}
      BY <1>u, RowsAssumption DEF IInv, Queries, CallInv, Leaving
<1>3. /\ src'[q] = t /\ src' \in [Queries -> Sources]
      /\ \A p \in Queries : p # q => src'[p] = src[p]
      BY Zenon, <1>u, <1>2, UpdatesSource
<1>4. TypeOK'
      BY Zenon, <1>u, <1>1, <1>2, <1>3 DEF TypeOK
<1>5. ~(q > cur) /\ ~(q = cur /\ pc[Reader] = "query")
      BY <1>2, BlankIsDead
<1>6. ASSUME NEW p \in Queries PROVE SourceInv(p)'
  <2>1. SourceInv(p) /\ (pc'[Reader] = "query" <=> pc[Reader] = "query")
    <3>1. l # "query"
          BY <1>l
    <3> QED BY <1>1, <1>2, <3>1 DEF IInv
  <2>2. CASE p = q
    <3>1. t.live /\ ~t.released => token' = p
          BY <1>r, <1>s, <1>2, <2>2 DEF SourceInv
    <3>2. Len(t.completions) <= 1
          BY <1>s, <1>2 DEF SourceInv
    <3>3. ~(p > cur') /\ ~(p = cur' /\ pc'[Reader] = "query")
          BY <1>u, <1>5, <2>1, <2>2
    <3> QED BY Zenon, <1>f, <1>s, <1>2, <1>3, <2>2, <3>1, <3>2, <3>3 DEF SourceInv
  <2>3. CASE p # q
    <3>1. src'[p] = src[p] /\ raised'[p] = raised[p] /\ cur' = cur
          BY <1>u, <1>3, <2>3
    <3>2. src[p].live /\ ~src[p].released => token' = p
          BY <1>r, <1>s, <1>2, <2>1, <2>3 DEF SourceInv
    <3> QED BY Zenon, <2>1, <3>1, <3>2 DEF SourceInv
  <2> QED BY <2>2, <2>3
<1>7. ASSUME NEW d \in Consumers PROVE CallInv(d)'
  <2>1. CASE d = c
    <3>1. pc'[d] \in {"idle", "terminal"} /\ (pc'[d] = "terminal" => call'[d].q = q)
          BY <1>l, <1>u, <1>1, <2>1
    <3>2. t.live /\ t.completed
          BY <1>s, <1>2
    <3> QED BY Zenon, <1>2, <1>3, <3>1, <3>2 DEF CallInv, Ending, Leaving
  <2>2. CASE d # c
    <3>1. \A p \in Queries : /\ src[p].live => src'[p].live
                             /\ src[p].completed => src'[p].completed
                             /\ src'[p].completions = src[p].completions
          BY Zenon, <1>s, <1>3
    <3>2. Ending(d) => call[d].q \in Queries
          BY DEF IInv, CallInv
    <3>3. pc[d] = "query" => token' = token
          BY <1>r, <1>5 DEF IInv, CallInv
    <3> QED BY Zenon, <1>u, <1>1, <1>2, <2>2, <3>1, <3>2, <3>3, CallFrame DEF IInv
  <2> QED BY <2>1, <2>2
<1>8. OneEnds'
  <2>1. \A d \in Consumers : Ending(d)' => Ending(d) /\ call'[d].q = call[d].q
    <3>1. ~Ending(c)'
          BY <1>l, <1>1 DEF Ending
    <3> QED BY Zenon, <1>1, <3>1 DEF Ending
  <2> QED BY Zenon, <2>1, OneEndsKept DEF IInv
<1>9. ASSUME ~shared
      PROVE  /\ c = Reader /\ pc'[Reader] = l /\ call'[Reader] = k /\ k.via = "Finish"
             /\ \A d \in Consumers \ {Reader} : pc'[d] = "idle"
             /\ call[Reader].q = q /\ pc[Reader] \in {"release", "terminal"}
  <2>1. c = Reader
        BY <1>2, <1>9, AloneFacts
  <2> QED BY <1>l, <1>u, <1>1, <1>2, <1>9, <2>1, AloneFacts
<1>a. ASSUME ~shared PROVE AloneCall'
  <2>1. ~Ending(Reader)' /\ l # "exhaust" /\ l # "complete"
        BY <1>l, <1>9, <1>a DEF Ending
  <2>2. CASE l = "idle"
        BY Zenon, <1>u, <1>9, <1>a, <2>1, <2>2 DEF AloneCall, Leaving
  <2>3. CASE l = "terminal" /\ k = call[c]
    <3>1. k.q = q /\ src'[k.q] = t
          BY <1>u, <1>3, <2>3
    <3>2. ~t.finished => ~src[q].finished
          BY <1>f
    <3>3. Leaving(Reader) /\ AloneCall /\ k = call[Reader]
          BY <1>u, <1>9, <1>a, <2>3, AloneFacts
    <3>4. ~t.finished =>
              /\ t.completions # <<>> /\ k.result = t.completions[1].errs
              /\ t.completions[1].rows = t.rows /\ (t.completions[1].early => k.early)
          BY Zenon, <1>s, <3>1, <3>2, <3>3 DEF AloneCall
    <3> QED BY Zenon, <1>u, <1>9, <1>a, <2>1, <3>1, <3>4 DEF AloneCall
  <2> QED BY <1>l, <2>2, <2>3
<1>b. ASSUME ~shared, NEW p \in Queries PROVE AloneSource(p)'
  <2>1. AloneSource(p)
        BY <1>b, AloneFacts
  <2>2. CASE p = q
    <3>1. t.finished \/ Busy(p)'
          BY <1>l, <1>9, <1>b, <2>2 DEF Busy, Leaving
    <3>2. ~(t.closed /\ t.open) /\ raised'[p] \subseteq t.errs
          BY <1>s, <1>u, <1>2, <1>9, <1>b, <2>1, <2>2 DEF AloneSource
    <3>3. raised'[p] \subseteq t.errs \cup
                (IF pc'[Reader] = "exhaust" /\ p = cur' THEN call'[Reader].result ELSE {})
          BY <3>2
    <3>4. /\ t.open => t.live
          /\ t.rows = t.rowsRead /\ (t.completed => t.closed)
          /\ t.completions # <<>> => raised'[p] \subseteq t.completions[1].errs
          BY Zenon, <1>s, <1>u, <2>1, <2>2 DEF AloneSource
    <3>5. src'[p] = t /\ shared' = shared /\ ~shared
          BY <1>u, <1>3, <1>b, <2>2
    <3> QED BY Zenon, <1>f, <3>1, <3>2, <3>3, <3>4, <3>5 DEF AloneSource
  <2>3. CASE p # q
    <3>1. l \notin {"exhaust"} /\ pc[Reader] \notin {"exhaust"}
          BY <1>l, <1>9, <1>b
    <3> QED BY Zenon, <1>u, <1>3, <1>9, <1>b, <2>1, <2>3, <3>1, AloneElsewhere
  <2> QED BY <2>2, <2>3
<1> QED BY Zenon, <1>u, <1>2, <1>4, <1>6, <1>7, <1>8, <1>a, <1>b DEF IInv, Alone
LEMMA ReleaseTokenStep == ASSUME IInv, NEW c \in Consumers, ReleaseToken(c) PROVE IInv'
<1> DEFINE q == call[c].q
           t == [src[q] EXCEPT !.released = TRUE]
<1>1. /\ pc[c] = "release" /\ pc' = [pc EXCEPT ![c] = "terminal"]
      /\ UNCHANGED <<cur, shared, raised, faults>>
      BY Zenon DEF ReleaseToken, Goto
<1>2. /\ TypeOK /\ q \in Queries /\ src[q] \in Sources /\ call[c] \in CallRecords
      /\ src[q].live /\ src[q].completed /\ SourceInv(q) /\ Leaving(c) /\ token \in Nat
      BY <1>1 DEF IInv, TypeOK, CallInv, Leaving
<1>3. call' = [call EXCEPT ![c] = call[c]]
      BY <1>2 DEF TypeOK, ReleaseToken
<1>4. (~shared => AloneSource(q)) /\ (call[c].via = "Finish" \/ shared)
  <2>1. ~shared => c = Reader
        BY <1>1, AloneFacts
  <2> QED BY <1>2, <2>1, AloneFacts
<1>5. /\ (src[q].finished <=> src[q].terminals # <<>>) /\ Len(src[q].terminals) <= 1
      /\ ~src[q].released => token = q
      BY <1>2 DEF SourceInv
<1>6. ~shared /\ src[q].completions # <<>> /\ src[q].finished =>
          /\ src[q].completions[1].errs = src[q].terminals[1].errs
          /\ src[q].completions[1].rows = src[q].terminals[1].rows
          /\ src[q].completions[1].early => src[q].terminals[1].early
      BY Zenon, <1>4 DEF AloneSource
<1>7. /\ t \in Sources /\ t.released /\ t.live = src[q].live /\ t.open = src[q].open
      /\ t.closed = src[q].closed /\ t.completed = src[q].completed /\ t.errs = src[q].errs
      /\ t.rows = src[q].rows /\ t.rowsRead = src[q].rowsRead /\ t.finished = src[q].finished
      /\ t.completions = src[q].completions /\ t.terminals = src[q].terminals
      BY Zenon, <1>2 DEF Sources
<1>q. q = call[c].q
      OBVIOUS
<1>8. CASE src[q].released
  <2>1. token' = token /\ token' \in Nat /\ src' = src
        BY <1>2, <1>8 DEF ReleaseToken
  <2>2. src' = [src EXCEPT ![q] = src[q]]
        BY <1>2, <2>1 DEF TypeOK
  <2> HIDE DEF q
  <2>3. Updates(q, src[q])
        BY <1>2, <2>2 DEF Updates
  <2>4. Leaves(c, q, src[q], "terminal", call[c])
        BY Zenon, <1>1, <1>2, <1>3, <1>4, <1>5, <1>6, <1>q, <2>1, <2>3 DEF Leaves
  <2> QED BY Zenon, <2>4, LeavesStep
<1>9. CASE ~src[q].released
  <2>1. token' = 0 /\ token' \in Nat /\ src' = [src EXCEPT ![q] = t]
        BY Zenon, <1>9, 0 \in Nat DEF ReleaseToken
  <2> HIDE DEF q, t
  <2>2. Updates(q, t)
        BY Zenon, <1>2, <1>7, <2>1 DEF Updates
  <2>3. /\ ~shared /\ t.completions # <<>> /\ t.finished =>
            /\ t.completions[1].errs = t.terminals[1].errs
            /\ t.completions[1].rows = t.terminals[1].rows
            /\ t.completions[1].early => t.terminals[1].early
        /\ (t.finished <=> t.terminals # <<>>) /\ (src[q].finished => t.finished)
        /\ Len(t.terminals) <= 1
        BY Zenon, <1>5, <1>6, <1>7
  <2>4. Leaves(c, q, t, "terminal", call[c])
        BY Zenon, <1>1, <1>2, <1>3, <1>4, <1>5, <1>7, <1>9, <1>q, <2>1, <2>2, <2>3 DEF Leaves
  <2> QED BY Zenon, <2>4, LeavesStep
<1> QED BY <1>8, <1>9

LEMMA TerminalStep == ASSUME IInv, NEW c \in Consumers, Terminal(c) PROVE IInv'
<1> DEFINE q == call[c].q
           r == [errs |-> call[c].result, rows |-> src[q].rows, early |-> call[c].early]
           t == [src[q] EXCEPT !.finished = TRUE, !.terminals = <<r>>]
<1>1. /\ pc[c] = "terminal" /\ pc' = [pc EXCEPT ![c] = "idle"]
      /\ call' = [call EXCEPT ![c] = NoCall] /\ token' = token
      /\ UNCHANGED <<cur, shared, raised, faults>>
      BY Zenon DEF Terminal, Goto, Returns
<1>2. /\ TypeOK /\ q \in Queries /\ src[q] \in Sources /\ call[c] \in CallRecords
      /\ src[q].live /\ src[q].completed /\ SourceInv(q) /\ Leaving(c) /\ token' \in Nat
      BY <1>1 DEF IInv, TypeOK, CallInv, Leaving
<1>3. ~shared => AloneSource(q) /\ AloneCall /\ c = Reader
  <2>1. ~shared => c = Reader
        BY <1>1, AloneFacts
  <2> QED BY <1>2, <2>1, AloneFacts
<1>4. NoCall \in CallRecords /\ NoCall.via = "Finish"
      BY Blank
<1>5. r \in Reports
      BY <1>2 DEF Reports, Sources, CallRecords
<1>6. <<r>> \in Seq(Reports) /\ Len(<<r>>) <= 1 /\ <<r>> # <<>> /\ <<r>>[1] = r
      BY SMTT(30), <1>5
<1>7. ~shared /\ ~src[q].finished =>
          /\ src[q].completions[1].errs = r.errs /\ src[q].completions[1].rows = r.rows
          /\ src[q].completions[1].early => r.early
      BY Zenon, <1>2, <1>3 DEF AloneCall
<1>q. q = call[c].q
      OBVIOUS
<1>8. CASE src[q].finished
  <2>1. src' = src
        BY <1>8 DEF Terminal
  <2>2. src' = [src EXCEPT ![q] = src[q]]
        BY <1>2, <2>1 DEF TypeOK
  <2> HIDE DEF q
  <2>3. Updates(q, src[q])
        BY <1>2, <2>2 DEF Updates
  <2>4. /\ src[q].terminals # <<>> /\ Len(src[q].terminals) <= 1
        BY <1>2, <1>8 DEF SourceInv
  <2>5. ~shared /\ src[q].completions # <<>> /\ src[q].finished =>
            /\ src[q].completions[1].errs = src[q].terminals[1].errs
            /\ src[q].completions[1].rows = src[q].terminals[1].rows
            /\ src[q].completions[1].early => src[q].terminals[1].early
        BY Zenon, <1>3 DEF AloneSource
  <2>6. Leaves(c, q, src[q], "idle", NoCall)
        BY Zenon, <1>1, <1>2, <1>4, <1>8, <1>q, <2>3, <2>4, <2>5 DEF Leaves
  <2> QED BY Zenon, <2>6, LeavesStep
<1>9. CASE ~src[q].finished
  <2>1. src[q].terminals = <<>>
        BY <1>2, <1>9 DEF SourceInv
  <2>2. Append(src[q].terminals, r) = <<r>>
        BY SMTT(30), <2>1
  <2>3. src' = [src EXCEPT ![q] = t]
    <3>1. src' = [src EXCEPT ![q] = [src[q] EXCEPT !.finished = TRUE,
                                       !.terminals = Append(src[q].terminals, r)]]
          BY Zenon, <1>9 DEF Terminal
    <3> QED BY Zenon, <2>2, <3>1
  <2> HIDE DEF r
  <2>4. /\ t \in Sources /\ t.finished /\ t.terminals = <<r>>
        /\ t.live = src[q].live /\ t.open = src[q].open
        /\ t.closed = src[q].closed /\ t.completed = src[q].completed /\ t.errs = src[q].errs
        /\ t.rows = src[q].rows /\ t.rowsRead = src[q].rowsRead
        /\ t.completions = src[q].completions /\ t.released = src[q].released
        BY Zenon, <1>2, <1>6 DEF Sources
  <2> HIDE DEF q, t
  <2>5. Updates(q, t)
        BY Zenon, <1>2, <2>3, <2>4 DEF Updates
  <2>6. ~shared =>
            /\ t.completions[1].errs = t.terminals[1].errs
            /\ t.completions[1].rows = t.terminals[1].rows
            /\ t.completions[1].early => t.terminals[1].early
        BY Zenon, <1>6, <1>7, <1>9, <2>4
  <2>7. Leaves(c, q, t, "idle", NoCall)
        BY Zenon, <1>1, <1>2, <1>4, <1>6, <1>q, <2>4, <2>5, <2>6 DEF Leaves
  <2> QED BY Zenon, <2>7, LeavesStep
<1> QED BY <1>8, <1>9

-----------------------------------------------------------------------------
LEMMA StutterStep == ASSUME IInv, UNCHANGED vars PROVE IInv'
<1>1. /\ src' = src /\ pc' = pc /\ call' = call /\ raised' = raised /\ token' = token
      /\ cur' = cur /\ shared' = shared /\ faults' = faults /\ Queries' = Queries
      BY DEF vars, Queries
<1>2. TypeOK' /\ OneEnds'
      BY <1>1 DEF IInv, TypeOK, OneEnds, Ending
<1>3. ASSUME NEW q \in Queries PROVE SourceInv(q)'
      BY Zenon, <1>1, SourceFrame DEF IInv
<1>4. ASSUME NEW c \in Consumers PROVE CallInv(c)'
      BY <1>1, CallFrame DEF IInv
<1>5. ASSUME ~shared PROVE AloneCall'
      BY Zenon, <1>1, <1>5, AloneFacts DEF AloneCall, Ending, Leaving
<1>6. ASSUME ~shared, NEW q \in Queries PROVE AloneSource(q)'
      BY Zenon, <1>1, <1>6, AloneFacts DEF AloneSource, Busy, Ending, Leaving
<1> QED BY Zenon, <1>1, <1>2, <1>3, <1>4, <1>5, <1>6 DEF IInv, Alone

LEMMA NextIInv == IInv /\ [Next]_vars => IInv'
<1> SUFFICES ASSUME IInv, [Next]_vars PROVE IInv'
    OBVIOUS
<1>1. CASE Query
      BY <1>1, QueryStep
<1>2. CASE QueryReturns
      BY <1>2, QueryReturnsStep
<1>3. CASE ReadRow
      BY <1>3, ReadRowStep
<1>4. CASE ScanFails
      BY <1>4, ScanFailsStep
<1>5. CASE ColumnsFails
      BY <1>5, ColumnsFailsStep
<1>6. CASE NextEnds
      BY <1>6, NextEndsStep
<1>7. CASE Exhaust
      BY <1>7, ExhaustStep
<1>8. ASSUME NEW c \in Consumers, NEW q \in Queries, NEW a \in Arguments(shared),
             Finish(c, q, a)
      PROVE  IInv'
  <2>1. a.err \in SUBSET Errors /\ a.early \in BOOLEAN
    <3>1. shared \in BOOLEAN
          BY DEF IInv, TypeOK
    <3>2. a \in [err : SUBSET {"caller"}, early : BOOLEAN]
          BY <3>1, RowsAssumption
    <3> QED BY <3>2 DEF Errors
  <2>2. (shared \/ c = Reader) /\ End(c, q, "Finish", a.err, a.early)
        BY <1>8 DEF Finish
  <2> QED BY Zenon, <2>1, <2>2, EndStep
<1>9. ASSUME NEW c \in Consumers, NEW q \in Queries, CloseEarly(c, q) PROVE IInv'
  <2>1. {} \in SUBSET Errors /\ TRUE \in BOOLEAN
        OBVIOUS
  <2>2. shared /\ End(c, q, "Close", {}, TRUE)
        BY Zenon, <1>9 DEF CloseEarly
  <2> QED BY Zenon, <2>1, <2>2, EndStep
<1>a. ASSUME NEW c \in Consumers, Proceed(c) PROVE IInv'
      BY Zenon, <1>a, CloseStep, CompleteStep, ReleaseTokenStep, TerminalStep DEF Proceed
<1>b. CASE UNCHANGED vars
      BY <1>b, StutterStep
<1> QED BY Zenon, <1>1, <1>2, <1>3, <1>4, <1>5, <1>6, <1>7, <1>8, <1>9, <1>a, <1>b DEF Next

LEMMA Inductive == Spec => []IInv
BY InitIInv, NextIInv, PTL DEF Spec

\* A source that has not given the busy token back owns it, however many
\* goroutines end it at the same time and however many queries came before;
\* with one consumer, rows that are open on the driver are covered by it.
THEOREM TokenAlwaysHeld == Spec => []TokenIsHeld
<1>1. IInv => TokenIsHeld
  <2> SUFFICES ASSUME IInv, NEW q \in Queries
               PROVE  /\ src[q].live /\ ~src[q].released => token = q
                      /\ src[q].open /\ ~shared => token = q
      BY DEF TokenIsHeld
  <2>1. src[q].live /\ ~src[q].released => token = q
        BY DEF IInv, SourceInv
  <2>2. ASSUME src[q].open, ~shared PROVE token = q
    <3>1. AloneSource(q) /\ SourceInv(q) /\ AloneCall
          BY <2>2, AloneFacts DEF IInv
    <3>2. src[q].live
          BY <2>2, <3>1 DEF AloneSource
    <3>3. ~src[q].released
      <4>1. src[q].released => src[q].closed
            BY <3>1 DEF AloneSource, SourceInv
      <4>2. src[q].closed => pc[Reader] = "close" /\ call[Reader].q = q
            BY <2>2, <3>1 DEF AloneSource
      <4> QED BY <3>1, <4>1, <4>2 DEF AloneCall, Ending
    <3> QED BY <2>1, <3>2, <3>3
  <2> QED BY <2>1, <2>2
<1> QED BY <1>1, Inductive, PTL

\* The completion of a source that one goroutine reads and ends carries every
\* error that the driver raised on the way, whatever failed and when.
THEOREM EveryErrorReported == Spec => []ErrorsReported
<1>1. IInv => ErrorsReported
  <2> SUFFICES ASSUME IInv, ~shared, NEW q \in Queries, src[q].completions # <<>>
               PROVE  raised[q] \subseteq src[q].completions[1].errs
      BY DEF ErrorsReported
  <2> QED BY Zenon, AloneFacts DEF AloneSource
<1> QED BY <1>1, Inductive, PTL

\* However many goroutines end a source, and at whatever point of each other's
\* Finish or Close, its consumption is completed once and its statement gets one
\* terminal event; with one goroutine the two agree.
THEOREM SourceEndsOnce == Spec => []EndsOnce
<1>1. IInv => EndsOnce
  <2> SUFFICES ASSUME IInv, NEW q \in 1..cur
               PROVE  /\ Len(src[q].completions) <= 1 /\ Len(src[q].terminals) <= 1
                      /\ ~shared /\ src[q].completions # <<>> /\ src[q].finished =>
                            LET a == src[q].completions[1]
                                b == src[q].terminals[1]
                            IN  a.errs = b.errs /\ a.rows = b.rows /\ (a.early => b.early)
                      /\ ~shared /\ pc[Reader] = "idle" /\ (src[q].live => src[q].completed) =>
                            src[q].terminals # <<>>
      BY DEF EndsOnce
  <2>1. q \in Queries /\ q <= cur
    <3>1. shared \in BOOLEAN /\ cur \in 0..MaxQueries(shared)
          BY DEF IInv, TypeOK
    <3> QED BY <3>1, RowsAssumption DEF Queries
  <2>2. SourceInv(q)
        BY <2>1 DEF IInv
  <2>3. Len(src[q].completions) <= 1 /\ Len(src[q].terminals) <= 1
        BY <2>2 DEF SourceInv
  <2>4. ~shared /\ src[q].completions # <<>> /\ src[q].finished =>
            LET a == src[q].completions[1]
                b == src[q].terminals[1]
            IN  a.errs = b.errs /\ a.rows = b.rows /\ (a.early => b.early)
        BY Zenon, <2>1, AloneFacts DEF AloneSource
  <2>5. ASSUME ~shared, pc[Reader] = "idle", src[q].live => src[q].completed
        PROVE  src[q].terminals # <<>>
    <3>1. CASE ~src[q].live
          BY <2>1, <2>2, <2>5, <3>1 DEF SourceInv
    <3>2. CASE src[q].live
      <4>1. AloneSource(q) /\ ~Busy(q)
            BY <2>1, <2>5, AloneFacts DEF Busy, Ending, Leaving
      <4>2. src[q].finished
            BY <2>5, <3>2, <4>1 DEF AloneSource
      <4> QED BY <2>2, <4>2 DEF SourceInv
    <3> QED BY <3>1, <3>2
  <2> QED BY <2>3, <2>4, <2>5
<1> QED BY <1>1, Inductive, PTL
=============================================================================
