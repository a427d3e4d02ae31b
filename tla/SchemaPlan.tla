----------------------------- MODULE SchemaPlan -----------------------------
(* What migrate/diff shares between its three analyzers: the comparison of    *)
(* two schemas, the order of new tables, the decisions left to the caller,    *)
(* and the plan as it is resolved, validated and written.                     *)
(*                                                                            *)
(* A decision is [kind, table, column, from], an answer [id, fill, from]      *)
(* (fill: the column its SQL fills, <<>> for no SQL), a generated source      *)
(* [up, down], each a sequence of statements.                                 *)
EXTENDS SchemaSQL, SequencesExt

CONSTANT
    NameOrder   \* every name of a schema object, as sort.Strings puts them

Rank(n) == IF n = "" THEN 0 ELSE CHOOSE i \in DOMAIN NameOrder : NameOrder[i] = n
Sorted(S) == SetToSortSeq(S, LAMBDA m, n : Rank(m) < Rank(n))

Map(seq, F(_)) == [i \in DOMAIN seq |-> F(seq[i])]
Distinct(seq) == Cardinality(Elements(seq)) = Len(seq)
Source(up, down) == [up |-> up, down |-> down]

Anonymous(def) == {k \in def.cons : k.name = ""}
ConstraintNames(def) == {k.name : k \in def.cons \ Anonymous(def)}
NamedIn(def, n) == CHOOSE k \in def.cons : k.name = n

(* Which objects the target adds, drops and keeps.                           *)
AddedObjects(base, target) == Sorted(DOMAIN target \ DOMAIN base)
RemovedObjects(base, target) == Sorted(DOMAIN base \ DOMAIN target)
MatchedObjects(base, target) == Sorted(DOMAIN base \cap DOMAIN target)

(* Take the first ready element, over and over: what is left when none is    *)
(* ready waits on itself.                                                    *)
Kahn(S, DependsOn(_), Before(_, _)) ==
    LET Ready(done) == {x \in S \ Elements(done) : DependsOn(x) \subseteq Elements(done)}
        First(R) == CHOOSE x \in R : \A y \in R \ {x} : Before(x, y)
        Take[n \in 0..Cardinality(S)] ==
            IF n = 0 THEN <<>>
            ELSE LET done == Take[n - 1]
                 IN  IF Ready(done) = {} THEN done ELSE Append(done, First(Ready(done)))
    IN  Take[Cardinality(S)]

References(def) == {k.ref : k \in {j \in def.cons : j.kind = "fk"}}

(* New tables, each after the new tables it refers to. A cycle leaves some   *)
(* of them out, which is an error.                                           *)
OrderTables(tables, added) ==
    Kahn(added, LAMBDA t : (References(tables[t]) \cap added) \ {t},
         LAMBDA t, u : Rank(t) < Rank(u))

HasCycle(tables, added) == Len(OrderTables(tables, added)) # Cardinality(added)

(* A NOT NULL column without a default: only the application knows what its  *)
(* existing rows should hold.                                                *)
RequiresBackfill(col) == col.nn /\ col.dflt \in {"none", "null"}

RenameDecision(t, c, from) ==
    [kind |-> "rename", table |-> t, column |-> c, from |-> from]
BackfillDecision(t, c) ==
    [kind |-> "backfill", table |-> t, column |-> c, from |-> ""]

DecisionID(d) == <<d.kind, d.table, d.column>>

(* The answers that go with the decisions.                                   *)
RightAnswers(decisions) ==
    {[id |-> DecisionID(d), from |-> d.from,
      fill |-> IF d.kind = "backfill" THEN <<d.table, d.column>> ELSE <<>>] :
        d \in Elements(decisions)}

(* Resolve takes exactly one answer to each decision: SQL for a backfill,    *)
(* the column the analyzer proposed for a rename.                            *)
Accepts(decisions, answers) ==
    /\ Cardinality(answers) = Len(decisions)
    /\ \A a \in answers : \E d \in Elements(decisions) :
          /\ a.id = DecisionID(d)
          /\ d.kind = "backfill" => a.fill # <<>> /\ a.from = ""
          /\ d.kind = "rename" => a.fill = <<>> /\ a.from = d.from
    /\ \A a, b \in answers : a.id = b.id => a = b

AnswerTo(answers, d) == CHOOSE a \in answers : a.id = DecisionID(d)

(* What an analyzer comes back with: an error, a lowered plan (sources,      *)
(* mode, whether it can be reverted), or one that waits for answers.         *)
Refused == [status |-> "refused", decisions |-> <<>>, sources |-> <<>>,
            mode |-> "atomic", irreversible |-> FALSE]
Empty == [Refused EXCEPT !.status = "empty"]
Inert == [Refused EXCEPT !.status = "inert"]
Open(decisions) == [Refused EXCEPT !.status = "open", !.decisions = decisions]
Lowered(sources, mode, irreversible) ==
    [status |-> "ready", decisions |-> <<>>, sources |-> sources, mode |-> mode,
     irreversible |-> irreversible]

(* A plan that can be reverted has something to say for every source.        *)
Validate(plan) ==
    plan.irreversible \/ \A s \in Elements(plan.sources) : s.down # <<>>

Validated(plan) == IF Validate(plan) THEN plan ELSE Refused

(* WriteMigration leaves the down files out of an irreversible plan; the     *)
(* runner takes down files last first.                                       *)
Files(plan) ==
    [up |-> [i \in DOMAIN plan.sources |-> plan.sources[i].up],
     down |-> IF plan.irreversible THEN <<>>
              ELSE Reverse([i \in DOMAIN plan.sources |-> plan.sources[i].down]),
     mode |-> plan.mode]
=============================================================================
