----------------------------- MODULE ScopeProof -----------------------------
(***************************************************************************)
(* Theorems about Scope, for every bound, set of habits and owner of the   *)
(* transaction.                                                            *)
(***************************************************************************)
EXTENDS Scope, TLAPS

\* Main is sending something on the connection, or reading rows from it.
Sending == main \in {"stmt", "rows", "save", "commit", "rollback", "rollbackTo", "release"}

USE DEF srv

\* The exits of a scope hand the connection back.
LEMMA LeaveMain ==
    ASSUME NEW failed, Leave(failed)
    PROVE  main' \in {"callback", "done"}
BY DEF Leave

----------------------------------------------------------------------------
(* What a failed callback leaves behind.                                   *)

\* Main is between the begin and the end of a scope.
Inside == Sending \/ main \in {"callback", "end"}

\* A scope, with any writes and savepoint.
AnyFrame == [kind : Kinds, sp : Nat, ws : SUBSET Nat,
             out : {"none", "ok", "err", "panic"}, late : BOOLEAN, bad : BOOLEAN]

\* The first scope, and no other, owns the transaction.
Nested(fs) == \A i \in 1..Len(fs) : fs[i].sp = 0 <=> i = 1

FramesInv ==
    /\ frames \in Seq(AnyFrame)
    /\ Nested(frames)
    /\ main = "idle" => frames = <<>>
    /\ Inside => Len(frames) > 0

\* COMMIT is sent for the outermost scope only, when its callback returned nil,
\* and nothing else makes a write durable.
CommitInv ==
    /\ main = "commit" => Len(frames) = 1 /\ frames[1].out = "ok"
    /\ db # {} => main = "done" /\ Len(frames) = 1 /\ frames[1].out = "ok"

CountInv == writes \in Nat /\ saves \in Nat

OutcomeInv == CountInv /\ FramesInv /\ CommitInv

\* Changing the innermost scope, but not its savepoint, keeps the nesting.
LEMMA MarkTop ==
    ASSUME NEW fs \in Seq(AnyFrame), Nested(fs), Len(fs) > 0,
           NEW f \in AnyFrame, f.sp = fs[Len(fs)].sp,
           NEW gs, gs = [fs EXCEPT ![Len(fs)] = f]
    PROVE  /\ gs \in Seq(AnyFrame) /\ Len(gs) = Len(fs) /\ Nested(gs)
           /\ gs[Len(fs)] = f
<1>1. gs \in Seq(AnyFrame) /\ Len(gs) = Len(fs)
  OBVIOUS
<1>2. gs[Len(fs)] = f
  BY <1>1
<1>3. \A i \in 1..Len(fs) : gs[i].sp = fs[i].sp
  <2>1. \A i \in 1..Len(fs) : i # Len(fs) => gs[i] = fs[i]
    OBVIOUS
  <2>2. QED
    BY <1>1, <1>2, <2>1
<1>4. QED
  BY Zenon, <1>1, <1>2, <1>3 DEF Nested

\* So does opening a scope inside it with a new savepoint ...
LEMMA PushTop ==
    ASSUME NEW fs \in Seq(AnyFrame), Nested(fs),
           NEW f \in AnyFrame, f.sp = 0 <=> fs = <<>>
    PROVE  /\ Append(fs, f) \in Seq(AnyFrame) /\ Len(Append(fs, f)) = Len(fs) + 1
           /\ Nested(Append(fs, f))
<1>1. Append(fs, f) \in Seq(AnyFrame) /\ Len(Append(fs, f)) = Len(fs) + 1
  OBVIOUS
<1>2. \A i \in 1..Len(fs) : Append(fs, f)[i] = fs[i]
  OBVIOUS
<1>3. Append(fs, f)[Len(fs) + 1] = f /\ (fs = <<>> <=> Len(fs) = 0)
  OBVIOUS
<1>4. QED
  BY <1>1, <1>2, <1>3 DEF Nested

\* ... and leaving it.
LEMMA PopTop ==
    ASSUME NEW fs \in Seq(AnyFrame), Nested(fs), Len(fs) > 1
    PROVE  /\ SubSeq(fs, 1, Len(fs) - 1) \in Seq(AnyFrame)
           /\ Len(SubSeq(fs, 1, Len(fs) - 1)) = Len(fs) - 1
           /\ Nested(SubSeq(fs, 1, Len(fs) - 1))
           /\ SubSeq(fs, 1, Len(fs) - 1)[Len(fs) - 1] = fs[Len(fs) - 1]
<1> DEFINE gs == SubSeq(fs, 1, Len(fs) - 1)
<1>1. gs \in Seq(AnyFrame) /\ Len(gs) = Len(fs) - 1
  OBVIOUS
<1>2. \A i \in 1..(Len(fs) - 1) : gs[i] = fs[i]
  OBVIOUS
<1>3. QED
  BY <1>1, <1>2 DEF Nested

\* A step that changes the innermost scope in place.
LEMMA MarkStep ==
    ASSUME FramesInv, Len(frames) > 0,
           NEW f \in AnyFrame, f.sp = Top.sp, frames' = [frames EXCEPT ![Last] = f]
    PROVE  /\ frames' \in Seq(AnyFrame) /\ Nested(frames')
           /\ Len(frames') = Len(frames) /\ frames'[Len(frames)] = f
<1>1. frames \in Seq(AnyFrame) /\ Nested(frames)
  BY DEF FramesInv
<1>2. f.sp = frames[Len(frames)].sp /\ frames' = [frames EXCEPT ![Len(frames)] = f]
  BY DEF Top, Last
<1>3. QED
  BY <1>1, <1>2, MarkTop, Zenon

\* The exit of a scope: the outermost stays to be looked at, a nested one goes.
LEMMA LeaveFrames ==
    ASSUME FramesInv, Len(frames) > 0, NEW failed \in BOOLEAN, Leave(failed)
    PROVE  /\ frames' \in Seq(AnyFrame) /\ Nested(frames') /\ Len(frames') > 0
           /\ Len(frames) = 1 => /\ main' = "done" /\ Len(frames') = 1
                                 /\ frames'[1].out = frames[1].out
           /\ Len(frames) # 1 => main' = "callback"
<1>1. frames \in Seq(AnyFrame) /\ Top \in AnyFrame /\ Len(frames) \in Nat
  BY DEF FramesInv, Top, Last
<1>2. CASE Len(frames) = 1
  <2> DEFINE f == [frames[1] EXCEPT !.bad = failed]
  <2>1. frames[1] \in AnyFrame
    BY <1>1, <1>2
  <2>2. f \in AnyFrame /\ f.sp = frames[1].sp /\ f.out = frames[1].out
    BY <2>1 DEF AnyFrame
  <2>3. frames' = [frames EXCEPT ![1] = f] /\ main' = "done"
    BY <1>2 DEF Leave, Last
  <2>4. frames' \in Seq(AnyFrame) /\ Nested(frames') /\ Len(frames') = 1 /\ frames'[1] = f
    BY Zenon, <1>2, <2>2, <2>3, MarkStep DEF Top, Last
  <2>5. QED
    BY <1>2, <2>2, <2>3, <2>4
<1>3. CASE Len(frames) # 1
  <2> DEFINE gs == SubSeq(frames, 1, Last - 1)
             g == gs[Last - 1]
  <2>1. gs \in Seq(AnyFrame) /\ Len(gs) = Last - 1 /\ Len(gs) > 0 /\ Nested(gs)
    <3>1. Nested(frames) /\ Len(frames) > 1
      <4> DEFINE n == Len(frames)
      <4>1. n \in Nat /\ n > 0 /\ n # 1
        BY <1>1, <1>3
      <4> HIDE DEF n
      <4>2. n > 1
        BY <4>1
      <4>3. QED
        BY <4>2 DEF FramesInv, n
    <3>2. gs \in Seq(AnyFrame) /\ Len(gs) = Last - 1 /\ Nested(gs)
      BY <1>1, <3>1, PopTop, Zenon DEF Last
    <3>3. QED
      BY <1>1, <3>1, <3>2 DEF Last
  <2>2. g \in AnyFrame
    BY <2>1
  <2>3. main' = "callback"
    BY <1>3 DEF Leave, Last
  <2>4. PICK ws \in SUBSET Nat : frames' = [gs EXCEPT ![Last - 1] = [g EXCEPT !.ws = ws]]
    <3>1. g.ws \in SUBSET Nat /\ (g.ws \cup Top.ws) \in SUBSET Nat
      BY Zenon, <1>1, <2>2 DEF AnyFrame
    <3>2. \/ frames' = [gs EXCEPT ![Last - 1] = [g EXCEPT !.ws = g.ws]]
          \/ frames' = [gs EXCEPT ![Last - 1] = [g EXCEPT !.ws = g.ws \cup Top.ws]]
      BY Zenon, <1>3 DEF Leave, Last
    <3>3. QED
      BY Zenon, <3>1, <3>2
  <2>5. [g EXCEPT !.ws = ws] \in AnyFrame /\ [g EXCEPT !.ws = ws].sp = g.sp
    BY Zenon, <2>2 DEF AnyFrame
  <2>6. frames' \in Seq(AnyFrame) /\ Nested(frames') /\ Len(frames') = Len(gs)
    <3> DEFINE h == [g EXCEPT !.ws = ws]
    <3>1. h \in AnyFrame /\ h.sp = gs[Len(gs)].sp /\ frames' = [gs EXCEPT ![Len(gs)] = h]
      BY Zenon, <2>1, <2>4, <2>5
    <3> HIDE DEF gs, h
    <3>2. QED
      BY <2>1, <3>1, MarkTop, Zenon
  <2>7. QED
    BY <1>3, <2>1, <2>3, <2>6
<1>4. QED
  BY <1>2, <1>3

\* What is left to show of a step that stays inside the scopes, or leaves the
\* outermost one without a commit.
LEMMA InsideStep ==
    ASSUME OutcomeInv, Inside, db' = db, CountInv',
           frames' \in Seq(AnyFrame), Nested(frames'), Len(frames') > 0,
           main' # "idle", main' # "commit"
    PROVE  OutcomeInv'
<1>1. db = {}
  BY DEF OutcomeInv, CommitInv, Inside, Sending
<1>2. QED
  BY <1>1 DEF OutcomeInv, FramesInv, CommitInv

\* A scope that returns without a commit.
LEMMA LeaveStep ==
    ASSUME OutcomeInv, Inside, db' = db, CountInv', NEW failed \in BOOLEAN, Leave(failed)
    PROVE  OutcomeInv'
<1>1. FramesInv /\ Len(frames) > 0
  BY DEF OutcomeInv, FramesInv
<1>2. frames' \in Seq(AnyFrame) /\ Nested(frames') /\ Len(frames') > 0
  BY <1>1, LeaveFrames
<1>3. main' \in {"callback", "done"}
  BY LeaveMain
<1>4. QED
  BY <1>2, <1>3, InsideStep

\* Every step keeps the stack of scopes and the meaning of a commit.
LEMMA OutcomeStep == OutcomeInv /\ [Next]_vars => OutcomeInv'
<1> SUFFICES ASSUME OutcomeInv, [Next]_vars PROVE OutcomeInv'
  OBVIOUS
<1>a. /\ frames \in Seq(AnyFrame) /\ Nested(frames) /\ CountInv /\ FramesInv
      /\ Inside => Len(frames) > 0 /\ Top \in AnyFrame
  BY DEF OutcomeInv, FramesInv, Top, Last
<1>b. ASSUME Inside, NEW f \in AnyFrame, f.sp = Top.sp, frames' = [frames EXCEPT ![Last] = f]
      PROVE  frames' \in Seq(AnyFrame) /\ Nested(frames') /\ Len(frames') > 0
  BY Zenon, <1>a, <1>b, MarkStep
<1>1. CASE BeginTx
  <2>1. CASE frames' = frames /\ main' = "done"
    BY <1>1, <2>1 DEF BeginTx, OutcomeInv, FramesInv, CommitInv, CountInv, Inside, Sending
  <2>2. ASSUME NEW k \in Outers, Open(k, 0), main' = "callback" PROVE OutcomeInv'
    <3> DEFINE f == [kind |-> k, sp |-> 0, ws |-> {}, out |-> "none",
                     late |-> FALSE, bad |-> FALSE]
    <3>1. f \in AnyFrame /\ f.sp = 0 /\ frames = <<>> /\ frames' = Append(frames, f)
      BY <1>1, <2>2, ScopeAssumption DEF BeginTx, Open, AnyFrame, OutcomeInv, FramesInv
    <3>2. frames' \in Seq(AnyFrame) /\ Nested(frames') /\ Len(frames') = Len(frames) + 1
      <4> HIDE DEF f
      <4>1. QED
        BY <1>a, <3>1, PushTop, Zenon
    <3>3. Len(frames') > 0
      BY <3>1, <3>2
    <3>4. db = {} /\ db' = db
      BY <1>1 DEF BeginTx, OutcomeInv, CommitInv
    <3>5. QED
      BY <1>1, <2>2, <3>2, <3>3, <3>4 DEF BeginTx, OutcomeInv, FramesInv, CommitInv, CountInv
  <2>3. QED
    BY <1>1, <2>1, <2>2 DEF BeginTx
<1>2. CASE Exec \/ Query \/ Nest \/ FinishRows \/ CloseRows
  <2>1. Inside /\ db' = db /\ frames' = frames /\ CountInv' /\ main' \notin {"idle", "commit"}
    BY <1>2, <1>a DEF Exec, Query, Nest, FinishRows, CloseRows, Inside, Sending, CountInv
  <2>2. QED
    BY <1>a, <2>1, InsideStep
<1>3. CASE ExecReturns
  <2>1. Inside /\ db' = db /\ CountInv' /\ main' = "callback"
    BY <1>3, <1>a DEF ExecReturns, Inside, Sending, CountInv
  <2>2. CASE frames' = [frames EXCEPT ![Last].ws = @ \cup {writes + 1}]
    <3> DEFINE f == [Top EXCEPT !.ws = Top.ws \cup {writes + 1}]
    <3>1. f \in AnyFrame /\ f.sp = Top.sp
      BY <1>a, <2>1 DEF AnyFrame, CountInv
    <3>2. frames' = [frames EXCEPT ![Last] = f]
      BY <2>2 DEF Top
    <3>3. QED
      BY Zenon, <1>b, <2>1, <3>1, <3>2, InsideStep
  <2>3. CASE frames' = frames
    BY <1>a, <2>1, <2>3, InsideStep
  <2>4. QED
    BY <1>3, <2>2, <2>3 DEF ExecReturns
<1>4. ASSUME NEW out \in {"ok", "err", "panic"}, Inside, db' = db, CountInv',
             main' \notin {"idle", "commit"},
             frames' = [frames EXCEPT ![Last].out = out]
      PROVE  OutcomeInv'
  <2> DEFINE f == [Top EXCEPT !.out = out]
  <2>1. f \in AnyFrame /\ f.sp = Top.sp
    BY <1>a, <1>4 DEF AnyFrame
  <2>2. frames' = [frames EXCEPT ![Last] = f]
    BY <1>4 DEF Top
  <2>3. QED
    BY Zenon, <1>b, <1>4, <2>1, <2>2, InsideStep
<1>5. CASE PanicInLoop
  BY <1>5, <1>4, <1>a DEF PanicInLoop, Inside, Sending, CountInv
<1>6. CASE \E out \in {"ok", "err", "panic"} : CallbackEnds(out)
  BY Zenon, <1>6, <1>4, <1>a DEF CallbackEnds, Inside, Sending, CountInv
<1>7. CASE NestReturns
  <2>1. Inside /\ db' = db /\ CountInv' /\ main' = "callback"
    BY <1>7, <1>a DEF NestReturns, Inside, Sending, CountInv
  <2>2. ASSUME NEW k \in NestKinds, Open(k, saves + 1) PROVE OutcomeInv'
    <3> DEFINE f == [kind |-> k, sp |-> saves + 1, ws |-> {}, out |-> "none",
                     late |-> FALSE, bad |-> FALSE]
    <3>1. f \in AnyFrame /\ f.sp # 0 /\ frames' = Append(frames, f)
      BY <2>2, <1>a DEF NestKinds, Kinds, Open, AnyFrame, CountInv
    <3>2. frames # <<>> /\ Len(frames) \in Nat
      BY <1>a, <2>1
    <3>3. frames' \in Seq(AnyFrame) /\ Nested(frames') /\ Len(frames') = Len(frames) + 1
      <4> HIDE DEF f
      <4>1. QED
        BY <1>a, <3>1, <3>2, PushTop, Zenon
    <3>4. QED
      BY <2>1, <3>2, <3>3, InsideStep
  <2>3. CASE frames' = frames
    BY <1>a, <2>1, <2>3, InsideStep
  <2>4. QED
    BY <1>7, <2>2, <2>3 DEF NestReturns
<1>8. CASE Refused
  <2>1. Inside /\ db' = db /\ CountInv'
    BY <1>8, <1>a DEF Refused, Inside, CountInv
  <2>2. CASE Leave(TRUE)
    BY Zenon, <2>1, <2>2, LeaveStep
  <2>3. CASE main' = "callback" /\ frames' = [frames EXCEPT ![Last].out = "none"]
    <3> DEFINE f == [Top EXCEPT !.out = "none"]
    <3>1. f \in AnyFrame /\ f.sp = Top.sp
      BY <1>a, <2>1 DEF AnyFrame
    <3>2. frames' = [frames EXCEPT ![Last] = f]
      BY <2>3 DEF Top
    <3>3. QED
      BY Zenon, <1>b, <2>1, <2>3, <3>1, <3>2, InsideStep
  <2>4. QED
    BY Zenon, <1>8, <2>2, <2>3 DEF Refused
<1>9. CASE Finalize
  <2>1. Inside /\ db' = db /\ frames' = frames /\ CountInv' /\ main' # "idle"
    BY <1>9, <1>a DEF Finalize, Inside, Sending, CountInv
  <2>2. CASE main' = "commit"
    <3>1. Top.sp = 0 /\ Top.out = "ok"
      BY <1>9, <2>2 DEF Finalize
    <3>2. Len(frames) = 1
      <4>1. Len(frames) \in 1..Len(frames) /\ frames[Len(frames)].sp = 0
        BY <1>a, <2>1, <3>1 DEF Top, Last
      <4>2. QED
        BY <1>a, <4>1, Zenon DEF Nested
    <3>3. db = {}
      BY <1>9 DEF Finalize, OutcomeInv, CommitInv
    <3>4. frames[1].out = "ok"
      BY <3>1, <3>2 DEF Top, Last
    <3>5. QED
      BY <1>a, <2>1, <2>2, <3>2, <3>3, <3>4 DEF OutcomeInv, FramesInv, CommitInv
  <2>3. CASE main' # "commit"
    BY <1>a, <2>1, <2>3, InsideStep
  <2>4. QED
    BY <2>2, <2>3
<1>10. CASE Commit
  <2>1. Len(frames) = 1 /\ frames[1].out = "ok" /\ CountInv'
    BY <1>10, <1>a DEF Commit, OutcomeInv, CommitInv, CountInv
  <2>2. PICK failed \in BOOLEAN : Leave(failed)
    BY Zenon, <1>10 DEF Commit
  <2>3. /\ frames' \in Seq(AnyFrame) /\ Nested(frames') /\ Len(frames') = 1
        /\ main' = "done" /\ frames'[1].out = "ok"
    BY <1>a, <2>1, <2>2, LeaveFrames
  <2>4. QED
    BY <2>1, <2>3 DEF OutcomeInv, FramesInv, CommitInv, Inside, Sending
<1>11. CASE Rollback
  <2>1. Inside /\ db' = db /\ CountInv'
    BY <1>11, <1>a DEF Rollback, Inside, Sending, CountInv
  <2>2. PICK failed \in BOOLEAN : Leave(failed)
    BY Zenon, <1>11 DEF Rollback
  <2>3. QED
    BY <2>1, <2>2, LeaveStep
<1>12. CASE RollbackTo
  <2>1. Inside /\ db' = db /\ CountInv' /\ main' = "release"
    BY <1>12, <1>a DEF RollbackTo, Inside, Sending, CountInv
  <2>2. CASE frames' = [frames EXCEPT ![Last].bad = TRUE]
    <3> DEFINE f == [Top EXCEPT !.bad = TRUE]
    <3>1. f \in AnyFrame /\ f.sp = Top.sp
      BY Zenon, <1>a, <2>1 DEF AnyFrame
    <3>2. frames' = [frames EXCEPT ![Last] = f]
      BY <2>2 DEF Top
    <3>3. QED
      BY Zenon, <1>b, <2>1, <3>1, <3>2, InsideStep
  <2>3. CASE frames' = frames
    BY <1>a, <2>1, <2>3, InsideStep
  <2>4. QED
    BY <1>12, <2>2, <2>3 DEF RollbackTo
<1>13. CASE ReleaseReturns
  <2>1. Inside /\ db' = db /\ CountInv'
    BY <1>13, <1>a DEF ReleaseReturns, Inside, Sending, CountInv
  <2>2. Top.bad \in BOOLEAN
    BY <1>a, <2>1 DEF AnyFrame
  <2>3. PICK failed \in BOOLEAN : Leave(failed)
    BY Zenon, <1>13, <2>2 DEF ReleaseReturns
  <2>4. QED
    BY <2>1, <2>3, LeaveStep
<1>14. CASE ThirtySecondsPass
  <2>1. Inside /\ db' = db /\ CountInv' /\ main' \notin {"idle", "commit"}
    BY <1>14, <1>a DEF ThirtySecondsPass, Inside, Sending, CountInv
  <2>2. PICK k \in 2..Last :
          frames' = [i \in 1..Last |->
                        [frames[i] EXCEPT !.late =
                            @ \/ (i \in 2..k /\ frames[i].kind = "within")]]
    BY Zenon, <1>14 DEF ThirtySecondsPass
  <2> DEFINE f(i) == [frames[i] EXCEPT !.late =
                         frames[i].late \/ (i \in 2..k /\ frames[i].kind = "within")]
  <2>3. \A i \in 1..Last : f(i) \in AnyFrame /\ f(i).sp = frames[i].sp
    <3>1. \A i \in 1..Last : frames[i] \in AnyFrame
      BY <1>a DEF Last
    <3>2. QED
      BY <3>1, Zenon DEF AnyFrame
  <2>4. frames' = [i \in 1..Last |-> f(i)]
    BY <2>2
  <2> HIDE DEF f
  <2>5. frames' \in Seq(AnyFrame) /\ Len(frames') = Last
    BY <1>a, <2>3, <2>4 DEF Last
  <2>6. \A i \in 1..Last : frames'[i].sp = frames[i].sp
    BY <2>3, <2>4
  <2>7. Nested(frames') /\ Len(frames') > 0
    BY <1>a, <2>1, <2>5, <2>6 DEF Nested, Last
  <2>8. QED
    BY <2>1, <2>5, <2>7, InsideStep
<1>15. CASE SideExec \/ SideExecReturns \/ SideQuery \/ SideFinishRows \/ Cancel \/ UNCHANGED vars
  <2>1. frames' = frames /\ main' = main /\ db' = db /\ CountInv'
    BY <1>15, <1>a DEF SideExec, SideExecReturns, SideQuery, SideFinishRows, Cancel, vars,
       CountInv
  <2>2. QED
    BY <2>1 DEF OutcomeInv, FramesInv, CommitInv, Inside, Sending
<1>16. QED
  BY <1>1, <1>2, <1>3, <1>5, <1>6, <1>7, <1>8, <1>9, <1>10, <1>11, <1>12, <1>13,
     <1>14, <1>15 DEF Next

\* It holds before any scope has begun.
LEMMA InitOutcome == Init => OutcomeInv
BY DEF Init, OutcomeInv, CountInv, FramesInv, CommitInv, Nested, Inside, Sending

\* A scope whose callback failed or panicked has made nothing durable, however
\* its rollback went and whatever the scopes nested in it did.
THEOREM FailedScopeCommitsNothing == Spec => []FailedCallbackLeavesNothing
<1>1. OutcomeInv => FailedCallbackLeavesNothing
  BY DEF OutcomeInv, CommitInv, FailedCallbackLeavesNothing
<1>2. QED
  BY <1>1, InitOutcome, OutcomeStep, PTL DEF Spec
----------------------------------------------------------------------------
(* Who uses the connection.                                                *)

\* Leaving a nested scope does not change who owns the transaction.
LEMMA PopOwner ==
    ASSUME NEW fs \in Seq(AnyFrame), Len(fs) > 1, NEW ws
    PROVE  LET gs == SubSeq(fs, 1, Len(fs) - 1)
           IN  [gs EXCEPT ![Len(fs) - 1] = [gs[Len(fs) - 1] EXCEPT !.ws = ws]][1].kind
                   = fs[1].kind
<1> DEFINE gs == SubSeq(fs, 1, Len(fs) - 1)
           n == Len(fs) - 1
           g == [gs[n] EXCEPT !.ws = ws]
<1>1. gs \in Seq(AnyFrame) /\ Len(gs) = n /\ n \in Nat /\ n > 0
  OBVIOUS
<1>2. gs[1] = fs[1]
  OBVIOUS
<1>3. gs[n] \in AnyFrame
  BY <1>1
<1>4. g.kind = gs[n].kind
  BY <1>3 DEF AnyFrame
<1> HIDE DEF gs, n, g
<1>5. 1 \in DOMAIN gs /\ n \in DOMAIN gs
  BY <1>1
<1>6. [gs EXCEPT ![n] = g][1] = IF n = 1 THEN g ELSE gs[1]
  BY <1>5
<1>7. [gs EXCEPT ![n] = g][1].kind = fs[1].kind
  BY <1>2, <1>4, <1>6
<1>8. QED
  BY <1>7 DEF gs, n, g

\* The outermost scope stays the one that began the transaction, so that the
\* executors of all scopes share its token, or have none.
LEMMA OwnerStep ==
    ASSUME OutcomeInv, Next, frames # <<>>
    PROVE  frames' # <<>> /\ frames'[1].kind = frames[1].kind
<1>a. /\ frames \in Seq(AnyFrame) /\ FramesInv /\ Len(frames) \in Nat /\ Len(frames) > 0
      /\ \A i \in 1..Len(frames) : frames[i] \in AnyFrame
  BY DEF OutcomeInv, FramesInv
<1>b. ASSUME NEW f, f.kind = Top.kind, frames' = [frames EXCEPT ![Last] = f]
      PROVE  frames' # <<>> /\ frames'[1].kind = frames[1].kind
  <2>1. DOMAIN frames' = 1..Len(frames) /\ 1 \in 1..Len(frames)
    BY <1>a, <1>b
  <2>2. frames'[1] = IF Last = 1 THEN f ELSE frames[1]
    BY <1>a, <1>b DEF Last
  <2>3. QED
    BY <1>b, <2>1, <2>2 DEF Top
<1>c. ASSUME NEW failed \in BOOLEAN, Leave(failed)
      PROVE  frames' # <<>> /\ frames'[1].kind = frames[1].kind
  <2>1. frames' \in Seq(AnyFrame) /\ Len(frames') > 0
    BY <1>a, <1>c, LeaveFrames
  <2>2. CASE Last = 1
    <3>1. frames' = [frames EXCEPT ![1] = [frames[1] EXCEPT !.bad = failed]]
      BY <1>c, <2>2 DEF Leave
    <3>2. [frames[1] EXCEPT !.bad = failed].kind = frames[1].kind
      BY <1>a DEF AnyFrame
    <3>3. QED
      BY <1>b, <2>2, <3>1, <3>2 DEF Top
  <2>3. CASE Last # 1
    <3> DEFINE gs == SubSeq(frames, 1, Last - 1)
    <3>1. PICK ws : frames' = [gs EXCEPT ![Last - 1] = [gs[Last - 1] EXCEPT !.ws = ws]]
      <4>1. \/ frames' = [gs EXCEPT ![Last - 1] = [gs[Last - 1] EXCEPT !.ws = gs[Last - 1].ws]]
            \/ frames' = [gs EXCEPT ![Last - 1] =
                             [gs[Last - 1] EXCEPT !.ws = gs[Last - 1].ws \cup Top.ws]]
        BY Zenon, <1>c, <2>3 DEF Leave
      <4>2. QED
        BY Zenon, <4>1
    <3>2. Len(frames) > 1
      <4> DEFINE n == Len(frames)
      <4>1. n \in Nat /\ n > 0 /\ n # 1
        BY <1>a, <2>3 DEF Last
      <4> HIDE DEF n
      <4>2. n > 1
        BY <4>1
      <4>3. QED
        BY <4>2 DEF n
    <3>3. frames' # <<>>
      BY <2>1
    <3>4. frames'[1].kind = frames[1].kind
      BY Zenon, <1>a, <3>1, <3>2, PopOwner DEF Last
    <3>5. QED
      BY <3>3, <3>4
  <2>4. QED
    BY <2>2, <2>3
<1>1. CASE frames' = frames
  BY <1>1
<1>2. CASE BeginTx
  BY <1>2 DEF BeginTx, OutcomeInv, FramesInv
<1>3. CASE Exec \/ Query \/ Nest \/ FinishRows \/ CloseRows \/ Finalize
           \/ SideExec \/ SideExecReturns \/ SideQuery \/ SideFinishRows \/ Cancel
  BY <1>1, <1>3 DEF Exec, Query, Nest, FinishRows, CloseRows, Finalize, SideExec,
     SideExecReturns, SideQuery, SideFinishRows, Cancel
<1>d. Top \in AnyFrame
  BY <1>a DEF Top, Last
<1>4. ASSUME NEW ws, frames' = [frames EXCEPT ![Last].ws = ws]
      PROVE  frames' # <<>> /\ frames'[1].kind = frames[1].kind
  <2>1. frames' = [frames EXCEPT ![Last] = [Top EXCEPT !.ws = ws]]
    BY <1>4 DEF Top
  <2>2. [Top EXCEPT !.ws = ws].kind = Top.kind
    BY <1>d DEF AnyFrame
  <2>3. QED
    BY Zenon, <1>b, <2>1, <2>2
<1>5. ASSUME NEW out, frames' = [frames EXCEPT ![Last].out = out]
      PROVE  frames' # <<>> /\ frames'[1].kind = frames[1].kind
  <2>1. frames' = [frames EXCEPT ![Last] = [Top EXCEPT !.out = out]]
    BY <1>5 DEF Top
  <2>2. [Top EXCEPT !.out = out].kind = Top.kind
    BY <1>d DEF AnyFrame
  <2>3. QED
    BY Zenon, <1>b, <2>1, <2>2
<1>6. CASE frames' = [frames EXCEPT ![Last].bad = TRUE]
  <2>1. frames' = [frames EXCEPT ![Last] = [Top EXCEPT !.bad = TRUE]]
    BY <1>6 DEF Top
  <2>2. [Top EXCEPT !.bad = TRUE].kind = Top.kind
    BY <1>d DEF AnyFrame
  <2>3. QED
    BY Zenon, <1>b, <2>1, <2>2
<1>7. CASE ExecReturns
  BY <1>7, <1>1, <1>4 DEF ExecReturns
<1>8. CASE PanicInLoop \/ \E out \in {"ok", "err", "panic"} : CallbackEnds(out)
  BY <1>8, <1>5 DEF PanicInLoop, CallbackEnds
<1>9. CASE NestReturns
  <2>1. ASSUME NEW k, Open(k, saves + 1) PROVE frames' # <<>> /\ frames'[1].kind = frames[1].kind
    BY <1>a, <2>1 DEF Open
  <2>2. QED
    BY <1>9, <1>1, <2>1 DEF NestReturns
<1>10. CASE Refused
  BY Zenon, <1>10, <1>5, <1>c DEF Refused
<1>11. CASE Commit \/ Rollback
  BY Zenon, <1>11, <1>c DEF Commit, Rollback
<1>12. CASE RollbackTo
  BY <1>12, <1>1, <1>6 DEF RollbackTo
<1>13. CASE ReleaseReturns
  <2>1. Top.bad \in BOOLEAN
    BY <1>d DEF AnyFrame
  <2>2. QED
    BY Zenon, <1>13, <1>c, <2>1 DEF ReleaseReturns
<1>14. CASE ThirtySecondsPass
  <2>1. PICK k \in 2..Last :
          frames' = [i \in 1..Last |->
                        [frames[i] EXCEPT !.late =
                            @ \/ (i \in 2..k /\ frames[i].kind = "within")]]
    BY Zenon, <1>14 DEF ThirtySecondsPass
  <2>2. 1 \in 1..Last /\ frames[1] \in AnyFrame
    BY <1>a DEF Last
  <2>3. frames'[1] = [frames[1] EXCEPT !.late =
                         @ \/ (1 \in 2..k /\ frames[1].kind = "within")]
    BY <2>1, <2>2
  <2>4. frames'[1].kind = frames[1].kind
    BY <2>2, <2>3 DEF AnyFrame
  <2>5. DOMAIN frames' # {} /\ DOMAIN << >> = {}
    BY <2>1, <2>2
  <2>6. QED
    BY <2>4, <2>5
<1>15. QED
  BY <1>2, <1>3, <1>7, <1>8, <1>9, <1>10, <1>11, <1>12, <1>13, <1>14 DEF Next

\* With a busy token, whoever uses the connection has put the token there, and
\* only one of the two has.  Before a transaction has begun, nobody uses it.
TokenInv ==
    /\ HasToken => /\ Sending => token
                   /\ side # "idle" => token
                   /\ ~(Sending /\ side # "idle")
    /\ frames = <<>> => tx = "none" /\ side = "idle" /\ main \in {"idle", "done"}

\* Every step that sends something has taken the token for one of the two.
LEMMA TokenStep == OutcomeInv /\ TokenInv /\ [Next]_vars => TokenInv'
<1> SUFFICES ASSUME OutcomeInv, TokenInv, [Next]_vars PROVE TokenInv'
  OBVIOUS
<1>a. CASE UNCHANGED vars
  BY <1>a DEF vars, TokenInv, HasToken, Sending
<1>b. CASE frames = <<>> /\ Next
  <2>1. CASE BeginTx
    <3>1. side' = "idle"
      BY <1>b, <2>1 DEF TokenInv, BeginTx
    <3>2. CASE main' = "done" /\ UNCHANGED <<tx, frames>>
      BY <1>b, <3>1, <3>2 DEF TokenInv, HasToken
    <3>3. CASE main' = "callback" /\ \E k \in Outers : Open(k, 0)
      <4>1. frames' # <<>>
        BY <1>b, <3>3 DEF Open
      <4>2. QED
        BY <3>1, <3>3, <4>1 DEF TokenInv, Sending
    <3>4. QED
      BY <2>1, <3>2, <3>3 DEF BeginTx
  <2>2. main \in {"idle", "done"} /\ tx = "none" /\ side = "idle"
    BY <1>b DEF TokenInv
  <2>3. Next => BeginTx
    BY Zenon, <2>2 DEF Next, Exec, ExecReturns, Query, FinishRows, CloseRows, PanicInLoop, Nest,
       NestReturns, CallbackEnds, Refused, Finalize, Commit, Rollback, RollbackTo,
       ReleaseReturns, SideExec, SideExecReturns, SideQuery, SideFinishRows,
       ThirtySecondsPass, Cancel, CanRun
  <2>4. QED
    BY <1>b, <2>1, <2>3
<1>c. CASE frames # <<>> /\ Next
  <2>a. frames' # <<>> /\ (HasToken' <=> HasToken)
    BY <1>c, OwnerStep DEF HasToken
  <2> SUFFICES ASSUME HasToken
               PROVE  (Sending => token)' /\ (side # "idle" => token)'
                      /\ ~(Sending /\ side # "idle")'
    BY <2>a DEF TokenInv
  <2>b. (Sending => token) /\ (side # "idle" => token) /\ ~(Sending /\ side # "idle")
    BY DEF TokenInv
  <2> USE DEF Sending
  <2>1. CASE BeginTx
    BY <1>c, <2>1 DEF BeginTx, OutcomeInv, FramesInv
  <2>2. CASE Exec \/ Query \/ Nest
    BY Zenon, <2>2, <2>b DEF Exec, Query, Nest, Acquire
  <2>3. CASE ExecReturns \/ FinishRows \/ NestReturns
    BY Zenon, <2>3, <2>b DEF ExecReturns, FinishRows, NestReturns, Release
  <2>4. CASE CloseRows \/ PanicInLoop
    BY <2>4, <2>b DEF CloseRows, PanicInLoop
  <2>5. CASE \E out \in {"ok", "err", "panic"} : CallbackEnds(out)
    BY <2>5, <2>b DEF CallbackEnds
  <2>6. CASE Refused
    BY Zenon, <2>6, <2>b, LeaveMain DEF Refused
  <2>7. CASE Finalize
    BY Zenon, <2>7, <2>b DEF Finalize, Acquire
  <2>8. CASE Commit
    BY Zenon, <2>8, <2>b, LeaveMain DEF Commit, Release
  <2>9. CASE Rollback
    BY Zenon, <2>9, <2>b, LeaveMain DEF Rollback, Release
  <2>10. CASE RollbackTo
    BY <2>10, <2>b DEF RollbackTo
  <2>11. CASE ReleaseReturns
    BY Zenon, <2>11, <2>b, LeaveMain DEF ReleaseReturns, Release
  <2>12. CASE SideExec \/ SideQuery
    BY Zenon, <2>12, <2>b DEF SideExec, SideQuery, Acquire
  <2>13. CASE SideExecReturns \/ SideFinishRows
    BY <2>13, <2>b DEF SideExecReturns, SideFinishRows, Release
  <2>14. CASE ThirtySecondsPass \/ Cancel
    BY <2>14, <2>b DEF ThirtySecondsPass, Cancel
  <2>15. QED
    BY <1>c, <2>1, <2>2, <2>3, <2>4, <2>5, <2>6, <2>7, <2>8, <2>9, <2>10, <2>11, <2>12,
       <2>13, <2>14 DEF Next
<1>d. QED
  BY <1>a, <1>b, <1>c

\* Where there is a busy token, as for the child of BeginScope, two goroutines
\* never use the connection at once, the finalizer and savepoints included.
THEOREM TokenExcludes == Spec => []ConnectionExclusive
<1>1. Init => OutcomeInv /\ TokenInv
  BY InitOutcome DEF Init, TokenInv, Sending, HasToken
<1>2. TokenInv => ConnectionExclusive
  BY DEF TokenInv, Sending, ConnectionExclusive
<1>3. QED
  BY <1>1, <1>2, OutcomeStep, TokenStep, PTL DEF Spec
=============================================================================
