---------------------------- MODULE MigrateProof ----------------------------
(***************************************************************************)
(* Proofs about Migrate, for any runners, engine, supplied migrations and  *)
(* bounds: the migration lock keeps every run to itself.                   *)
(***************************************************************************)
EXTENDS MigrateInvariant

(* One lemma for each action. *)

LEMMA StartStep ==
    ASSUME IInv, NEW r \in Runners, NEW o \in {"apply", "revert", "plan"},
           NEW t \in ApplyTargets \cup RevertTargets, Start(r, o, t)
    PROVE  IInv'
<1>1. TypeOK'
      BY MigrateAssumption DEF IInv, TypeOK, Start, Goto
<1>2. CallInv'
      BY SMTT(60) DEF IInv, TypeOK, CallInv, Start, Goto
<1>3. LockInv'
      BY DEF IInv, TypeOK, LockInv, Guarded, Start, Goto, OwnTx
<1> QED BY <1>1, <1>2, <1>3 DEF IInv

LEMMA AcquireAdvisoryStep == ASSUME IInv, NEW r \in Runners, AcquireAdvisory(r) PROVE IInv'
<1>1. TypeOK'
      BY EmptyType, MigrateAssumption DEF IInv, TypeOK, AcquireAdvisory, Goto, call
<1>2. CallInv'
      BY SMTT(60) DEF IInv, TypeOK, CallInv, AcquireAdvisory, Goto, call
<1>3. LockInv'
      BY SMTT(60), MigrateAssumption
         DEF IInv, TypeOK, CallInv, LockInv, Guarded, OwnTx, AcquireAdvisory, Goto, call
<1> QED BY <1>1, <1>2, <1>3 DEF IInv

LEMMA BeginImmediateStep == ASSUME IInv, NEW r \in Runners, BeginImmediate(r) PROVE IInv'
<1>1. TypeOK'
      BY SMTT(60), EmptyType, MigrateAssumption
         DEF IInv, TypeOK, BeginImmediate, OpenTx, Goto, call
<1>2. CallInv'
      BY DEF IInv, TypeOK, CallInv, BeginImmediate, OpenTx, Goto, call
<1>3. LockInv'
  <2>1. \A q \in Runners : lock.owner # q /\ ~ intx[q]
        BY MigrateAssumption DEF IInv, LockInv, BeginImmediate
  <2>2. \A q \in Runners : alive[q] => ~ Guarded(q)
        BY <2>1 DEF IInv, LockInv
  <2>3. /\ lock' = [owner |-> r, count |-> 1] /\ lock'.owner # None
        /\ ~ Advisory /\ alive[r] /\ op[r] # "plan"
        /\ pc' = [pc EXCEPT ![r] = "ensure"] /\ UNCHANGED <<alive, op, cur>>
        /\ intx' = [intx EXCEPT ![r] = TRUE]
        BY MigrateAssumption DEF IInv, CallInv, BeginImmediate, OpenTx, Goto, call
  <2>4. ASSUME NEW q \in Runners, q # r
        PROVE  /\ Guarded(q)' = Guarded(q) /\ alive'[q] = alive[q]
               /\ ~ intx'[q] /\ lock'.owner # q
        BY <2>1, <2>3, <2>4 DEF IInv, TypeOK, Guarded, Advisory
  <2>5. Guarded(r)' /\ intx'[r]
        BY <2>3 DEF IInv, TypeOK, Guarded, Advisory
  <2> QED BY SMTT(60), <2>2, <2>3, <2>4, <2>5 DEF LockInv, Advisory
<1> QED BY <1>1, <1>2, <1>3 DEF IInv

LEMMA AcquireTimesOutStep == ASSUME IInv, NEW r \in Runners, AcquireTimesOut(r) PROVE IInv'
<1>1. TypeOK'
  <2>1. LocalsOK'
        BY Zenon, ReturnType DEF IInv, AcquireTimesOut
  <2> QED BY <2>1 DEF IInv, TypeOK, LocalsOK, AcquireTimesOut, server
<1>2. CallInv'
      BY Zenon, ReturnCall DEF AcquireTimesOut
<1>3. LockInv'
      BY Zenon, QuietReturn DEF AcquireTimesOut, server
<1> QED BY <1>1, <1>2, <1>3 DEF IInv

LEMMA AcquireFailsStep == ASSUME IInv, NEW r \in Runners, AcquireFails(r) PROVE IInv'
<1>0. faults' \in 0..MaxFaults
      BY FaultsType DEF IInv, AcquireFails
<1>1. CASE SessionEnds(r) /\ UNCHANGED db
      BY ZenonT(60), <1>0, <1>1, SessionEndsReturn DEF AcquireFails
<1>2. CASE UNCHANGED server
  <2>1. TypeOK'
    <3>1. LocalsOK'
          BY Zenon, ReturnType DEF IInv, AcquireFails
    <3> QED BY <1>0, <1>2, <3>1 DEF IInv, TypeOK, LocalsOK, AcquireFails, server
  <2>2. CallInv'
        BY Zenon, ReturnCall DEF AcquireFails
  <2>3. LockInv'
        BY Zenon, <1>2, QuietReturn DEF AcquireFails, server
  <2> QED BY <2>1, <2>2, <2>3 DEF IInv
<1> QED BY <1>1, <1>2 DEF AcquireFails

LEMMA EnsureHistoryStep == ASSUME IInv, NEW r \in Runners, EnsureHistory(r) PROVE IInv'
<1>1. TypeOK'
  <2>1. [View(r) EXCEPT !.table = TRUE] \in Databases
        BY Zenon, ViewType DEF IInv, Databases
  <2>2. db' \in Databases /\ work' \in [Runners -> Databases]
        BY <2>1, WriteType DEF IInv, EnsureHistory
  <2> QED BY Zenon, <2>2 DEF IInv, TypeOK, EnsureHistory, Goto, call
<1>a. /\ pc[r] = "ensure" /\ pc' = [pc EXCEPT ![r] = "read"]
      /\ UNCHANGED <<intx, alive, lock, op, todo, cur>>
      BY Zenon DEF EnsureHistory, Goto, call
<1>b. OthersKept(r) /\ pc'[r] = "read"
      BY <1>a DEF IInv, TypeOK, OthersKept
<1>2. CallInv'
      BY <1>a, <1>b, CallFrame DEF IInv, CallInv
<1>3. LockInv'
  <2>1. Guarded(r)' = Guarded(r)
        BY Zenon, <1>a, <1>b DEF Guarded, Advisory
  <2>2. intx[r] => lock.owner = r /\ ~ Advisory
        BY <1>a DEF IInv, LockInv
  <2> QED BY <1>a, <1>b, <2>1, <2>2, LockFrame DEF IInv
<1> QED BY <1>1, <1>2, <1>3 DEF IInv

LEMMA EnsureFailsStep == ASSUME IInv, NEW r \in Runners, EnsureFails(r) PROVE IInv'
<1>1. db' \in Databases /\ faults' \in 0..MaxFaults
      BY FaultsType DEF IInv, TypeOK, EnsureFails
<1> QED BY <1>1, AbandonStep DEF EnsureFails

LEMMA SelectStep == ASSUME IInv, NEW r \in Runners, Select(r) PROVE IInv'
<1> DEFINE h == View(r).hist
<1>h. h \in [IDs -> 0..MaxSum]
      BY SMTT(60), ViewType DEF IInv, Databases
<1>a. CASE Refused(r, h)
  <2>1. Abandon(r) /\ UNCHANGED <<db, faults>> /\ pc[r] = "read"
        BY Zenon, <1>a DEF Select
  <2> QED BY SMTT(60), <2>1, AbandonStep DEF IInv, TypeOK
<1>b. CASE ~ Refused(r, h)
  <2> USE <1>b
  <2>0. /\ Selected(r, h) \in SUBSET IDs
        /\ \A m \in Selected(r, h) : Sum[r][m] # 0
        BY SMTT(60), <1>h, SelectedSupplied DEF IInv
  <2>s. /\ seen' = [seen EXCEPT ![r] = h]
        /\ todo' = [todo EXCEPT ![r] = Selected(r, h)]
        /\ pc' = [pc EXCEPT ![r] = IF op[r] = "plan" THEN "release" ELSE "next"]
        /\ UNCHANGED <<db, work, intx, alive, lock, op, aim, cur, idx, done, result, runs, faults>>
        /\ pc[r] = "read" /\ alive[r]
        BY SMTT(60) DEF Select, Goto, server
  <2> HIDE DEF h
  <2>1. TypeOK'
        BY SMTT(60), <1>h, <2>0, <2>s DEF IInv, TypeOK
  <2>b. /\ OthersKept(r) /\ todo'[r] = Selected(r, h)
        /\ pc'[r] = IF op[r] = "plan" THEN "release" ELSE "next"
        BY <2>s DEF IInv, TypeOK, OthersKept
  <2>2. CallInv'
        BY <2>0, <2>s, <2>b, CallFrame DEF IInv
  <2>3. LockInv'
    <3>1. Guarded(r)' = Guarded(r)
          BY <2>s, <2>b DEF Guarded, Advisory
    <3>2. intx[r] => lock.owner = r /\ ~ Advisory
          BY <2>s DEF IInv, LockInv
    <3> QED BY <2>s, <2>b, <3>1, <3>2, LockFrame DEF IInv
  <2> QED BY <2>1, <2>2, <2>3 DEF IInv
<1> QED BY <1>a, <1>b

LEMMA ReadFailsStep == ASSUME IInv, NEW r \in Runners, ReadFails(r) PROVE IInv'
<1>1. db' \in Databases /\ faults' \in 0..MaxFaults
      BY FaultsType DEF IInv, TypeOK, ReadFails
<1> QED BY <1>1, AbandonStep DEF ReadFails

LEMMA NextMigrationStep == ASSUME IInv, NEW r \in Runners, NextMigration(r) PROVE IInv'
<1>1. TypeOK'
  <2> PICK m \in todo[r] :
          /\ cur' = [cur EXCEPT ![r] = m]
          /\ IF OwnTx(r, m)
             THEN OpenTx(r) /\ Goto(r, IF Engine = "mysql" THEN "recheck" ELSE "exec")
             ELSE Goto(r, "exec") /\ UNCHANGED <<work, intx>>
      BY Zenon DEF NextMigration
  <2>1. m \in 0..N
        BY DEF IInv, TypeOK, IDs
  <2>2. work' \in [Runners -> Databases] /\ intx' \in [Runners -> BOOLEAN]
        BY ZenonT(60) DEF IInv, TypeOK, OpenTx
  <2>3. pc' = [pc EXCEPT ![r] = "recheck"] \/ pc' = [pc EXCEPT ![r] = "exec"]
        BY DEF Goto
  <2> QED BY Zenon, <2>1, <2>2, <2>3, EmptyType DEF IInv, TypeOK, NextMigration
<1>a. PICK m \in todo[r] :
          /\ cur' = [cur EXCEPT ![r] = m]
          /\ \/ /\ OwnTx(r, m) /\ alive[r] /\ intx' = [intx EXCEPT ![r] = TRUE]
                /\ \E l \in {"recheck", "exec"} : pc' = [pc EXCEPT ![r] = l]
             \/ ~ OwnTx(r, m) /\ pc' = [pc EXCEPT ![r] = "exec"] /\ UNCHANGED intx
      BY Zenon DEF NextMigration, OpenTx, Goto
<1>b. pc[r] = "next" /\ UNCHANGED <<alive, lock, op, todo>>
      BY Zenon DEF NextMigration
<1>c. /\ OthersKept(r) /\ cur'[r] = m /\ pc'[r] \in {"recheck", "exec"}
      /\ OwnTx(r, m) \/ intx'[r] = intx[r]
      BY <1>a, <1>b DEF IInv, TypeOK, OthersKept
<1>2. CallInv'
      BY <1>b, <1>c, CallFrame DEF IInv, CallInv
<1>3. LockInv'
  <2>1. op[r] # "plan" /\ Guarded(r)' = Guarded(r)
        BY Zenon, <1>b, <1>c DEF IInv, CallInv, Guarded, Advisory
  <2>2. intx[r] => lock.owner = r /\ ~ Advisory
        BY <1>b DEF IInv, LockInv
  <2>3. OwnTx(r, m) => alive[r] /\ Advisory /\ lock.owner = r
        BY <1>a, <1>b, <2>1 DEF IInv, LockInv, Guarded, OwnTx
  <2> QED BY <1>b, <1>c, <2>1, <2>2, <2>3, LockFrame DEF IInv
<1> QED BY <1>1, <1>2, <1>3 DEF IInv

LEMMA BeginFailsStep == ASSUME IInv, NEW r \in Runners, BeginFails(r) PROVE IInv'
<1>1. db' \in Databases /\ faults' \in 0..MaxFaults
      BY SMTT(60), FaultsType DEF IInv, TypeOK, BeginFails
<1> QED BY <1>1, AbandonStep DEF BeginFails

LEMMA LoopEndsStep == ASSUME IInv, NEW r \in Runners, LoopEnds(r) PROVE IInv'
<1>1. TypeOK'
      BY SMTT(60), EmptyType, MigrateAssumption DEF IInv, TypeOK, LoopEnds, Goto, server, call
<1>a. /\ pc[r] = "next" /\ pc' = [pc EXCEPT ![r] = IF Advisory THEN "release" ELSE "commitrun"]
      /\ UNCHANGED <<intx, alive, lock, op, todo, cur>>
      BY Zenon DEF LoopEnds, Goto, server, call
<1>b. OthersKept(r) /\ pc'[r] = IF Advisory THEN "release" ELSE "commitrun"
      BY <1>a DEF IInv, TypeOK, OthersKept
<1>2. CallInv'
      BY <1>a, <1>b, CallFrame DEF IInv, CallInv
<1>3. LockInv'
  <2>1. Guarded(r)' = Guarded(r)
        BY <1>a, <1>b DEF IInv, CallInv, Guarded, Advisory
  <2>2. intx[r] => lock.owner = r /\ ~ Advisory
        BY <1>a DEF IInv, LockInv
  <2> QED BY <1>a, <1>b, <2>1, <2>2, LockFrame DEF IInv
<1> QED BY <1>1, <1>2, <1>3 DEF IInv

LEMMA RecheckStep == ASSUME IInv, NEW r \in Runners, Recheck(r) PROVE IInv'
<1>0. pc[r] = "recheck" /\ alive[r] /\ op[r] # "plan" /\ cur[r] \in IDs
      BY SMTT(60), CurType DEF IInv, CallInv, Recheck
<1>1. CASE Goto(r, "exec") /\ UNCHANGED <<server, call, result, runs, faults>>
  <2>1. TypeOK'
        BY SMTT(60), <1>1 DEF IInv, TypeOK, server, call, Goto
  <2>a. /\ pc' = [pc EXCEPT ![r] = "exec"]
        /\ UNCHANGED <<intx, alive, lock, op, todo, cur>>
        BY Zenon, <1>1 DEF Goto, server, call
  <2>b. OthersKept(r) /\ pc'[r] = "exec"
        BY <2>a DEF IInv, TypeOK, OthersKept
  <2>2. CallInv'
        BY <1>0, <2>a, <2>b, CallFrame DEF IInv, CallInv
  <2>3. LockInv'
    <3>1. Guarded(r)' = Guarded(r)
          BY Zenon, <1>0, <2>a, <2>b DEF Guarded, Advisory
    <3>2. intx[r] => lock.owner = r /\ (Advisory => OwnTx(r, cur[r]))
          BY DEF IInv, LockInv
    <3> QED BY <2>a, <2>b, <3>1, <3>2, LockFrame DEF IInv
  <2> QED BY <2>1, <2>2, <2>3 DEF IInv
<1>2. CASE CloseTx(r) /\ Finish(r, FALSE) /\ UNCHANGED <<db, alive, lock>>
  <2>1. TypeOK'
    <3>1. LocalsOK' /\ runs' \in 0..MaxRuns /\ faults' \in 0..MaxFaults
          BY Zenon, <1>0, <1>2, FinishType DEF IInv
    <3> QED BY Zenon, <1>2, <3>1, EmptyType DEF IInv, TypeOK, LocalsOK, CloseTx
  <2>2. CallInv'
        BY ZenonT(60), <1>0, <1>2, FinishCall
  <2>3. LockInv'
    <3>1. OthersKept(r) /\ pc'[r] = "next" /\ ~ intx'[r]
          BY <1>2 DEF IInv, TypeOK, CloseTx, Finish, Goto, OthersKept
    <3>2. alive' = alive /\ lock' = lock /\ op' = op
          BY Zenon, <1>2 DEF Finish
    <3>3. Guarded(r)' = Guarded(r)
          BY Zenon, <1>0, <3>1, <3>2 DEF Guarded, Advisory
    <3> QED BY <3>1, <3>2, <3>3, LockFrame DEF IInv
  <2> QED BY <2>1, <2>2, <2>3 DEF IInv
<1>3. CASE Abandon(r) /\ UNCHANGED <<db, faults>>
      BY ZenonT(60), <1>0, <1>3, AbandonStep DEF IInv, TypeOK
<1> QED BY ZenonT(60), <1>1, <1>2, <1>3 DEF Recheck

LEMMA ExecStep == ASSUME IInv, NEW r \in Runners, Exec(r) PROVE IInv'
<1>1. TypeOK'
  <2>1. After(r) \in Databases
        BY Zenon, AfterType DEF Exec
  <2>2. /\ db' \in Databases /\ work' \in [Runners -> Databases]
        /\ intx' \in [Runners -> BOOLEAN]
    <3>1. CASE ImplicitCommit(r)
      <4>1. db' = After(r) /\ CloseTx(r)
            BY SMTT(60), <3>1 DEF Exec
      <4> QED BY SMTT(60), <2>1, <4>1, EmptyType DEF IInv, TypeOK, CloseTx
    <3>2. CASE ~ ImplicitCommit(r)
          BY <2>1, <3>2, WriteType DEF IInv, TypeOK, Exec
    <3> QED BY <3>1, <3>2
  <2>3. idx' \in [Runners -> Srcs]
    <3>1. CASE idx[r] < Steps(r)
      <4>1. idx[r] \in Srcs
            BY DEF IInv, TypeOK
      <4>2. Steps(r) \in 0..MaxSrc
            BY CurType DEF Exec
      <4>3. idx[r] + 1 \in Srcs
            BY <3>1, <4>1, <4>2, MigrateAssumption DEF Srcs
      <4>4. idx' = [idx EXCEPT ![r] = idx[r] + 1]
            BY <3>1 DEF IInv, TypeOK, Exec
      <4> QED BY <4>3, <4>4 DEF IInv, TypeOK
    <3>2. CASE ~ (idx[r] < Steps(r))
          BY <3>2 DEF IInv, TypeOK, Exec
    <3> QED BY <3>1, <3>2
  <2> QED BY <2>2, <2>3 DEF IInv, TypeOK, Exec, Goto
<1>a. /\ pc[r] = "exec" /\ UNCHANGED <<alive, lock, op, todo, cur>>
      /\ UNCHANGED pc \/ pc' = [pc EXCEPT ![r] = "record"]
      /\ UNCHANGED intx \/ intx' = [intx EXCEPT ![r] = FALSE]
      BY Zenon DEF Exec, CloseTx, Goto
<1>b. OthersKept(r) /\ pc'[r] \in {"exec", "record"} /\ (intx'[r] => intx[r])
      BY <1>a DEF IInv, TypeOK, OthersKept
<1>2. CallInv'
      BY <1>a, <1>b, CallFrame DEF IInv, CallInv
<1>3. LockInv'
  <2>1. Guarded(r)' = Guarded(r)
        BY Zenon, <1>a, <1>b DEF IInv, CallInv, Guarded, Advisory
  <2>2. intx[r] => lock.owner = r /\ (Advisory => OwnTx(r, cur[r]))
        BY DEF IInv, LockInv
  <2> QED BY <1>a, <1>b, <2>1, <2>2, LockFrame DEF IInv
<1> QED BY <1>1, <1>2, <1>3 DEF IInv

LEMMA ExecFailsStep == ASSUME IInv, NEW r \in Runners, ExecFails(r) PROVE IInv'
<1>1. db' \in Databases /\ faults' \in 0..MaxFaults
      BY SMTT(60), FaultsType, ViewType DEF IInv, TypeOK, ExecFails
<1> QED BY SMTT(60), <1>1, AbandonStep DEF ExecFails

LEMMA RecordStep == ASSUME IInv, NEW r \in Runners, Record(r) PROVE IInv'
<1>1. TypeOK'
  <2>1. db' \in Databases /\ work' \in [Runners -> Databases]
        BY RecordAfterType, WriteType DEF IInv, Record
  <2>2. LocalsOK' /\ runs' \in 0..MaxRuns /\ faults' \in 0..MaxFaults
    <3>1. CASE OwnTx(r, cur[r])
          BY ZenonT(40), <3>1 DEF IInv, TypeOK, LocalsOK, Record, Goto, call
    <3>2. CASE ~ OwnTx(r, cur[r])
          BY Zenon, <3>2, CurType, FinishType DEF IInv, Record
    <3> QED BY <3>1, <3>2
  <2> QED BY SMTT(60), <2>1, <2>2 DEF IInv, TypeOK, LocalsOK, Record
<1>2. CallInv'
  <2>1. CASE OwnTx(r, cur[r])
    <3>1. /\ pc[r] = "record" /\ pc' = [pc EXCEPT ![r] = "commit"]
          /\ UNCHANGED <<intx, alive, op, todo, cur>>
          BY Zenon, <2>1 DEF Record, Goto, call
    <3>2. OthersKept(r) /\ pc'[r] = "commit"
          BY <3>1 DEF IInv, TypeOK, OthersKept
    <3> QED BY <3>1, <3>2, CallFrame DEF IInv, CallInv
  <2>2. CASE ~ OwnTx(r, cur[r])
        BY ZenonT(40), <2>2, FinishCall DEF Record
  <2> QED BY <2>1, <2>2
<1>3. LockInv'
  <2>0. pc[r] = "record" /\ op[r] # "plan" /\ UNCHANGED <<intx, alive, lock, op>>
        BY DEF IInv, CallInv, Record, Finish, call
  <2>1. CASE OwnTx(r, cur[r])
    <3>1. pc' = [pc EXCEPT ![r] = "commit"] /\ UNCHANGED cur
          BY Zenon, <2>1 DEF Record, Goto, call
    <3>2. intx[r] => lock.owner = r
          BY DEF IInv, LockInv
    <3>t. UNCHANGED todo
          BY Zenon, <2>1 DEF Record, call
    <3>3. OthersKept(r) /\ pc'[r] = "commit"
          BY <2>0, <3>t, <3>1 DEF IInv, TypeOK, OthersKept
    <3>4. Guarded(r)' = Guarded(r)
          BY Zenon, <2>0, <3>3 DEF Guarded, Advisory
    <3> QED BY <2>0, <2>1, <3>1, <3>2, <3>3, <3>4, LockFrame DEF IInv
  <2>2. CASE ~ OwnTx(r, cur[r])
    <3>1. pc' = [pc EXCEPT ![r] = "next"] /\ cur' = [cur EXCEPT ![r] = 0]
          BY Zenon, <2>2 DEF Record, Finish, Goto
    <3>t. todo' = [todo EXCEPT ![r] = todo[r] \ {cur[r]}]
          BY Zenon, <2>2 DEF Record, Finish
    <3>2. intx[r] => lock.owner = r /\ ~ Advisory
          BY <2>2 DEF IInv, LockInv
    <3>3. OthersKept(r) /\ pc'[r] = "next"
          BY <2>0, <3>t, <3>1 DEF IInv, TypeOK, OthersKept
    <3>4. Guarded(r)' = Guarded(r)
          BY Zenon, <2>0, <3>3 DEF Guarded, Advisory
    <3> QED BY <2>0, <3>2, <3>3, <3>4, LockFrame DEF IInv
  <2> QED BY <2>1, <2>2
<1> QED BY <1>1, <1>2, <1>3 DEF IInv

LEMMA RecordFailsStep == ASSUME IInv, NEW r \in Runners, RecordFails(r) PROVE IInv'
<1>1. db' \in Databases /\ faults' \in 0..MaxFaults
      BY FaultsType DEF IInv, TypeOK, RecordFails
<1> QED BY SMTT(60), <1>1, AbandonStep DEF RecordFails

LEMMA CommitStep == ASSUME IInv, NEW r \in Runners, Commit(r) PROVE IInv'
<1>1. TypeOK'
  <2>1. View(r) \in Databases
        BY ViewType DEF IInv
  <2>2. LocalsOK' /\ runs' \in 0..MaxRuns /\ faults' \in 0..MaxFaults
        BY Zenon, CurType, FinishType DEF IInv, Commit
  <2> QED BY ZenonT(40), <2>1, <2>2, EmptyType DEF IInv, TypeOK, LocalsOK, Commit, CloseTx
<1>2. CallInv'
      BY ZenonT(60), FinishCall DEF Commit
<1>3. LockInv'
  <2>1. OthersKept(r) /\ pc'[r] = "next" /\ ~ intx'[r]
        BY DEF IInv, TypeOK, Commit, CloseTx, Finish, Goto, OthersKept
  <2>2. pc[r] = "commit" /\ UNCHANGED <<alive, lock, op>>
        BY Zenon DEF Commit, Finish
  <2>3. Guarded(r)' = Guarded(r)
        BY Zenon, <2>1, <2>2 DEF Guarded, Advisory
  <2> QED BY <2>1, <2>2, <2>3, LockFrame DEF IInv
<1> QED BY <1>1, <1>2, <1>3 DEF IInv

LEMMA CommitFailsStep == ASSUME IInv, NEW r \in Runners, CommitFails(r) PROVE IInv'
<1>1. db' \in Databases /\ faults' \in 0..MaxFaults
      BY SMTT(60), FaultsType DEF IInv, TypeOK, CommitFails
<1> QED BY SMTT(60), <1>1, AbandonStep DEF CommitFails

LEMMA CommitRunStep == ASSUME IInv, NEW r \in Runners, CommitRun(r) PROVE IInv'
<1>1. TypeOK'
      BY SMTT(60), EmptyType, MigrateAssumption
         DEF IInv, TypeOK, CommitRun, View, CloseTx, Unlocked, Goto, call
<1>a. /\ pc[r] = "commitrun" /\ alive[r] /\ pc' = [pc EXCEPT ![r] = "release"]
      /\ intx' = [intx EXCEPT ![r] = FALSE] /\ lock' = [owner |-> None, count |-> 0]
      /\ UNCHANGED <<alive, op, todo, cur>>
      BY Zenon DEF CommitRun, CloseTx, Unlocked, Goto, call
<1>b. OthersKept(r) /\ pc'[r] = "release" /\ ~ intx'[r]
      BY <1>a DEF IInv, TypeOK, OthersKept
<1>2. CallInv'
      BY <1>a, <1>b, CallFrame DEF IInv, CallInv
<1>3. LockInv'
  <2>1. ~ Advisory /\ op[r] # "plan" /\ lock.owner = r
        BY Zenon, <1>a DEF IInv, CallInv, LockInv, Guarded
  <2>2. \A q \in Runners \ {r} : ~ (alive[q] /\ Guarded(q)) /\ ~ intx[q]
        BY Zenon, <2>1 DEF IInv, LockInv
  <2>3. \A q \in Runners \ {r} : ~ (alive'[q] /\ Guarded(q)') /\ ~ intx'[q]
        BY <1>b, <2>2 DEF OthersKept, Guarded, Advisory
  <2>4. ~ Guarded(r)'
        BY Zenon, <1>b, <2>1 DEF Guarded, Advisory
  <2>5. \A q \in Runners : lock'.owner # q
        BY <1>a, MigrateAssumption
  <2>6. lock'.count = 0
        BY <1>a
  <2> QED BY Zenon, <1>b, <2>3, <2>4, <2>5, <2>6 DEF LockInv
<1> QED BY <1>1, <1>2, <1>3 DEF IInv

LEMMA AnswerLostStep == ASSUME IInv, NEW r \in Runners, AnswerLost(r) PROVE IInv'
<1>1. TypeOK'
  <2>1. db' \in Databases
    <3>1. View(r) \in Databases /\ db \in Databases
          BY ViewType DEF IInv, TypeOK
    <3>2. pc[r] = "exec" => After(r) \in Databases
          BY AfterType
    <3>3. pc[r] = "record" => RecordAfter(r) \in Databases
          BY RecordAfterType
    <3>4. db' \in {After(r), RecordAfter(r), View(r), db}
          BY DEF AnswerLost
    <3> QED BY SMTT(60), <3>1, <3>2, <3>3 DEF AnswerLost
  <2> QED BY <2>1, EmptyType, MigrateAssumption
          DEF IInv, TypeOK, AnswerLost, Fault, SessionEnds, CloseTx, Unlocked, Goto
<1>0. pc' = [pc EXCEPT ![r] = "fail"] /\ UNCHANGED <<op, todo, cur>>
      BY SMTT(60) DEF AnswerLost, Goto
<1>2. CallInv'
      BY <1>0 DEF IInv, TypeOK, CallInv, Advisory
<1>3. LockInv'
      BY <1>0, SessionEndsLock DEF AnswerLost, IInv, TypeOK
<1> QED BY <1>1, <1>2, <1>3 DEF IInv

LEMMA ReleaseStep == ASSUME IInv, NEW r \in Runners, Release(r) PROVE IInv'
<1> DEFINE ok == pc[r] = "release"
<1>0. pc[r] \in {"release", "fail"} /\ done[r] \in SUBSET IDs /\ UNCHANGED runs
      BY DEF IInv, TypeOK, Release
<1>1. CASE Fails(r) /\ SessionEnds(r) /\ Return(r, FALSE, done[r]) /\ UNCHANGED db
      BY Zenon, <1>0, <1>1, FaultsType, SessionEndsReturn DEF IInv
<1>2. CASE /\ Advisory /\ lock.owner = r /\ Return(r, ok, done[r])
           /\ lock' = IF lock.count = 1 THEN Unlocked ELSE [lock EXCEPT !.count = @ - 1]
           /\ UNCHANGED <<db, work, intx, alive, faults>>
  <2>0. /\ lock' = [owner |-> None, count |-> 0] /\ ~ intx[r]
        /\ pc' = [pc EXCEPT ![r] = "idle"] /\ op' = [op EXCEPT ![r] = "plan"]
        /\ cur' = [cur EXCEPT ![r] = 0]
        BY <1>0, <1>2 DEF IInv, LockInv, Unlocked, Return, Goto
  <2>1. TypeOK'
    <3>1. LocalsOK'
          BY Zenon, <1>0, <1>2, ReturnType DEF IInv
    <3>2. lock' \in [owner : Runners \cup {None}, count : Nat]
          BY <2>0
    <3> QED BY <1>0, <1>2, <3>1, <3>2 DEF IInv, TypeOK, LocalsOK
  <2>2. CallInv'
        BY ZenonT(60), <1>0, <1>2, ReturnCall
  <2>3. LockInv'
    <3>1. \A q \in Runners : q # r => ~ (alive[q] /\ Guarded(q)) /\ ~ intx[q]
          BY SMTT(60), <1>2 DEF IInv, LockInv
    <3> QED BY <1>2, <2>0, <3>1, MigrateAssumption DEF IInv, TypeOK, LockInv, Guarded, Advisory
  <2> QED BY <2>1, <2>2, <2>3 DEF IInv
<1>3. CASE ~ Advisory /\ Return(r, ok, done[r]) /\ UNCHANGED <<server, faults>>
  <2>1. TypeOK'
    <3>1. LocalsOK'
          BY Zenon, <1>0, <1>3, ReturnType DEF IInv
    <3> QED BY <1>0, <1>3, <3>1 DEF IInv, TypeOK, LocalsOK, server
  <2>2. CallInv'
        BY Zenon, <1>0, <1>3, ReturnCall
  <2>3. LockInv'
        BY ZenonT(60), <1>0, <1>3, QuietReturn DEF server
  <2> QED BY <2>1, <2>2, <2>3 DEF IInv
<1> QED BY Zenon, <1>0, <1>1, <1>2, <1>3 DEF Release

LEMMA DisconnectStep == ASSUME IInv, NEW r \in Runners, Disconnect(r) PROVE IInv'
<1>1. TypeOK'
      BY FaultsType, SessionEndsType DEF IInv, TypeOK, Disconnect, call
<1>2. CallInv'
      BY ZenonT(60) DEF IInv, CallInv, Disconnect, call, Advisory
<1>3. LockInv'
      BY SessionEndsLock DEF Disconnect, call
<1> QED BY <1>1, <1>2, <1>3 DEF IInv

LEMMA CrashStep == ASSUME IInv, NEW r \in Runners, Crash(r) PROVE IInv'
<1>1. faults' \in 0..MaxFaults
      BY FaultsType DEF IInv, Crash
<1> QED BY Zenon, <1>1, SessionEndsReturn DEF Crash

LEMMA NextIInv == IInv /\ [Next]_vars => IInv'
<1> SUFFICES ASSUME IInv, [Next]_vars PROVE IInv'
    OBVIOUS
<1>1. CASE UNCHANGED vars
      BY Zenon, <1>1 DEF vars, IInv, TypeOK, CallInv, LockInv, Guarded, OwnTx
<1>2. ASSUME NEW r \in Runners, Step(r) PROVE IInv'
  <2>1. CASE Begin(r)
    <3>1. NoAim \in RevertTargets /\ ApplyAims \subseteq ApplyTargets /\ RevertAims \subseteq RevertTargets
          BY EmptyType, MigrateAssumption
    <3> QED BY <2>1, <3>1, StartStep DEF Begin
  <2>2. CASE Acquire(r)
        BY <2>2, AcquireAdvisoryStep, BeginImmediateStep DEF Acquire
  <2>3. CASE AcquireTimesOut(r) \/ AcquireFails(r)
        BY SMTT(60), <2>3, AcquireTimesOutStep, AcquireFailsStep
  <2>4. CASE Proceed(r)
        BY SMTT(60), <2>4,
           EnsureHistoryStep, EnsureFailsStep, SelectStep, ReadFailsStep,
           NextMigrationStep, BeginFailsStep, LoopEndsStep, RecheckStep, ExecStep,
           ExecFailsStep, RecordStep, RecordFailsStep, CommitStep, CommitFailsStep,
           CommitRunStep, AnswerLostStep, ReleaseStep
        DEF Proceed
  <2>5. CASE Disconnect(r) \/ Crash(r)
        BY <2>5, DisconnectStep, CrashStep
  <2> QED BY <1>2, <2>1, <2>2, <2>3, <2>4, <2>5 DEF Step
<1> QED BY <1>1, <1>2 DEF Next

LEMMA Inductive == Spec => []IInv
BY InitIInv, NextIInv, PTL DEF Spec

\* Every variable of the server and of the calls keeps its type, whatever
\* fails: in particular a call never runs past the sources of a migration.
THEOREM TypeCorrect == Spec => []TypeOK
<1>1. IInv => TypeOK
      BY SMTT(60) DEF IInv
<1> QED BY <1>1, Inductive, PTL

\* The lock serialises Apply and Revert on all three engines: two runners
\* whose statements can still reach the server are never both between lock
\* and release, although sessions break, releases fail and processes die.
THEOREM LockIsExclusive == Spec => []MutualExclusion
<1>1. IInv => MutualExclusion
      BY DEF IInv, LockInv, MutualExclusion, Inside, Guarded
<1> QED BY <1>1, Inductive, PTL

\* No pooled session keeps the migration lock or a transaction between calls:
\* every error path of the lock and transaction handling gives both back.
THEOREM IdleHoldsNothing == Spec => []NothingHeldWhenIdle
<1>1. IInv => NothingHeldWhenIdle
      BY DEF IInv, LockInv, NothingHeldWhenIdle, Guarded
<1> QED BY <1>1, Inductive, PTL
=============================================================================
