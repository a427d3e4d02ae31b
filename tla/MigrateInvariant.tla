------------------------- MODULE MigrateInvariant --------------------------
(***************************************************************************)
(* The inductive invariant of Migrate, and lemmas about its operators and  *)
(* about the steps that its actions share.                                 *)
(***************************************************************************)
EXTENDS Migrate, TLAPS

\* The locals of a call: it has selected only migrations that its runner
\* supplies, and is running one of them where the program counter says so.
CallInv ==
    \A r \in Runners :
        /\ \A m \in todo[r] : Sum[r][m] # 0
        /\ pc[r] \in {"recheck", "exec", "record", "commit"} => cur[r] \in todo[r]
        /\ pc[r] \in {"next", "recheck", "exec", "record", "commit", "commitrun"} => op[r] # "plan"
        /\ pc[r] = "lock" => Advisory \/ op[r] # "plan"
        /\ pc[r] = "commitrun" => ~ Advisory

\* Where a call with a usable session relies on the lock: from its acquisition
\* to its release, which on SQLite is the end of the transaction.
Guarded(r) ==
    /\ pc[r] \notin {"idle", "lock"}
    /\ Advisory \/ (op[r] # "plan" /\ pc[r] \notin {"release", "fail"})

\* The lock belongs to the call that relies on it, once, and a transaction is
\* open only under it.
LockInv ==
    /\ lock.owner = None => lock.count = 0
    /\ \A r \in Runners :
        /\ alive[r] /\ Guarded(r) => lock.owner = r
        /\ lock.owner = r => alive[r] /\ Guarded(r) /\ lock.count = 1
        /\ intx[r] => /\ lock.owner = r
                      /\ Advisory => /\ pc[r] \in {"recheck", "exec", "record", "commit"}
                                     /\ OwnTx(r, cur[r])

\* The part of TypeOK that is about the callers' side.
LocalsOK ==
    /\ pc \in [Runners -> {"idle", "lock", "ensure", "read", "next", "recheck", "exec",
                           "record", "commit", "commitrun", "release", "fail"}]
    /\ op \in [Runners -> {"apply", "revert", "plan"}]
    /\ aim \in [Runners -> ApplyTargets \cup RevertTargets]
    /\ seen \in [Runners -> [IDs -> 0..MaxSum]]
    /\ todo \in [Runners -> SUBSET IDs] /\ done \in [Runners -> SUBSET IDs]
    /\ cur \in [Runners -> 0..N] /\ idx \in [Runners -> Srcs]
    /\ result \in [Runners -> [ok : BOOLEAN, ids : SUBSET IDs]]

\* The inductive invariant.
IInv == TypeOK /\ CallInv /\ LockInv
-----------------------------------------------------------------------------
LEMMA InitIInv == Init => IInv
<1> SUFFICES ASSUME Init PROVE IInv
    OBVIOUS
<1>1. TypeOK
      BY NAssumption, MigrateAssumption
         DEF Init, TypeOK, Empty, NoHist, NoAim, Databases, IDs, Srcs, None, ApplyTargets,
             RevertTargets
<1>2. CallInv
      BY DEF Init, CallInv
<1>3. LockInv
      BY MigrateAssumption DEF Init, LockInv, None, Guarded
<1> QED BY <1>1, <1>2, <1>3 DEF IInv

\* The empty database and the empty locals have their types.
LEMMA EmptyType ==
    Empty \in Databases /\ NoHist \in [IDs -> 0..MaxSum] /\ NoAim \in RevertTargets /\ 1 \in Srcs
BY MigrateAssumption DEF Empty, Databases, NoHist, NoAim, RevertTargets, Srcs

\* Return leaves the caller's side in its types.
LEMMA ReturnType ==
    ASSUME TypeOK, NEW r \in Runners, NEW ok \in BOOLEAN, NEW ids \in SUBSET IDs,
           Return(r, ok, ids)
    PROVE  LocalsOK'
BY EmptyType, NAssumption DEF TypeOK, LocalsOK, Return, Goto

\* So does the end of a session on the server's.
LEMMA SessionEndsType ==
    ASSUME TypeOK, NEW r \in Runners, SessionEnds(r)
    PROVE  /\ alive' \in [Runners -> BOOLEAN] /\ intx' \in [Runners -> BOOLEAN]
           /\ work' \in [Runners -> Databases]
           /\ lock' \in [owner : Runners \cup {None}, count : Nat]
BY EmptyType DEF TypeOK, SessionEnds, CloseTx, Unlocked

LEMMA AbandonType ==
    ASSUME TypeOK, NEW r \in Runners, Abandon(r)
    PROVE  /\ alive' \in [Runners -> BOOLEAN] /\ intx' \in [Runners -> BOOLEAN]
           /\ work' \in [Runners -> Databases]
           /\ lock' \in [owner : Runners \cup {None}, count : Nat]
           /\ LocalsOK' /\ runs' \in 0..MaxRuns
<1>1. done' \in [Runners -> SUBSET IDs]
      BY DEF TypeOK, Abandon
<1>2. /\ work' \in [Runners -> Databases] /\ intx' \in [Runners -> BOOLEAN]
      /\ lock' \in [owner : Runners \cup {None}, count : Nat]
      BY EmptyType DEF TypeOK, Abandon, CloseTx, Unlocked
<1> QED BY Zenon, <1>1, <1>2 DEF TypeOK, LocalsOK, Abandon, Goto

LEMMA FaultsType ==
    ASSUME TypeOK, NEW r \in Runners, Fails(r) \/ Fault
    PROVE  faults' \in 0..MaxFaults
BY MigrateAssumption DEF TypeOK, Fails, Fault

\* What r's session sees is a database.
LEMMA ViewType == ASSUME TypeOK, NEW r \in Runners PROVE View(r) \in Databases
BY DEF TypeOK, View

LEMMA WriteType ==
    ASSUME TypeOK, NEW r \in Runners, NEW v \in Databases, Write(r, v)
    PROVE  db' \in Databases /\ work' \in [Runners -> Databases]
BY Zenon DEF TypeOK, Write

\* The migration that a call is running, and the sources supplied for it.
LEMMA CurType ==
    ASSUME IInv, NEW r \in Runners, pc[r] \in {"recheck", "exec", "record", "commit"}
    PROVE  /\ cur[r] \in IDs /\ cur[r] \in todo[r] /\ Sum[r][cur[r]] \in Sums
           /\ File(r).up \in Srcs /\ Steps(r) \in 0..MaxSrc
<1>1. cur[r] \in todo[r] /\ cur[r] \in IDs /\ Sum[r][cur[r]] # 0
      BY DEF IInv, CallInv, TypeOK
<1>2. Sum[r][cur[r]] \in Sums
      BY <1>1, MigrateAssumption DEF Sums
<1>3. File(r).up \in Srcs
      BY <1>1, <1>2, MigrateAssumption DEF File
<1>4. Steps(r) \in 0..MaxSrc
      BY <1>1, <1>3, MigrateAssumption DEF Steps, Srcs
<1> QED BY <1>1, <1>2, <1>3, <1>4

LEMMA DatabaseType ==
    ASSUME NEW d \in Databases, NEW m \in IDs
    PROVE  /\ \A f \in [Srcs -> 0..MaxSum] :
                 [d EXCEPT !.eff = [d.eff EXCEPT ![m] = f]] \in Databases
           /\ \A s \in 0..MaxSum :
                 [d EXCEPT !.hist = [d.hist EXCEPT ![m] = s]] \in Databases
BY Zenon DEF Databases

\* A source and a record leave a database behind.
LEMMA AfterType ==
    ASSUME IInv, NEW r \in Runners, pc[r] = "exec"
    PROVE  After(r) \in Databases
<1> DEFINE m == cur[r]
           e == View(r).eff[m]
           f == IF op[r] = "apply"
                THEN [k \in Srcs |-> IF k = idx[r] /\ e[k] = 0 /\ ~ Malformed(r)
                                    THEN Sum[r][m] ELSE e[k]]
                ELSE [k \in Srcs |-> IF k \in Undone(r, idx[r]) THEN 0 ELSE e[k]]
<1>1. View(r) \in Databases
      BY ViewType DEF IInv
<1>2. m \in IDs /\ Sum[r][m] \in 0..MaxSum
      BY CurType, MigrateAssumption
<1>3. e \in [Srcs -> 0..MaxSum] /\ 0 \in 0..MaxSum
      BY <1>1, <1>2, MigrateAssumption DEF Databases
<1>4. f \in [Srcs -> 0..MaxSum]
      BY <1>2, <1>3
<1>5. After(r) = [View(r) EXCEPT !.eff = [View(r).eff EXCEPT ![m] = f]]
      BY DEF After
<1> QED BY <1>1, <1>2, <1>4, <1>5, DatabaseType

LEMMA RecordAfterType ==
    ASSUME IInv, NEW r \in Runners, pc[r] = "record"
    PROVE  RecordAfter(r) \in Databases
<1> DEFINE s == IF op[r] = "apply" THEN Sum[r][cur[r]] ELSE 0
<1>1. View(r) \in Databases
      BY ViewType DEF IInv
<1>2. cur[r] \in IDs /\ s \in 0..MaxSum
      BY CurType, MigrateAssumption
<1>3. RecordAfter(r) = [View(r) EXCEPT !.hist = [View(r).hist EXCEPT ![cur[r]] = s]]
      BY DEF RecordAfter
<1> QED BY <1>1, <1>2, <1>3, DatabaseType

LEMMA FinishType ==
    ASSUME TypeOK, NEW r \in Runners, NEW mine \in BOOLEAN, cur[r] \in IDs, Finish(r, mine)
    PROVE  LocalsOK' /\ runs' \in 0..MaxRuns /\ faults' \in 0..MaxFaults
<1>1. done' \in [Runners -> SUBSET IDs]
  <2>1. CASE mine
        BY <2>1 DEF TypeOK, Finish
  <2>2. CASE ~ mine
        BY <2>2 DEF TypeOK, Finish
  <2> QED BY <2>1, <2>2
<1>2. todo' \in [Runners -> SUBSET IDs] /\ cur' \in [Runners -> 0..N] /\ idx' \in [Runners -> Srcs]
      BY EmptyType, NAssumption DEF TypeOK, Finish
<1> QED BY <1>1, <1>2 DEF TypeOK, LocalsOK, Finish, Goto

\* A selection that is not refused names migrations that the runner supplies.
LEMMA SelectedSupplied ==
    ASSUME TypeOK, NEW r \in Runners, NEW h \in [IDs -> 0..MaxSum], ~ Refused(r, h)
    PROVE  /\ Selected(r, h) \in SUBSET IDs
           /\ \A m \in Selected(r, h) : Sum[r][m] # 0
<1>1. CASE op[r] = "apply"
      BY <1>1 DEF Selected, selectApplies
<1>2. CASE op[r] = "revert"
      BY <1>2 DEF Selected, selectReverts, Newest, Recorded, Refused, RevertRefused, NotSupplied
<1>3. CASE op[r] = "plan"
      BY <1>3 DEF Selected
<1> QED BY <1>1, <1>2, <1>3 DEF TypeOK

-----------------------------------------------------------------------------
(* What several actions do: give up, lose the session, return, finish. *)

\* Every error path between lock and release.
LEMMA AbandonStep ==
    ASSUME IInv, NEW r \in Runners, Abandon(r), pc[r] \notin {"idle", "lock"},
           db' \in Databases, faults' \in 0..MaxFaults
    PROVE  IInv'
<1>0. /\ pc' = [pc EXCEPT ![r] = "fail"] /\ intx' = [intx EXCEPT ![r] = FALSE]
      /\ lock' = IF ~ Advisory /\ lock.owner = r THEN [owner |-> None, count |-> 0] ELSE lock
      /\ UNCHANGED <<alive, op, todo, cur>>
      BY DEF Abandon, CloseTx, Goto, Unlocked
<1>1. TypeOK'
      BY SMTT(60), AbandonType DEF IInv, TypeOK, LocalsOK
<1>2. CallInv'
      BY <1>0 DEF IInv, TypeOK, CallInv, Advisory
<1>3. LockInv'
  <2>1. CASE Advisory
        BY <1>0, <2>1 DEF IInv, TypeOK, LockInv, Guarded, OwnTx, Advisory
  <2>2. CASE ~ Advisory
    <3>1. lock.owner = r => lock' = [owner |-> None, count |-> 0]
          BY <1>0, <2>2
    <3>2. lock.owner # r => lock' = lock
          BY <1>0
    <3> QED BY <1>0, <2>2, <3>1, <3>2, MigrateAssumption
            DEF IInv, TypeOK, LockInv, Guarded, Advisory
  <2> QED BY SMTT(60), <2>1, <2>2
<1> QED BY <1>1, <1>2, <1>3 DEF IInv

\* The session of r is gone and the others keep what they hold; r's call is
\* where it was, fails or has returned.
LEMMA SessionEndsLock ==
    ASSUME IInv, NEW r \in Runners, SessionEnds(r),
           \A q \in Runners \ {r} : pc'[q] = pc[q] /\ op'[q] = op[q] /\ cur'[q] = cur[q]
    PROVE  LockInv'
<1>0. /\ alive' = [alive EXCEPT ![r] = FALSE] /\ intx' = [intx EXCEPT ![r] = FALSE]
      /\ lock.owner = r => lock' = [owner |-> None, count |-> 0]
      /\ lock.owner # r => lock' = lock
      BY DEF SessionEnds, CloseTx, Unlocked
<1>1. /\ ~ alive'[r] /\ ~ intx'[r] /\ lock'.owner # r
      /\ lock'.owner = None => lock'.count = 0
      BY SMTT(60), <1>0, MigrateAssumption DEF IInv, TypeOK, LockInv
<1>2. ASSUME NEW q \in Runners, q # r
      PROVE  /\ alive'[q] = alive[q] /\ intx'[q] = intx[q] /\ Guarded(q)' = Guarded(q)
             /\ OwnTx(q, cur[q])' = OwnTx(q, cur[q]) /\ pc'[q] = pc[q]
             /\ lock'.owner = q <=> lock.owner = q
             /\ lock.owner = q => lock' = lock
      BY SMTT(60), <1>0, <1>2, MigrateAssumption DEF IInv, TypeOK, Guarded, OwnTx, Advisory
<1> QED BY <1>1, <1>2 DEF IInv, LockInv, Advisory

LEMMA ReturnCall ==
    ASSUME IInv, NEW r \in Runners, NEW ok \in BOOLEAN, NEW ids \in SUBSET IDs,
           Return(r, ok, ids)
    PROVE  CallInv'
BY DEF IInv, TypeOK, CallInv, Return, Goto, Advisory

LEMMA SessionEndsReturn ==
    ASSUME IInv, NEW r \in Runners, NEW ids \in SUBSET IDs, SessionEnds(r),
           Return(r, FALSE, ids), UNCHANGED <<db, runs>>, faults' \in 0..MaxFaults
    PROVE  IInv'
<1>1. TypeOK'
      BY Zenon, ReturnType, SessionEndsType DEF IInv, TypeOK, LocalsOK
<1>2. CallInv'
      BY Zenon, ReturnCall
<1>3. \A q \in Runners \ {r} : pc'[q] = pc[q] /\ op'[q] = op[q] /\ cur'[q] = cur[q]
      BY DEF IInv, TypeOK, Return, Goto
<1>4. LockInv'
      BY SMTT(60), <1>3, SessionEndsLock
<1> QED BY <1>1, <1>2, <1>4 DEF IInv

\* A call may return without a word to the server when it holds nothing: while
\* it waits for the lock, and at the end of one on SQLite.
LEMMA QuietReturn ==
    ASSUME IInv, NEW r \in Runners, NEW ok \in BOOLEAN, NEW ids \in SUBSET IDs,
           Return(r, ok, ids), UNCHANGED <<intx, alive, lock>>,
           pc[r] = "lock" \/ (~ Advisory /\ pc[r] \in {"release", "fail"})
    PROVE  LockInv'
<1>1. /\ pc' = [pc EXCEPT ![r] = "idle"] /\ op' = [op EXCEPT ![r] = "plan"]
      /\ cur' = [cur EXCEPT ![r] = 0]
      BY DEF Return, Goto
<1>2. lock.owner # r /\ ~ intx[r]
      BY SMTT(60) DEF IInv, LockInv, Guarded
<1> QED BY <1>1, <1>2 DEF IInv, TypeOK, LockInv, Guarded, OwnTx, Advisory

\* A migration leaves the selection, and the loop goes on.
LEMMA FinishCall ==
    ASSUME IInv, NEW r \in Runners, NEW mine \in BOOLEAN,
           pc[r] \in {"recheck", "exec", "record", "commit"}, Finish(r, mine)
    PROVE  CallInv'
<1>1. /\ todo' = [todo EXCEPT ![r] = todo[r] \ {cur[r]}]
      /\ pc' = [pc EXCEPT ![r] = "next"] /\ cur' = [cur EXCEPT ![r] = 0] /\ UNCHANGED op
      BY DEF IInv, TypeOK, Finish, Goto
<1> QED BY <1>1 DEF IInv, TypeOK, CallInv, Advisory

\* A step of r leaves the other calls and their sessions alone ...
OthersKept(r) ==
    \A q \in Runners \ {r} :
        /\ pc'[q] = pc[q] /\ op'[q] = op[q] /\ todo'[q] = todo[q] /\ cur'[q] = cur[q]
        /\ intx'[q] = intx[q] /\ alive'[q] = alive[q]

\* ... so that only what CallInv says of r has to be shown again ...
LEMMA CallFrame ==
    ASSUME CallInv, NEW r \in Runners, OthersKept(r),
           \A m \in todo'[r] : Sum[r][m] # 0,
           pc'[r] \in {"recheck", "exec", "record", "commit"} => cur'[r] \in todo'[r],
           pc'[r] \in {"next", "recheck", "exec", "record", "commit", "commitrun"}
              => op'[r] # "plan",
           pc'[r] = "lock" => Advisory \/ op'[r] # "plan",
           pc'[r] = "commitrun" => ~ Advisory
    PROVE  CallInv'
BY SMTT(60) DEF CallInv, OthersKept, Advisory

\* ... and of LockInv, if the lock stays where it is.
LEMMA LockFrame ==
    ASSUME LockInv, NEW r \in Runners, OthersKept(r), lock' = lock,
           alive'[r] = alive[r], Guarded(r)' = Guarded(r),
           intx'[r] => /\ lock.owner = r
                       /\ Advisory => /\ pc'[r] \in {"recheck", "exec", "record", "commit"}
                                      /\ OwnTx(r, cur'[r])
    PROVE  LockInv'
<1>1. ASSUME NEW q \in Runners, q # r
      PROVE  /\ Guarded(q)' = Guarded(q) /\ OwnTx(q, cur[q])' = OwnTx(q, cur[q])
             /\ pc'[q] = pc[q] /\ alive'[q] = alive[q] /\ intx'[q] = intx[q]
      BY <1>1 DEF OthersKept, Guarded, OwnTx, Advisory
<1>2. OwnTx(r, cur[r])' = OwnTx(r, cur'[r])
      BY Zenon DEF OwnTx, Advisory
<1> QED BY SMTT(60), <1>1, <1>2 DEF LockInv, Advisory
=============================================================================
