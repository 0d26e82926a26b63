--------------------------- MODULE UserRoleProofs ---------------------------
(****************************************************************************)
(* Merges and rollbacks among assignments, for every set of users and roles *)
(* and any number of requests: types, truthful answers, no partial writes,  *)
(* and what an undisturbed merge or rollback leaves.                        *)
(****************************************************************************)
EXTENDS UserRole, JoinTableProofs

Restoring(m) == mig[m].phase \in {"restore", "reinsert"}

\* What a migration nobody disturbed has read is still so when it writes.  The
\* exactness of its commit follows from this and not from any earlier state.
ReadsAreCurrent(m) ==
  undisturbed[m] =>
    /\ mig[m].phase \in {"readTarget", "transfer"}
         => mig[m].sourceIds = ItemsOf(mig[m].source)
    /\ mig[m].phase \in {"transfer", "restore", "reinsert"}
         => mig[m].targetIds = ItemsOf(mig[m].target)
    /\ mig[m].phase = "reinsert" /\ ApartUsers(m)
         => mig[m].sourceIds = ItemsOf(mig[m].source)

MigInv == \A m \in Migrators : mig[m] # Idle => ReadsAreCurrent(m)

\* The open transactions of rollbacks hold what they have deleted, and no other
\* rollback and no replacement holds any of it.
MigLockInv ==
  /\ \A m \in Migrators : LockedBy(mig[m]) \subseteq locked
  /\ \A m, n \in Migrators : m # n => LockedBy(mig[m]) \cap LockedBy(mig[n]) = {}
  /\ \A m \in Migrators, w \in Workers : LockedBy(mig[m]) \cap RangeOf(req[w]) = {}

Inv == TypeOK /\ TableInv /\ MigInv /\ MigLockInv

-----------------------------------------------------------------------------

LEMMA MigratingIsMigration ==
  ASSUME TypeOK, NEW m \in Migrators, Migrating(m)
  PROVE  mig[m] \in Migration /\ mig[m] # Idle
BY DEF TypeOK, Migrating, Idle

LEMMA ActiveMigrates ==
  ASSUME NEW m \in Migrators,
         \/ ReadSource(m) \/ ReadTarget(m) \/ Transfer(m) \/ ReadCurrent(m)
         \/ Restore(m) \/ Reinsert(m) \/ MigrationFails(m)
  PROVE  Migrating(m)
BY DEF ReadSource, ReadTarget, Transfer, ReadCurrent, Restore, Reinsert, MigrationFails,
       MigAt, Migrating

LEMMA FinishIsMigration ==
  ASSUME TypeOK, NEW m \in Migrators, Migrating(m),
         NEW reply \in {"ok", "error"}, Finish(m, reply)
  PROVE  /\ mig' \in [Migrators -> Migration \cup {Idle}]
         /\ mig'[m].phase = "done" /\ mig'[m].reply = reply
         /\ \A n \in Migrators : n # m => mig'[n] = mig[n]
<1>1. mig[m] \in Migration
  BY MigratingIsMigration
<1> DEFINE r == [mig[m] EXCEPT !.phase = "done", !.reply = reply]
<1>2. r \in Migration /\ r.phase = "done" /\ r.reply = reply
  BY <1>1 DEF Migration, MigPhases
<1>3. mig' = [mig EXCEPT ![m] = r]
  BY DEF Finish, TypeOK
<1>4. QED
  BY <1>2, <1>3 DEF TypeOK

\* A migration ends, or takes a step without a transaction: what it held is free again,
\* and what others hold they still hold.
LEMMA UnlockKeepsLocks ==
  ASSUME Inv, NEW m \in Migrators, mig'[m].phase # "reinsert",
         \A n \in Migrators : n # m => mig'[n] = mig[n],
         UNCHANGED req, Unlock(m), \A w \in Workers : Spares(w)
  PROVE  LockInv' /\ MigLockInv'
<1>1. LockedBy(mig'[m]) = {} /\ locked' = locked \ LockedBy(mig[m])
  BY DEF LockedBy, Unlock
<1>2. ASSUME NEW w \in Workers
      PROVE  RangeIsHeld(w)'
  <2>1. RangeOf(req[w]) \subseteq locked'
    BY <1>1 DEF Inv, MigLockInv, TableInv, LockInv, RangeIsHeld
  <2>2. At(w, "refill") => req[w].old = ItemsIn(rows', req[w].owner)
    BY SparedRowsStay DEF Inv, TableInv, LockInv, RangeIsHeld
  <2>3. QED
    BY <2>1, <2>2 DEF RangeIsHeld, At, ItemsOf
<1>3. LockInv'
  BY <1>2 DEF LockInv, Inv, TableInv
<1>4. MigLockInv'
  BY <1>1 DEF MigLockInv, Inv
<1>5. QED
  BY <1>3, <1>4

\* A migration outside its transaction holds no key.
LEMMA HoldsNoKey ==
  ASSUME NEW m \in Migrators, mig[m].phase # "reinsert"
  PROVE  locked = locked \ LockedBy(mig[m])
BY DEF LockedBy

\* Steps that observe the table without moving any assignment request.
LEMMA ObservedWriteKeepsTableInv ==
  ASSUME TableInv, Observe, UNCHANGED req, rows' \subseteq Keys, locked' \subseteq Keys,
         LockInv'
  PROVE  TableInv'
<1>1. \A w \in Workers : WorkerInv(w)' /\ AnswerTrue(w)'
  BY OthersKeep
<1>2. TableTypeOK'
  BY ObserveIsFunction DEF TableInv, TableTypeOK
<1>3. QED
  BY <1>1, <1>2, AnswersPerWorker DEF TableInv, AnswersAreTrue, AnswerTrue,
     GrantsWereTrue, RevocationsWereTrue, ReplacementsWereExact, Truthful, Asked

LEMMA LockingKeepsTableInv ==
  ASSUME TableInv, UNCHANGED <<rows, req, seen>>, locked' \subseteq Keys, LockInv'
  PROVE  TableInv'
BY DEF TableInv, TableTypeOK, WorkerInv, PhaseFits, DroppedWereHeld, SeesNow,
       Running, ItemsOf, ItemsIn, AnswersAreTrue, GrantsWereTrue, RevocationsWereTrue,
       ReplacementsWereExact, Asked

\* A migration that does not move and is watched keeps what it has read: either
\* its users' rows are as they were, or it is no longer undisturbed.
LEMMA WatchKeepsReads ==
  ASSUME MigInv, NEW m \in Migrators, mig'[m] = mig[m],
         undisturbed'[m] => undisturbed[m] /\ SameRows(m),
         mig[m] # Idle, mig[m] \in Migration
  PROVE  ReadsAreCurrent(m)'
<1> SUFFICES ASSUME undisturbed'[m]
             PROVE  ReadsAreCurrent(m)'
  BY DEF ReadsAreCurrent
<1>1. /\ ReadsAreCurrent(m)
      /\ ItemsIn(rows', mig[m].source) = ItemsOf(mig[m].source)
      /\ ItemsIn(rows', mig[m].target) = ItemsOf(mig[m].target)
  BY DEF MigInv, SameRows
<1>2. QED
  BY <1>1 DEF ReadsAreCurrent, ItemsOf, ApartUsers

LEMMA WatchTyped ==
  ASSUME TypeOK, NEW except, Watch(except)
  PROVE  /\ undisturbed' \in [Migrators -> BOOLEAN]
         /\ \A m \in Migrators : undisturbed'[m] => undisturbed[m] /\ SameRows(m) /\ m \notin except
BY DEF Watch, TypeOK

\* The migrations beside m keep their part, so a step of m is left with its own.
LEMMA MigrationStepKeepsInv ==
  ASSUME Inv, NEW m \in Migrators, TypeOK', TableInv', MigLockInv', ReadsAreCurrent(m)',
         \A n \in Migrators : n # m => mig'[n] = mig[n],
         \A n \in Migrators : n # m /\ undisturbed'[n] => undisturbed[n] /\ SameRows(n)
  PROVE  Inv'
<1>1. \A n \in Migrators : mig'[n] # Idle => ReadsAreCurrent(n)'
  <2> SUFFICES ASSUME NEW n \in Migrators, n # m, mig[n] # Idle
               PROVE  ReadsAreCurrent(n)'
    OBVIOUS
  <2>1. mig[n] \in Migration
    BY DEF Inv, TypeOK
  <2>2. QED
    BY <2>1, WatchKeepsReads DEF Inv
<1>2. QED
  BY <1>1 DEF Inv, MigInv

LEMMA UnchangedRowsAreSame ==
  ASSUME NEW m \in Migrators, UNCHANGED rows
  PROVE  SameRows(m)
BY DEF SameRows, ItemsOf, ItemsIn

\* A read, a refusal or an arrival: the table is untouched, m's new record is r.
LEMMA QuietStepKeepsInv ==
  ASSUME Inv, NEW m \in Migrators, UNCHANGED tableVars,
         NEW r \in Migration, r.phase # "reinsert", mig' = [mig EXCEPT ![m] = r],
         mig[m].phase # "reinsert", original' \in [MergePairs -> SUBSET Items], UNCHANGED given,
         undisturbed' \in [Migrators -> BOOLEAN],
         \A n \in Migrators : n # m => undisturbed'[n] = undisturbed[n],
         ReadsAreCurrent(m)'
  PROVE  Inv'
<1>1. TableInv'
  BY StutterKeepsInv DEF Inv
<1>2. TypeOK'
  BY <1>1 DEF Inv, TypeOK, TableInv
<1>3. \A n \in Migrators : n # m => mig'[n] = mig[n]
  BY DEF Inv, TypeOK
<1>4. \A n \in Migrators : SameRows(n)
  BY UnchangedRowsAreSame DEF tableVars
<1>5. mig'[m] = r
  BY DEF Inv, TypeOK
<1>6. MigLockInv'
  BY <1>3, <1>5, HoldsNoKey, UnlockKeepsLocks, UnwrittenIsSpared DEF tableVars, Unlock
<1>7. QED
  BY <1>1, <1>2, <1>3, <1>4, <1>6, MigrationStepKeepsInv

LEMMA ArriveMergeKeepsInv ==
  ASSUME Inv, NEW m \in Migrators, NEW p \in MergePairs, ArriveMerge(m, p)
  PROVE  Inv'
<1> DEFINE r == [source |-> p[1], target |-> p[2], ids |-> {}, sourceIds |-> {},
                 targetIds |-> {}, phase |-> "readSource", reply |-> "none"]
<1>1. p[1] \in Owners /\ p[2] \in Owners
  BY MergePairsAssumption
<1>2. r \in Migration
  BY <1>1 DEF Migration, MigPhases
<1>3. mig' = [mig EXCEPT ![m] = r] /\ mig'[m] = r
  BY DEF ArriveMerge, Inv, TypeOK
<1>4. original' \in [MergePairs -> SUBSET Items]
  BY DEF ArriveMerge, Inv, TypeOK, ItemsOf, ItemsIn
<1>5. /\ undisturbed' \in [Migrators -> BOOLEAN]
      /\ \A n \in Migrators : n # m => undisturbed'[n] = undisturbed[n]
  BY DEF ArriveMerge, Inv, TypeOK
<1>6. ReadsAreCurrent(m)'
  BY <1>3 DEF ReadsAreCurrent
<1>7. mig[m].phase # "reinsert"
  BY DEF ArriveMerge, Migrating
<1>8. QED
  BY <1>2, <1>3, <1>4, <1>5, <1>6, <1>7, QuietStepKeepsInv DEF ArriveMerge

LEMMA ArriveRollbackKeepsInv ==
  ASSUME Inv, NEW m \in Migrators, NEW p \in MergePairs, ArriveRollback(m, p)
  PROVE  Inv'
<1> DEFINE r == [source |-> p[1], target |-> p[2], ids |-> original[p], sourceIds |-> {},
                 targetIds |-> {}, phase |-> "readCurrent", reply |-> "none"]
<1>1. p[1] \in Owners /\ p[2] \in Owners
  BY MergePairsAssumption
<1>2. r \in Migration
  BY <1>1 DEF Migration, MigPhases, Inv, TypeOK
<1>3. mig' = [mig EXCEPT ![m] = r] /\ mig'[m] = r
  BY DEF ArriveRollback, Inv, TypeOK
<1>4. /\ original' \in [MergePairs -> SUBSET Items]
      /\ undisturbed' \in [Migrators -> BOOLEAN]
      /\ \A n \in Migrators : n # m => undisturbed'[n] = undisturbed[n]
  BY DEF ArriveRollback, Inv, TypeOK
<1>5. ReadsAreCurrent(m)'
  BY <1>3 DEF ReadsAreCurrent
<1>6. mig[m].phase # "reinsert"
  BY DEF ArriveRollback, Migrating
<1>7. QED
  BY <1>2, <1>3, <1>4, <1>5, <1>6, QuietStepKeepsInv DEF ArriveRollback

LEMMA ReadStepKeepsInv ==
  ASSUME Inv, NEW m \in Migrators, ReadSource(m) \/ ReadTarget(m) \/ ReadCurrent(m)
  PROVE  Inv'
<1>1. mig[m] \in Migration /\ mig[m] # Idle /\ ReadsAreCurrent(m)
  BY ActiveMigrates, MigratingIsMigration DEF Inv, MigInv
<1>2. /\ UNCHANGED <<tableVars, original, given, undisturbed>>
      /\ undisturbed \in [Migrators -> BOOLEAN]
      /\ original \in [MergePairs -> SUBSET Items]
  BY DEF ReadSource, ReadTarget, ReadCurrent, Inv, TypeOK
<1>3. /\ ItemsOf(mig[m].source) \in SUBSET Items /\ ItemsOf(mig[m].target) \in SUBSET Items
      /\ mig[m].phase # "reinsert"
  BY DEF ItemsOf, ItemsIn, ReadSource, ReadTarget, ReadCurrent, MigAt
<1>4. CASE Finish(m, "ok")
  <2> DEFINE r == [mig[m] EXCEPT !.phase = "done", !.reply = "ok"]
  <2>1. r \in Migration /\ r.phase = "done"
    BY <1>1 DEF Migration, MigPhases
  <2>2. mig' = [mig EXCEPT ![m] = r] /\ mig'[m] = r
    BY <1>4 DEF Finish, Inv, TypeOK
  <2>3. ReadsAreCurrent(m)'
    BY <2>1, <2>2 DEF ReadsAreCurrent
  <2>4. QED
    BY <1>2, <1>3, <2>1, <2>2, <2>3, QuietStepKeepsInv
<1>5. CASE ReadSource(m) /\ ~Finish(m, "ok")
  <2> DEFINE r == [mig[m] EXCEPT !.phase = "readTarget", !.sourceIds = ItemsOf(mig[m].source)]
  <2>1. /\ r \in Migration /\ r.phase = "readTarget"
        /\ r.source = mig[m].source /\ r.sourceIds = ItemsOf(r.source)
    BY <1>1, <1>3 DEF Migration, MigPhases
  <2>2. mig' = [mig EXCEPT ![m] = r] /\ mig'[m] = r
    BY <1>5 DEF ReadSource, Inv, TypeOK
  <2>3. ReadsAreCurrent(m)'
    BY <1>2, <2>1, <2>2 DEF ReadsAreCurrent, ItemsOf, tableVars
  <2>4. QED
    BY <1>2, <1>3, <2>1, <2>2, <2>3, QuietStepKeepsInv
<1>6. CASE ReadTarget(m)
  <2> DEFINE r == [mig[m] EXCEPT !.phase = "transfer", !.targetIds = ItemsOf(mig[m].target)]
  <2>1. /\ r \in Migration /\ r.phase = "transfer" /\ r.source = mig[m].source
        /\ r.target = mig[m].target /\ r.targetIds = ItemsOf(r.target)
        /\ r.sourceIds = mig[m].sourceIds /\ mig[m].phase = "readTarget"
    BY <1>1, <1>3, <1>6 DEF Migration, MigPhases, ReadTarget, MigAt
  <2>2. mig' = [mig EXCEPT ![m] = r] /\ mig'[m] = r
    BY <1>6 DEF ReadTarget, Inv, TypeOK
  <2>3. ReadsAreCurrent(m)'
    BY <1>1, <1>2, <2>1, <2>2 DEF ReadsAreCurrent, ItemsOf, tableVars
  <2>4. QED
    BY <1>2, <1>3, <2>1, <2>2, <2>3, QuietStepKeepsInv
<1>7. CASE ReadCurrent(m) /\ ~Finish(m, "ok")
  <2> DEFINE r == [mig[m] EXCEPT !.phase = "restore", !.targetIds = ItemsOf(mig[m].target)]
  <2>1. /\ r \in Migration /\ r.phase = "restore" /\ r.source = mig[m].source
        /\ r.target = mig[m].target /\ r.targetIds = ItemsOf(r.target)
    BY <1>1, <1>3 DEF Migration, MigPhases
  <2>2. mig' = [mig EXCEPT ![m] = r] /\ mig'[m] = r
    BY <1>7 DEF ReadCurrent, Inv, TypeOK
  <2>3. ReadsAreCurrent(m)'
    BY <1>2, <2>1, <2>2 DEF ReadsAreCurrent, ItemsOf, tableVars
  <2>4. QED
    BY <1>2, <1>3, <2>1, <2>2, <2>3, QuietStepKeepsInv
<1>8. QED
  BY <1>4, <1>5, <1>6, <1>7

\* Steps that end a migration: whatever they wrote, its reads no longer matter.
LEMMA FinishKeepsInv ==
  ASSUME Inv, NEW m \in Migrators, Migrating(m),
         NEW reply \in {"ok", "error"}, Finish(m, reply),
         rows' \subseteq Keys, Unlock(m), \A w \in Workers : Spares(w),
         UNCHANGED <<req, original>>, given' \in [MergePairs -> SUBSET Items],
         \/ Observe /\ Watch({m})
         \/ UNCHANGED <<rows, seen, undisturbed>>
  PROVE  Inv'
<1>1. /\ mig' \in [Migrators -> Migration \cup {Idle}] /\ mig'[m].phase = "done"
      /\ \A n \in Migrators : n # m => mig'[n] = mig[n]
  BY FinishIsMigration DEF Inv
<1>2. TableInv' /\ MigLockInv'
  <2>1. LockInv' /\ MigLockInv'
    BY <1>1, UnlockKeepsLocks
  <2>2. locked' \subseteq Keys
    BY DEF Unlock, Inv, TypeOK, TableTypeOK
  <2>3. CASE Observe /\ Watch({m})
    BY <2>1, <2>2, <2>3, ObservedWriteKeepsTableInv DEF Inv
  <2>4. CASE UNCHANGED <<rows, seen, undisturbed>>
    BY <2>1, <2>2, <2>4, LockingKeepsTableInv DEF Inv
  <2>5. QED
    BY <2>1, <2>3, <2>4
<1>3. /\ undisturbed' \in [Migrators -> BOOLEAN]
      /\ \A n \in Migrators : n # m /\ undisturbed'[n] => undisturbed[n] /\ SameRows(n)
  BY WatchTyped, UnchangedRowsAreSame DEF Inv, TypeOK
<1>4. TypeOK'
  BY <1>1, <1>2, <1>3 DEF Inv, TypeOK, TableInv
<1>5. ReadsAreCurrent(m)'
  BY <1>1 DEF ReadsAreCurrent
<1>6. QED
  BY <1>1, <1>2, <1>3, <1>4, <1>5, MigrationStepKeepsInv

LEMMA TransferKeepsInv ==
  ASSUME Inv, NEW m \in Migrators, Transfer(m)
  PROVE  Inv'
<1> DEFINE s == mig[m].source
           t == mig[m].target
           moved == UniqueIds(m) \cap ItemsOf(s)
<1>1. Migrating(m) /\ mig[m] \in Migration
  BY ActiveMigrates, MigratingIsMigration DEF Inv
<1>2. /\ UNCHANGED <<req, original>> /\ Unlock(m) /\ Observe /\ Watch({m})
      /\ rows \subseteq Keys /\ given \in [MergePairs -> SUBSET Items]
  BY HoldsNoKey DEF Transfer, MigAt, Unlock, Inv, TypeOK, TableTypeOK
<1>3. CASE Finish(m, "error") /\ UNCHANGED <<rows, given>>
  BY <1>1, <1>2, <1>3, FinishKeepsInv, UnwrittenIsSpared
<1>4. CASE /\ rows' = (rows \ Row(s, moved \cup DuplicateIds(m))) \cup Row(t, moved)
           /\ given' = [given EXCEPT ![<<s, t>>] = @ \cup moved]
           /\ FinishCommitted(m)
  <2>1. moved \subseteq Items
    BY DEF ItemsOf, ItemsIn
  <2>2. rows' \subseteq Keys
    BY <1>1, <1>2, <1>4, <2>1 DEF Row, Keys, Migration
  <2>3. given' \in [MergePairs -> SUBSET Items]
    BY <1>2, <1>4, <2>1
  <2>4. \A w \in Workers : Spares(w)
    <3> DEFINE keys == Row(s, mig[m].sourceIds) \cup Row(t, moved)
    <3>1. Touched \subseteq keys
      BY <1>4 DEF Touched, Row, UniqueIds, DuplicateIds
    <3>2. Free(keys)
      BY DEF Transfer
    <3> HIDE DEF keys
    <3>3. QED
      BY <3>1, <3>2, FreeKeysSpare DEF Inv, TableInv
  <2>5. QED
    BY <1>1, <1>2, <1>4, <2>2, <2>3, <2>4, FinishKeepsInv DEF FinishCommitted
<1>5. QED
  BY <1>3, <1>4 DEF Transfer

LEMMA MigrationFailsKeepsInv ==
  ASSUME Inv, NEW m \in Migrators, MigrationFails(m)
  PROVE  Inv'
<1>1. /\ Migrating(m) /\ Finish(m, "error") /\ Unlock(m)
      /\ rows' \subseteq Keys /\ given' \in [MergePairs -> SUBSET Items]
      /\ \A w \in Workers : Spares(w)
  BY UnwrittenIsSpared DEF MigrationFails, Inv, TypeOK, TableTypeOK
<1>2. QED
  BY <1>1, FinishKeepsInv DEF MigrationFails

LEMMA ReinsertKeepsInv ==
  ASSUME Inv, NEW m \in Migrators, Reinsert(m)
  PROVE  Inv'
<1> DEFINE s == mig[m].source
           t == mig[m].target
           kept == rows \ Row(t, RolesToRestore(m))
           absent == RolesToRestore(m) \ mig[m].sourceIds
<1>1. Migrating(m) /\ mig[m] \in Migration
  BY ActiveMigrates, MigratingIsMigration DEF Inv
<1>2. /\ UNCHANGED <<req, original>> /\ Observe /\ Watch({m}) /\ Unlock(m)
      /\ rows \subseteq Keys /\ given \in [MergePairs -> SUBSET Items]
  BY DEF Reinsert, Inv, TypeOK, TableTypeOK
<1>3. CASE Finish(m, "error") /\ UNCHANGED <<rows, given>>
  BY <1>1, <1>2, <1>3, FinishKeepsInv, UnwrittenIsSpared
<1>4. CASE /\ rows' = kept \cup Row(s, absent)
           /\ given' = [given EXCEPT ![<<s, t>>] = @ \ RolesToRestore(m)]
           /\ FinishCommitted(m)
  <2>1. ASSUME NEW w \in Workers
        PROVE  Spares(w)
    <3>1. Touched \subseteq LockedBy(mig[m]) \cup Row(s, absent)
      BY <1>4 DEF Touched, LockedBy, Reinsert, MigAt, RolesToRestore
    <3>2. LockedBy(mig[m]) \cap RangeOf(req[w]) = {}
      BY DEF Inv, MigLockInv
    <3>3. Row(s, absent) \cap RangeOf(req[w]) = {}
      <4>1. RangeOf(req[w]) \subseteq locked \ LockedBy(mig[m])
        BY <3>2 DEF Inv, TableInv, LockInv, RangeIsHeld
      <4>2. QED
        BY <4>1 DEF Reinsert, FreeFor
    <3>4. QED
      BY <3>1, <3>2, <3>3 DEF Spares
  <2>2. rows' \subseteq Keys
    BY <1>1, <1>2, <1>4 DEF Row, Keys, Migration, RolesToRestore
  <2>3. given' \in [MergePairs -> SUBSET Items]
    BY <1>2, <1>4
  <2>4. QED
    BY <1>1, <1>2, <1>4, <2>1, <2>2, <2>3, FinishKeepsInv DEF FinishCommitted
<1>5. QED
  BY <1>3, <1>4 DEF Reinsert

LEMMA RestoreKeepsInv ==
  ASSUME Inv, NEW m \in Migrators, Restore(m)
  PROVE  Inv'
<1> DEFINE s == mig[m].source
           t == mig[m].target
           deleted == Row(t, RolesToRestore(m))
           found == ItemsIn(rows \ deleted, s)
           r == [mig[m] EXCEPT !.phase = "reinsert", !.sourceIds = found]
<1>1. mig[m] \in Migration /\ mig[m] # Idle /\ ReadsAreCurrent(m)
  BY ActiveMigrates, MigratingIsMigration DEF Inv, MigInv
<1>2. /\ r \in Migration /\ r.phase = "reinsert" /\ r.source = s /\ r.target = t
      /\ r.sourceIds = found /\ r.targetIds = mig[m].targetIds
  BY <1>1 DEF Migration, MigPhases, ItemsIn
<1>3. mig' = [mig EXCEPT ![m] = r] /\ mig'[m] = r
  BY DEF Restore, Inv, TypeOK
<1>4. mig' \in [Migrators -> Migration \cup {Idle}]
  BY <1>2, <1>3 DEF Inv, TypeOK
<1>5. TableInv' /\ MigLockInv'
  <2>1. /\ LockedBy(r) = deleted /\ mig'[m] = r /\ Free(deleted)
        /\ locked' = locked \cup deleted /\ UNCHANGED <<rows, req, seen>>
    BY <1>2, <1>3 DEF LockedBy, RolesToRestore, Restore
  <2>2. \A n \in Migrators : n # m => mig'[n] = mig[n]
    BY <1>3 DEF Inv, TypeOK
  <2> HIDE DEF r, deleted
  <2>3. /\ \A n \in Migrators : LockedBy(mig[n]) \cap deleted = {}
        /\ \A w \in Workers : RangeOf(req[w]) \cap deleted = {}
    BY <2>1 DEF Free, Inv, MigLockInv, TableInv, LockInv, RangeIsHeld
  <2>4. MigLockInv'
    BY <2>1, <2>2, <2>3 DEF Inv, MigLockInv
  <2>5. LockInv'
    BY <2>1 DEF Inv, TableInv, LockInv, RangeIsHeld, At, ItemsOf, ItemsIn
  <2>6. deleted \subseteq Keys
    BY <1>1 DEF deleted, Row, Keys, RolesToRestore, Migration
  <2>7. locked' \subseteq Keys
    BY <2>1, <2>6 DEF Inv, TypeOK, TableTypeOK
  <2>8. QED
    BY <2>1, <2>4, <2>5, <2>7, LockingKeepsTableInv DEF Inv
<1>6. TypeOK'
  BY <1>4, <1>5 DEF Restore, Inv, TypeOK, TableInv
<1>7. ReadsAreCurrent(m)'
  <2> SUFFICES ASSUME undisturbed[m]
               PROVE  ReadsAreCurrent(m)'
    BY DEF ReadsAreCurrent, Restore
  <2>1. r.targetIds = ItemsOf(t)
    BY <1>1, <1>2 DEF ReadsAreCurrent, Restore, MigAt
  <2>2. s # t => found = ItemsOf(s)
    BY DEF ItemsIn, ItemsOf, Row
  <2>3. QED
    BY <1>2, <1>3, <2>1, <2>2 DEF ReadsAreCurrent, ApartUsers, ItemsOf, Restore
<1>8. \A n \in Migrators : n # m => mig'[n] = mig[n]
  BY <1>3 DEF Inv, TypeOK
<1>9. \A n \in Migrators : undisturbed'[n] => undisturbed[n] /\ SameRows(n)
  BY UnchangedRowsAreSame DEF Restore
<1>10. QED
  BY <1>5, <1>6, <1>7, <1>8, <1>9, MigrationStepKeepsInv

LEMMA AssignmentKeepsInv ==
  ASSUME Inv, NEW w \in Workers, Assignment(w)
  PROVE  Inv'
<1>1. TableInv'
  BY ArriveKeepsInv, StepPreservesInv DEF Assignment, Inv
<1>2. /\ undisturbed' \in [Migrators -> BOOLEAN]
      /\ \A n \in Migrators : undisturbed'[n] => undisturbed[n] /\ SameRows(n)
  BY WatchTyped DEF Assignment, Inv
<1>3. TypeOK'
  BY <1>1, <1>2 DEF Assignment, Inv, TypeOK, TableInv
<1>4. MigInv'
  <2> SUFFICES ASSUME NEW n \in Migrators, mig[n] # Idle
               PROVE  ReadsAreCurrent(n)'
    BY DEF MigInv, Assignment
  <2>1. mig[n] \in Migration /\ mig'[n] = mig[n]
    BY DEF Inv, TypeOK, Assignment
  <2>2. QED
    BY <1>2, <2>1, WatchKeepsReads DEF Inv
<1>5. MigLockInv'
  <2>1. /\ UNCHANGED mig /\ TableInv
        /\ \A v \in Workers : v # w => RangeOf(req'[v]) = RangeOf(req[v])
    <3>1. \A v \in Workers : v # w => req'[v] = req[v]
      BY StepMoves DEF Assignment, Arrive, Inv, TypeOK, TableTypeOK
    <3>2. QED
      BY <3>1 DEF Assignment, Inv
  <2>2. CASE locked' = locked \ RangeOf(req[w]) /\ RangeOf(req'[w]) = {}
    BY <2>1, <2>2 DEF Inv, MigLockInv
  <2>3. CASE ReplaceDelete(w)
    <3> DEFINE range == Row(req[w].owner, Items)
    <3>1. Free(range) /\ locked' = locked \cup range
      BY <2>3 DEF ReplaceDelete
    <3>2. RangeOf(req'[w]) \subseteq range
      <4>1. req[w] \in Request /\ req \in [Workers -> Request \cup {Idle}]
        BY <2>1, <2>3, StepMoves DEF Step, TableInv, TableTypeOK
      <4>2. req'[w].owner = req[w].owner
        BY <2>3, <4>1 DEF ReplaceDelete, Request
      <4>3. QED
        BY <4>2 DEF RangeOf
    <3>3. \A m \in Migrators : LockedBy(mig[m]) \cap range = {}
      BY <3>1 DEF Free, Inv, MigLockInv
    <3> HIDE DEF range
    <3>4. QED
      BY <2>1, <3>1, <3>2, <3>3 DEF Inv, MigLockInv
  <2>4. CASE \E op \in Ops, o \in Owners, S \in SUBSET Items : Arrive(w, op, o, S)
    <3>1. locked' = locked /\ RangeOf(req[w]) = {}
      BY <2>4 DEF Arrive, Running, RangeOf
    <3>2. RangeOf(req'[w]) = {}
      BY <2>1, <2>4 DEF Arrive, FirstPhase, Ops, RangeOf, TableInv, TableTypeOK
    <3>3. QED
      BY <2>2, <3>1, <3>2
  <2>5. QED
    BY <2>1, <2>2, <2>3, <2>4, StepLocks DEF Assignment
<1>6. QED
  BY <1>1, <1>3, <1>4, <1>5 DEF Inv

LEMMA InvInit == Init => Inv
<1> SUFFICES ASSUME Init PROVE Inv
  OBVIOUS
<1>1. TableInv
  BY InitHasInv DEF Init
<1>2. TypeOK
  BY <1>1 DEF Init, TypeOK, TableInv
<1>3. MigInv
  BY DEF Init, MigInv
<1>4. MigLockInv
  BY DEF Init, MigLockInv, LockedBy, Idle
<1>5. QED
  BY <1>1, <1>2, <1>3, <1>4 DEF Inv

LEMMA MigrationKeepsInv ==
  ASSUME Inv, NEW m \in Migrators, MigrationStep(m)
  PROVE  Inv'
BY ReadStepKeepsInv, TransferKeepsInv, RestoreKeepsInv, ReinsertKeepsInv,
   MigrationFailsKeepsInv DEF MigrationStep

LEMMA InvNext == Inv /\ [Next]_vars => Inv'
<1>1. Inv /\ UNCHANGED vars => Inv'
  <2> SUFFICES ASSUME Inv, UNCHANGED vars PROVE Inv'
    OBVIOUS
  <2>1. TableInv' /\ TypeOK'
    BY StutterKeepsInv DEF vars, migVars, Inv, TypeOK, TableInv
  <2>2. MigInv'
    BY DEF vars, migVars, tableVars, Inv, MigInv, ReadsAreCurrent, ItemsOf, ItemsIn, ApartUsers
  <2>3. MigLockInv'
    BY DEF vars, migVars, tableVars, Inv, MigLockInv
  <2>4. QED
    BY <2>1, <2>2, <2>3 DEF Inv
<1>2. QED
  BY <1>1, AssignmentKeepsInv, ArriveMergeKeepsInv, ArriveRollbackKeepsInv,
     MigrationKeepsInv DEF Next

-----------------------------------------------------------------------------

\* The requests and the migrations half way are where the table's history says, in every
\* reachable state.
THEOREM Invariance == Spec => []Inv
BY InvInit, InvNext, PTL DEF Spec

\* Types of the table, the requests, the migrations and their histories.
THEOREM TypeCorrect == Spec => []TypeOK
<1>1. Inv => TypeOK
  BY DEF Inv
<1>2. QED
  BY <1>1, Invariance, PTL

\* Merges and rollbacks rewrite rows under the plain requests, and still every
\* answer of a plain request was true at an instant of that request.
THEOREM AnswersCorrectUnderMerges == Spec => []AnswersAreTrue
<1>1. Inv => AnswersAreTrue
  BY DEF Inv, TableInv
<1>2. QED
  BY <1>1, Invariance, PTL

-----------------------------------------------------------------------------
(* Action properties. *)

\* Only m's own step stops its request: its writing step, or a failure.
LEMMA StopsInOwnStep ==
  ASSUME Inv, [Next]_vars, NEW m \in Migrators
  PROVE  /\ Stops(m, "transfer") => Transfer(m) \/ MigrationFails(m)
         /\ Stops(m, "reinsert") => Reinsert(m) \/ MigrationFails(m)
<1> SUFFICES ASSUME MigAt(m, "transfer") \/ MigAt(m, "reinsert"), mig'[m].phase = "done"
             PROVE  /\ MigAt(m, "transfer") => Transfer(m) \/ MigrationFails(m)
                    /\ MigAt(m, "reinsert") => Reinsert(m) \/ MigrationFails(m)
  BY DEF Stops
<1>1. mig'[m] # mig[m]
  BY DEF MigAt
<1>2. ASSUME NEW n \in Migrators, n # m,
             \/ \E p \in MergePairs : ArriveMerge(n, p) \/ ArriveRollback(n, p)
             \/ MigrationStep(n)
      PROVE  FALSE
  <2>1. mig \in [Migrators -> Migration \cup {Idle}]
    BY DEF Inv, TypeOK
  <2>2. mig'[m] = mig[m]
    BY <1>2, <2>1 DEF ArriveMerge, ArriveRollback, MigrationStep, ReadSource, ReadTarget,
       Transfer, ReadCurrent, Restore, Reinsert, MigrationFails, Finish, FinishCommitted
  <2>3. QED
    BY <1>1, <2>2
<1>3. ~UNCHANGED mig
  BY <1>1
<1>4. \/ \E p \in MergePairs : ArriveMerge(m, p) \/ ArriveRollback(m, p)
      \/ MigrationStep(m)
  BY <1>2, <1>3 DEF Next, Assignment, vars, migVars
<1>5. QED
  BY <1>4 DEF MigrationStep, ReadSource, ReadTarget, Transfer, ReadCurrent, Restore,
     Reinsert, ArriveMerge, ArriveRollback, MigAt, Migrating

\* A request that stops with "ok" did not stop with "error" in the same step.
LEMMA CommitIsNoError ==
  ASSUME Inv, NEW m \in Migrators, Migrating(m), mig'[m].reply = "ok"
  PROVE  ~Finish(m, "error")
BY FinishIsMigration DEF Inv

LEMMA CommitIsOwnStep ==
  ASSUME Inv, [Next]_vars, NEW m \in Migrators
  PROVE  /\ Commits(m, "transfer") => Transfer(m) /\ ~Finish(m, "error")
         /\ Commits(m, "reinsert") => Reinsert(m) /\ ~Finish(m, "error")
<1>1. \A phase \in {"transfer", "reinsert"} :
        Commits(m, phase) => Stops(m, phase) /\ ~Finish(m, "error")
  BY CommitIsNoError DEF Commits, Stops, MigAt, Migrating
<1>2. QED
  BY <1>1, StopsInOwnStep DEF MigrationFails

\* A transfer moves what it still finds, or it fails and changes nothing.
LEMMA TransferWrites ==
  ASSUME Inv, NEW m \in Migrators, Transfer(m)
  PROVE  \/ rows' = rows /\ Finish(m, "error")
         \/ rows' = (rows \ Row(mig[m].source,
                                 (UniqueIds(m) \cap ItemsOf(mig[m].source)) \cup DuplicateIds(m)))
                       \cup Row(mig[m].target, UniqueIds(m) \cap ItemsOf(mig[m].source))
BY DEF Transfer

LEMMA TransferExact ==
  ASSUME Inv, [Next]_vars, NEW m \in Migrators
  PROVE  TransferIsExact(m)
<1> SUFFICES ASSUME Commits(m, "transfer"), undisturbed[m], ApartUsers(m)
             PROVE  /\ ItemsIn(rows', mig[m].target)
                          = ItemsOf(mig[m].source) \cup ItemsOf(mig[m].target)
                    /\ ItemsIn(rows', mig[m].source) = {}
  BY DEF TransferIsExact
<1> DEFINE s == mig[m].source
           t == mig[m].target
<1>1. Transfer(m) /\ ~Finish(m, "error") /\ s # t /\ mig[m] # Idle
  BY CommitIsOwnStep, ActiveMigrates, MigratingIsMigration DEF Inv, ApartUsers
<1>2. mig[m].sourceIds = ItemsOf(s) /\ mig[m].targetIds = ItemsOf(t)
  BY <1>1 DEF Inv, MigInv, ReadsAreCurrent, Commits, MigAt
<1>3. /\ UniqueIds(m) \cap ItemsOf(s) = ItemsOf(s) \ ItemsOf(t)
      /\ DuplicateIds(m) = ItemsOf(s) \cap ItemsOf(t)
  BY <1>2 DEF UniqueIds, DuplicateIds
<1>4. rows' = (rows \ Row(s, ItemsOf(s))) \cup Row(t, ItemsOf(s) \ ItemsOf(t))
  <2>1. (ItemsOf(s) \ ItemsOf(t)) \cup (ItemsOf(s) \cap ItemsOf(t)) = ItemsOf(s)
    OBVIOUS
  <2>2. QED
    BY <1>1, <1>3, <2>1, TransferWrites
<1>5. QED
  BY <1>1, <1>4 DEF ItemsIn, ItemsOf, Row

LEMMA RestoreExact ==
  ASSUME Inv, [Next]_vars, NEW m \in Migrators
  PROVE  RestoreIsExact(m)
<1> SUFFICES ASSUME Commits(m, "reinsert"), undisturbed[m], ApartUsers(m)
             PROVE  /\ ItemsIn(rows', mig[m].target) = ItemsOf(mig[m].target) \ mig[m].ids
                    /\ ItemsIn(rows', mig[m].source)
                          = ItemsOf(mig[m].source) \cup (mig[m].ids \cap ItemsOf(mig[m].target))
  BY DEF RestoreIsExact
<1> DEFINE s == mig[m].source
           t == mig[m].target
           back == mig[m].ids \cap ItemsOf(t)
<1>1. Reinsert(m) /\ mig[m] # Idle /\ s # t /\ ~Finish(m, "error")
  BY CommitIsOwnStep, ActiveMigrates, MigratingIsMigration DEF Inv, ApartUsers
<1>2. mig[m].sourceIds = ItemsOf(s) /\ mig[m].targetIds = ItemsOf(t)
  BY <1>1 DEF Inv, MigInv, ReadsAreCurrent, Commits, MigAt, ApartUsers
<1>3. RolesToRestore(m) = back
  BY <1>2 DEF RolesToRestore
<1>4. rows' = (rows \ Row(t, back)) \cup Row(s, back \ ItemsOf(s))
  BY <1>1, <1>2, <1>3 DEF Reinsert
<1>5. QED
  BY <1>1, <1>4 DEF ItemsIn, ItemsOf, Row

\* For any number of concurrent requests: a merge whose users' rows nobody touched
\* meanwhile hands over exactly the source's roles, and a rollback gives back
\* exactly the listed roles the target has.
THEOREM UndisturbedMigrationsExact == Spec => UndisturbedMigrationsAreExact
<1>1. Inv /\ [Next]_vars
        => [\A m \in Migrators : TransferIsExact(m) /\ RestoreIsExact(m)]_vars
  BY TransferExact, RestoreExact
<1>2. QED
  BY <1>1, Invariance, PTL DEF Spec, UndisturbedMigrationsAreExact

\* No interleaving makes a merge invent an assignment or reach a third user.
THEOREM MergesOnlyMove == Spec => MergeOnlyMoves
<1> DEFINE Moves(m) ==
      \A o \in Owners, i \in Items :
        /\ <<o, i>> \in rows' \ rows
             => o = mig[m].target /\ <<mig[m].source, i>> \in rows \ rows'
        /\ <<o, i>> \in rows \ rows' => o = mig[m].source
<1>1. ASSUME Inv, [Next]_vars, NEW m \in Migrators, Stops(m, "transfer")
      PROVE  Moves(m)
  <2> DEFINE s == mig[m].source
             t == mig[m].target
             moved == UniqueIds(m) \cap ItemsOf(s)
  <2>1. \/ rows' = rows
        \/ rows' = (rows \ Row(s, moved \cup DuplicateIds(m))) \cup Row(t, moved)
    BY <1>1, StopsInOwnStep, TransferWrites DEF MigrationFails
  <2>2. \A i \in moved : <<s, i>> \in rows
    BY DEF ItemsOf, ItemsIn
  <2> TAKE o \in Owners, i \in Items
  <2>3. <<o, i>> \in rows \ rows' => o = s
    BY <2>1 DEF Row
  <2>4. ASSUME <<o, i>> \in rows' \ rows
        PROVE  o = t /\ <<s, i>> \in rows \ rows'
    <3>1. o = t /\ i \in moved
      BY <2>1, <2>4 DEF Row
    <3>2. s # t
      BY <2>2, <2>4, <3>1
    <3>3. QED
      BY <2>1, <2>2, <2>4, <3>1, <3>2 DEF Row
  <2>5. QED
    BY <2>3, <2>4
<1>2. Inv /\ [Next]_vars
        => [\A m \in Migrators : Stops(m, "transfer") => Moves(m)]_vars
  BY <1>1
<1>3. QED
  BY <1>2, Invariance, PTL DEF Spec, MergeOnlyMoves

\* A merge, a rollback or an assignment that is answered with an error, after any
\* number of steps and in any interleaving, has done all it meant to or nothing.
THEOREM ChangesWhole == Spec => ChangesAreWhole
<1> DEFINE SomeWhole == \/ \E w \in Workers : WritesWhole(w)
                        \/ \E m \in Migrators : TransfersWhole(m) \/ RestoresWhole(m)
<1>1. ASSUME Inv, NEW w \in Workers, Assignment(w), rows' # rows
      PROVE  SomeWhole
  <2>1. Step(w)
    BY <1>1 DEF Assignment, Arrive
  <2>2. QED
    BY <1>1, <2>1, StepWritesWhole DEF Inv
<1>2. ASSUME Inv, NEW m \in Migrators, Transfer(m), rows' # rows
      PROVE  TransfersWhole(m)
  <2> DEFINE s == mig[m].source
             t == mig[m].target
             moved == UniqueIds(m) \cap ItemsOf(s)
  <2>1. Migrating(m) /\ MigAt(m, "transfer") /\ FinishCommitted(m)
    BY <1>2, ActiveMigrates DEF Transfer
  <2>2. Stops(m, "transfer")
    BY <1>2, <2>1, FinishIsMigration DEF Inv, FinishCommitted, Stops
  <2>3. rows' = (rows \ Row(s, moved \cup DuplicateIds(m))) \cup Row(t, moved)
    BY <1>2, TransferWrites
  <2>4. ASSUME s # t, NEW i \in mig[m].sourceIds
        PROVE  <<s, i>> \notin rows'
    <3>1. i \in UniqueIds(m) \/ i \in DuplicateIds(m)
      BY <2>4 DEF UniqueIds, DuplicateIds
    <3>2. i \in UniqueIds(m) /\ <<s, i>> \in rows => i \in moved
      BY <1>2, <2>1, <2>4, MigratingIsMigration DEF ItemsOf, ItemsIn, Migration, Inv
    <3>3. QED
      BY <2>3, <2>4, <3>1, <3>2 DEF Row
  <2>5. QED
    BY <2>2, <2>4 DEF TransfersWhole, ApartUsers, ItemsIn
<1>3. ASSUME Inv, NEW m \in Migrators, Reinsert(m), rows' # rows
      PROVE  RestoresWhole(m)
  <2> DEFINE s == mig[m].source
             t == mig[m].target
             absent == RolesToRestore(m) \ mig[m].sourceIds
  <2>1. Migrating(m) /\ mig[m] \in Migration /\ MigAt(m, "reinsert") /\ FinishCommitted(m)
    BY <1>3, ActiveMigrates, MigratingIsMigration DEF Reinsert, Inv
  <2>2. Stops(m, "reinsert")
    BY <1>3, <2>1, FinishIsMigration DEF Inv, FinishCommitted, Stops
  <2>3. rows' = (rows \ Row(t, RolesToRestore(m))) \cup Row(s, absent)
    BY <1>3 DEF Reinsert
  <2>4. s # t => RolesToRestore(m) \cap ItemsIn(rows', t) = {}
    BY <2>3 DEF ItemsIn, Row
  <2>5. absent \subseteq ItemsIn(rows', s)
    BY <2>1, <2>3 DEF ItemsIn, Row, RolesToRestore, Migration
  <2>6. QED
    BY <2>2, <2>4, <2>5 DEF RestoresWhole, ApartUsers
<1>4. ASSUME Inv, NEW m \in Migrators, rows' # rows,
             \/ \E p \in MergePairs : ArriveMerge(m, p) \/ ArriveRollback(m, p)
             \/ MigrationStep(m)
      PROVE  Transfer(m) \/ Reinsert(m)
  BY <1>4 DEF MigrationStep, ArriveMerge, ArriveRollback, ReadSource, ReadTarget,
     ReadCurrent, Restore, MigrationFails, tableVars
<1>5. Inv /\ [Next]_vars => [rows' # rows => SomeWhole]_vars
  BY <1>1, <1>2, <1>3, <1>4 DEF Next
<1>6. QED
  BY <1>5, Invariance, PTL DEF Spec, ChangesAreWhole

-----------------------------------------------------------------------------
(* The refinement of the abstract accounts. *)

Moves == [m \in Migrators |-> MoveOf(mig[m])]

KindOf(g) == IF g.phase \in {"readSource", "readTarget", "transfer"} THEN "merge" ELSE "rollback"

\* What a request has not read yet it knows nothing of.
Unread(g) ==
  /\ g.phase \in {"readSource", "readCurrent"} => g.sourceIds = {} /\ g.targetIds = {}
  /\ g.phase = "readTarget" => g.targetIds = {}
  /\ g.phase = "restore" => g.sourceIds = {}

AccountInv == /\ Inv
              /\ \A w \in Workers : Fresh(req[w])
              /\ \A m \in Migrators : Unread(mig[m])

LEMMA IdleIsNoMigration == \A g \in Migration : g # Idle
BY DEF Migration, MigPhases, Idle

LEMMA MoveOfRunning ==
  ASSUME NEW g \in Migration, g.phase # "done"
  PROVE  MoveOf(g) = [kind |-> KindOf(g), source |-> g.source, target |-> g.target,
                      ids |-> g.ids, had |-> g.sourceIds, has |-> g.targetIds,
                      answer |-> "pending"]
BY IdleIsNoMigration DEF MoveOf, KindOf

LEMMA MovesMove ==
  ASSUME TypeOK, NEW m \in Migrators, NEW g, mig' = [mig EXCEPT ![m] = g]
  PROVE  Moves' = [Moves EXCEPT ![m] = MoveOf(g)]
BY DEF Moves, TypeOK

\* A running migration is a pending move.
LEMMA MigratingIsMoving ==
  ASSUME AccountInv, NEW m \in Migrators, Migrating(m)
  PROVE  /\ mig[m] \in Migration /\ Unread(mig[m]) /\ TypeOK
         /\ Moves[m] = [kind |-> KindOf(mig[m]), source |-> mig[m].source,
                        target |-> mig[m].target, ids |-> mig[m].ids,
                        had |-> mig[m].sourceIds, has |-> mig[m].targetIds,
                        answer |-> "pending"]
         /\ Moves[m].answer = "pending"
<1>1. mig[m] \in Migration /\ TypeOK /\ mig[m].phase # "done"
  BY MigratingIsMigration DEF AccountInv, Inv, Migrating
<1>2. Moves[m] = MoveOf(mig[m])
  BY DEF Moves
<1>3. MoveOf(mig[m]).answer = "pending"
  BY <1>1, IdleIsNoMigration DEF MoveOf
<1>4. QED
  BY <1>1, <1>2, <1>3, MoveOfRunning DEF AccountInv

LEMMA FinishAnswers ==
  ASSUME AccountInv, NEW m \in Migrators, Migrating(m),
         NEW reply \in {"ok", "error"}, Finish(m, reply)
  PROVE  Moves' = [Moves EXCEPT ![m] = [answer |-> IF reply = "ok" THEN "done" ELSE "unknown"]]
<1> DEFINE g == [mig[m] EXCEPT !.phase = "done", !.reply = reply]
<1>1. mig[m] \in Migration /\ TypeOK
  BY MigratingIsMoving
<1>2. g \in Migration /\ g.phase = "done" /\ g.reply = reply
  BY <1>1 DEF Migration, MigPhases
<1>3. mig' = [mig EXCEPT ![m] = g]
  BY <1>1 DEF Finish, TypeOK
<1> HIDE DEF g
<1>4. MoveOf(g) = [answer |-> IF reply = "ok" THEN "done" ELSE "unknown"]
  BY <1>2, IdleIsNoMigration DEF MoveOf
<1>5. QED
  BY <1>1, <1>3, <1>4, MovesMove

LEMMA FailureIsRefusal ==
  ASSUME AccountInv, NEW m \in Migrators, Migrating(m), Finish(m, "error"), rows' = rows
  PROVE  Accounts!RefuseMove(m)
<1>1. Moves[m].answer = "pending"
  BY MigratingIsMoving
<1>2. Moves' = [Moves EXCEPT ![m] = [answer |-> "unknown"]]
  BY FinishAnswers
<1>3. QED
  BY <1>1, <1>2 DEF Accounts!RefuseMove, Accounts!Moving, Accounts!MoveAnswered, Moves

\* A statement that reads: the request goes on with a longer memory of what the two
\* users held.
LEMMA ReadIsNotice ==
  ASSUME AccountInv, NEW m \in Migrators, Migrating(m), rows' = rows,
         NEW g \in Migration, mig' = [mig EXCEPT ![m] = g], g.phase # "done",
         KindOf(g) = KindOf(mig[m]), g.source = mig[m].source, g.target = mig[m].target,
         g.ids = mig[m].ids,
         NEW S \in SUBSET ItemsOf(mig[m].source), g.sourceIds = mig[m].sourceIds \cup S,
         NEW T \in SUBSET ItemsOf(mig[m].target), g.targetIds = mig[m].targetIds \cup T
  PROVE  Accounts!NoticeHeld(m)
<1>1. /\ TypeOK
      /\ Moves[m] = [kind |-> KindOf(mig[m]), source |-> mig[m].source,
                     target |-> mig[m].target, ids |-> mig[m].ids,
                     had |-> mig[m].sourceIds, has |-> mig[m].targetIds,
                     answer |-> "pending"]
  BY MigratingIsMoving
<1>2. MoveOf(g) = Accounts!Noticed(Moves[m], S, T)
  BY <1>1, MoveOfRunning DEF Accounts!Noticed
<1>3. Moves' = [Moves EXCEPT ![m] = Accounts!Noticed(Moves[m], S, T)]
  <2>1. Moves' = [Moves EXCEPT ![m] = MoveOf(g)]
    BY <1>1, MovesMove
  <2>2. QED
    BY <1>2, <2>1
<1>4. /\ S \in SUBSET {i \in Items : <<Moves[m].source, i>> \in rows}
      /\ T \in SUBSET {i \in Items : <<Moves[m].target, i>> \in rows}
      /\ Moves[m].answer = "pending"
  BY <1>1 DEF ItemsOf, ItemsIn
<1>5. QED
  BY <1>3, <1>4 DEF Accounts!NoticeHeld, Accounts!Moving, Accounts!Held, Moves

LEMMA EndIsNothingToMove ==
  ASSUME AccountInv, NEW m \in Migrators, Migrating(m), Finish(m, "ok"), rows' = rows,
         KindOf(mig[m]) = "merge" => ItemsOf(mig[m].source) = {},
         KindOf(mig[m]) = "rollback" => mig[m].ids \cap ItemsOf(mig[m].target) = {}
  PROVE  Accounts!NothingToMove(m)
<1>1. Moves[m] = [kind |-> KindOf(mig[m]), source |-> mig[m].source,
                  target |-> mig[m].target, ids |-> mig[m].ids,
                  had |-> mig[m].sourceIds, has |-> mig[m].targetIds,
                  answer |-> "pending"]
  BY MigratingIsMoving
<1>2. Moves' = [Moves EXCEPT ![m] = [answer |-> "done"]]
  BY FinishAnswers
<1>3. /\ Moves[m].kind = "merge" => {i \in Items : <<Moves[m].source, i>> \in rows} = {}
      /\ Moves[m].kind = "rollback"
           => Moves[m].ids \cap {i \in Items : <<Moves[m].target, i>> \in rows} = {}
  BY <1>1 DEF ItemsOf, ItemsIn
<1>4. QED
  BY <1>1, <1>2, <1>3 DEF Accounts!NothingToMove, Accounts!Moving, Accounts!MoveAnswered,
     Accounts!Held, Moves

LEMMA ReadSourceIsStoreStep ==
  ASSUME AccountInv, NEW m \in Migrators, ReadSource(m)
  PROVE  Accounts!NothingToMove(m) \/ Accounts!NoticeHeld(m)
<1> DEFINE ids == ItemsOf(mig[m].source)
           g == [mig[m] EXCEPT !.phase = "readTarget", !.sourceIds = ids]
<1>1. Migrating(m) /\ mig[m] \in Migration /\ Unread(mig[m]) /\ TypeOK
  BY ActiveMigrates, MigratingIsMoving
<1>2. mig[m].phase = "readSource" /\ KindOf(mig[m]) = "merge" /\ rows' = rows
  BY DEF ReadSource, MigAt, KindOf, tableVars
<1>3. CASE ids = {} /\ Finish(m, "ok")
  BY <1>1, <1>2, <1>3, EndIsNothingToMove
<1>4. CASE mig' = [mig EXCEPT ![m].phase = "readTarget", ![m].sourceIds = ids]
  <2>1. ids \in SUBSET Items
    BY DEF ItemsOf, ItemsIn
  <2>2. mig' = [mig EXCEPT ![m] = g]
    BY <1>1, <1>4 DEF TypeOK
  <2>3. /\ g \in Migration /\ g.phase = "readTarget" /\ g.ids = mig[m].ids
        /\ g.source = mig[m].source /\ g.target = mig[m].target
        /\ g.sourceIds = ids /\ g.targetIds = mig[m].targetIds
    BY <1>1, <2>1 DEF Migration, MigPhases
  <2> HIDE DEF g
  <2>4. /\ g.sourceIds = mig[m].sourceIds \cup ids
        /\ g.targetIds = mig[m].targetIds \cup {}
        /\ KindOf(g) = KindOf(mig[m])
    BY <1>1, <1>2, <2>3 DEF Unread, KindOf
  <2> DEFINE none == {}
  <2>5. none \in SUBSET ItemsOf(mig[m].target) /\ g.targetIds = mig[m].targetIds \cup none
    BY <2>4
  <2> HIDE DEF none
  <2>6. QED
    BY <1>1, <1>2, <2>2, <2>3, <2>4, <2>5, ReadIsNotice
<1>5. QED
  BY <1>3, <1>4 DEF ReadSource

LEMMA ReadTargetIsNotice ==
  ASSUME AccountInv, NEW m \in Migrators, ReadTarget(m)
  PROVE  Accounts!NoticeHeld(m)
<1> DEFINE ids == ItemsOf(mig[m].target)
           none == {}
           g == [mig[m] EXCEPT !.phase = "transfer", !.targetIds = ids]
<1>1. Migrating(m) /\ mig[m] \in Migration /\ Unread(mig[m]) /\ TypeOK
  BY ActiveMigrates, MigratingIsMoving
<1>2. mig[m].phase = "readTarget" /\ rows' = rows
  BY DEF ReadTarget, MigAt, tableVars
<1>3. ids \in SUBSET Items
  BY DEF ItemsOf, ItemsIn
<1>4. mig' = [mig EXCEPT ![m] = g]
  BY <1>1 DEF ReadTarget, TypeOK
<1>5. /\ g \in Migration /\ g.phase = "transfer" /\ g.ids = mig[m].ids
      /\ g.source = mig[m].source /\ g.target = mig[m].target
      /\ g.sourceIds = mig[m].sourceIds /\ g.targetIds = ids
  BY <1>1, <1>3 DEF Migration, MigPhases
<1> HIDE DEF g
<1>6. /\ g.sourceIds = mig[m].sourceIds \cup none /\ none \in SUBSET ItemsOf(mig[m].source)
      /\ g.targetIds = mig[m].targetIds \cup ids
      /\ KindOf(g) = KindOf(mig[m])
  BY <1>1, <1>2, <1>5 DEF Unread, KindOf
<1> HIDE DEF none
<1>7. QED
  BY <1>1, <1>2, <1>4, <1>5, <1>6, ReadIsNotice

LEMMA ReadCurrentIsStoreStep ==
  ASSUME AccountInv, NEW m \in Migrators, ReadCurrent(m)
  PROVE  Accounts!NothingToMove(m) \/ Accounts!NoticeHeld(m)
<1> DEFINE ids == ItemsOf(mig[m].target)
           none == {}
           g == [mig[m] EXCEPT !.phase = "restore", !.targetIds = ids]
<1>1. Migrating(m) /\ mig[m] \in Migration /\ Unread(mig[m]) /\ TypeOK
  BY ActiveMigrates, MigratingIsMoving
<1>2. mig[m].phase = "readCurrent" /\ KindOf(mig[m]) = "rollback" /\ rows' = rows
  BY DEF ReadCurrent, MigAt, KindOf, tableVars
<1>3. CASE mig[m].ids \cap ids = {} /\ Finish(m, "ok")
  BY <1>1, <1>2, <1>3, EndIsNothingToMove
<1>4. CASE mig' = [mig EXCEPT ![m].phase = "restore", ![m].targetIds = ids]
  <2>1. ids \in SUBSET Items
    BY DEF ItemsOf, ItemsIn
  <2>2. mig' = [mig EXCEPT ![m] = g]
    BY <1>1, <1>4 DEF TypeOK
  <2>3. /\ g \in Migration /\ g.phase = "restore" /\ g.ids = mig[m].ids
        /\ g.source = mig[m].source /\ g.target = mig[m].target
        /\ g.sourceIds = mig[m].sourceIds /\ g.targetIds = ids
    BY <1>1, <2>1 DEF Migration, MigPhases
  <2> HIDE DEF g
  <2>4. /\ g.sourceIds = mig[m].sourceIds \cup none /\ none \in SUBSET ItemsOf(mig[m].source)
        /\ g.targetIds = mig[m].targetIds \cup ids
        /\ KindOf(g) = KindOf(mig[m])
    BY <1>1, <1>2, <2>3 DEF Unread, KindOf
  <2> HIDE DEF none
  <2>5. QED
    BY <1>1, <1>2, <2>2, <2>3, <2>4, ReadIsNotice
<1>5. QED
  BY <1>3, <1>4 DEF ReadCurrent

\* The DELETE of the open transaction is not seen, the SELECT of its save notices.
LEMMA RestoreIsNotice ==
  ASSUME AccountInv, NEW m \in Migrators, Restore(m)
  PROVE  Accounts!NoticeHeld(m)
<1> DEFINE found == ItemsIn(rows \ Row(mig[m].target, RolesToRestore(m)), mig[m].source)
           none == {}
           g == [mig[m] EXCEPT !.phase = "reinsert", !.sourceIds = found]
<1>1. Migrating(m) /\ mig[m] \in Migration /\ Unread(mig[m]) /\ TypeOK
  BY ActiveMigrates, MigratingIsMoving
<1>2. mig[m].phase = "restore" /\ rows' = rows
  BY DEF Restore, MigAt
<1>3. found \in SUBSET Items /\ found \in SUBSET ItemsOf(mig[m].source)
  BY DEF ItemsOf, ItemsIn
<1>4. mig' = [mig EXCEPT ![m] = g]
  BY <1>1 DEF Restore, TypeOK
<1>5. /\ g \in Migration /\ g.phase = "reinsert" /\ g.ids = mig[m].ids
      /\ g.source = mig[m].source /\ g.target = mig[m].target
      /\ g.sourceIds = found /\ g.targetIds = mig[m].targetIds
  BY <1>1, <1>3 DEF Migration, MigPhases
<1> HIDE DEF g, found
<1>6. /\ g.sourceIds = mig[m].sourceIds \cup found
      /\ g.targetIds = mig[m].targetIds \cup none /\ none \in SUBSET ItemsOf(mig[m].target)
      /\ KindOf(g) = KindOf(mig[m])
  BY <1>1, <1>2, <1>5 DEF Unread, KindOf
<1> HIDE DEF none
<1>7. QED
  BY <1>1, <1>2, <1>3, <1>4, <1>5, <1>6, ReadIsNotice

LEMMA CommitAnswers ==
  ASSUME AccountInv, NEW m \in Migrators, Migrating(m), FinishCommitted(m)
  PROVE  Accounts!MoveAnswered(m, {"done", "unknown"})
<1>1. \E a \in {"done", "unknown"} : Moves' = [Moves EXCEPT ![m] = [answer |-> a]]
  BY FinishAnswers DEF FinishCommitted
<1>2. QED
  BY <1>1 DEF Accounts!MoveAnswered, Moves

LEMMA TransferIsMerge ==
  ASSUME AccountInv, NEW m \in Migrators, Transfer(m)
  PROVE  Accounts!Merge(m) \/ Accounts!RefuseMove(m)
<1> DEFINE s == mig[m].source
           t == mig[m].target
           moved == UniqueIds(m) \cap ItemsOf(s)
<1>1. /\ Migrating(m) /\ mig[m] \in Migration
      /\ Moves[m] = [kind |-> KindOf(mig[m]), source |-> mig[m].source,
                     target |-> mig[m].target, ids |-> mig[m].ids,
                     had |-> mig[m].sourceIds, has |-> mig[m].targetIds,
                     answer |-> "pending"]
  BY ActiveMigrates, MigratingIsMoving
<1>2. CASE Finish(m, "error") /\ UNCHANGED rows
  BY <1>1, <1>2, FailureIsRefusal
<1>3. CASE /\ ~(s # t /\ moved \cap ItemsOf(t) # {})
           /\ rows' = (rows \ Row(s, moved \cup DuplicateIds(m))) \cup Row(t, moved)
           /\ FinishCommitted(m)
  <2>1. Accounts!MoveAnswered(m, {"done", "unknown"})
    BY <1>1, <1>3, CommitAnswers
  <2>2. KindOf(mig[m]) = "merge"
    BY DEF Transfer, MigAt, KindOf
  <2>3. rows \ Row(s, moved \cup DuplicateIds(m)) = rows \ Row(s, mig[m].sourceIds)
    <3>1. moved \cup DuplicateIds(m) \subseteq mig[m].sourceIds
      BY DEF UniqueIds, DuplicateIds
    <3>2. ASSUME NEW i \in mig[m].sourceIds, <<s, i>> \in rows
          PROVE  i \in moved \cup DuplicateIds(m)
      <4>1. i \in ItemsOf(s)
        BY <1>1, <3>2 DEF ItemsOf, ItemsIn, Migration
      <4>2. QED
        BY <4>1 DEF UniqueIds, DuplicateIds
    <3>3. QED
      BY <3>1, <3>2 DEF Row
  <2>4. moved = (Moves[m].had \ Moves[m].has) \cap {i \in Items : <<Moves[m].source, i>> \in rows}
    BY <1>1 DEF UniqueIds, ItemsOf, ItemsIn
  <2>5. s # t => moved \cap {i \in Items : <<t, i>> \in rows} = {}
    BY <1>3 DEF ItemsOf, ItemsIn
  <2>6. rows' = (rows \ {<<Moves[m].source, i>> : i \in Moves[m].had})
                  \cup {<<Moves[m].target, i>> : i \in moved}
    BY <1>1, <1>3, <2>3 DEF Row
  <2>7. Moves[m].source # Moves[m].target
          => moved \cap {i \in Items : <<Moves[m].target, i>> \in rows} = {}
    BY <1>1, <2>5
  <2>8. Moves[m].kind = "merge" /\ Moves[m].answer = "pending"
    BY <1>1, <2>2
  <2> HIDE DEF moved
  <2>9. QED
    BY <2>1, <2>4, <2>6, <2>7, <2>8
    DEF Accounts!Merge, Accounts!Moving, Accounts!Held, Accounts!Row, Moves
<1>4. QED
  BY <1>2, <1>3 DEF Transfer

LEMMA ReinsertIsRollback ==
  ASSUME AccountInv, NEW m \in Migrators, Reinsert(m)
  PROVE  Accounts!Rollback(m) \/ Accounts!RefuseMove(m)
<1> DEFINE back == RolesToRestore(m)
<1>1. /\ Migrating(m)
      /\ Moves[m] = [kind |-> KindOf(mig[m]), source |-> mig[m].source,
                     target |-> mig[m].target, ids |-> mig[m].ids,
                     had |-> mig[m].sourceIds, has |-> mig[m].targetIds,
                     answer |-> "pending"]
  BY ActiveMigrates, MigratingIsMoving
<1>2. CASE Finish(m, "error") /\ UNCHANGED rows
  BY <1>1, <1>2, FailureIsRefusal
<1>3. CASE /\ rows' = (rows \ Row(mig[m].target, back))
                        \cup Row(mig[m].source, back \ mig[m].sourceIds)
           /\ FinishCommitted(m)
  <2>1. Accounts!MoveAnswered(m, {"done", "unknown"})
    BY <1>1, <1>3, CommitAnswers
  <2>2. KindOf(mig[m]) = "rollback"
    BY DEF Reinsert, MigAt, KindOf
  <2>3. back = Moves[m].ids \cap Moves[m].has
    BY <1>1 DEF RolesToRestore
  <2>4. rows' = (rows \ {<<Moves[m].target, i>> : i \in back})
                  \cup {<<Moves[m].source, i>> : i \in back \ Moves[m].had}
    BY <1>1, <1>3 DEF Row
  <2> HIDE DEF back
  <2>5. QED
    BY <1>1, <2>1, <2>2, <2>3, <2>4
    DEF Accounts!Rollback, Accounts!Moving, Accounts!Row, Moves
<1>4. QED
  BY <1>2, <1>3 DEF Reinsert

\* A new request of auth-server is a new move.
LEMMA ArriveIsAskMove ==
  ASSUME AccountInv, NEW m \in Migrators, NEW p \in MergePairs,
         ArriveMerge(m, p) \/ ArriveRollback(m, p)
  PROVE  Accounts!MoveStep(m)
<1> DEFINE g(ids, phase) == [source |-> p[1], target |-> p[2], ids |-> ids, sourceIds |-> {},
                             targetIds |-> {}, phase |-> phase, reply |-> "none"]
<1>1. TypeOK /\ p[1] \in Owners /\ p[2] \in Owners
  BY MergePairsAssumption DEF AccountInv, Inv
<1>2. Moves[m].answer # "pending" /\ rows' = rows
  <2>1. mig[m] = Idle \/ mig[m].phase = "done"
    BY <1>1, IdleIsNoMigration DEF ArriveMerge, ArriveRollback, Migrating, TypeOK, Migration, MigPhases
  <2>2. QED
    BY <2>1 DEF Moves, MoveOf, ArriveMerge, ArriveRollback, tableVars
<1>3. ASSUME NEW S \in SUBSET Items, NEW phase \in {"readSource", "readCurrent"},
             mig' = [mig EXCEPT ![m] = g(S, phase)]
      PROVE  Moves' = [Moves EXCEPT ![m] =
               [kind |-> IF phase = "readSource" THEN "merge" ELSE "rollback",
                source |-> p[1], target |-> p[2], ids |-> S,
                had |-> {}, has |-> {}, answer |-> "pending"]]
  <2>1. g(S, phase) \in Migration /\ g(S, phase).phase # "done"
    BY <1>1 DEF Migration, MigPhases
  <2>2. MoveOf(g(S, phase)) =
          [kind |-> IF phase = "readSource" THEN "merge" ELSE "rollback",
           source |-> p[1], target |-> p[2], ids |-> S,
           had |-> {}, has |-> {}, answer |-> "pending"]
    BY <2>1, MoveOfRunning DEF KindOf
  <2>3. QED
    BY <1>1, <1>3, <2>2, MovesMove
<1>4. CASE ArriveMerge(m, p)
  <2> DEFINE S == {}
  <2>1. S \in SUBSET Items /\ mig' = [mig EXCEPT ![m] = g(S, "readSource")]
    BY <1>4 DEF ArriveMerge
  <2>2. Moves' = [Moves EXCEPT ![m] = Accounts!NewMove("merge", p, S)]
    BY <1>3, <2>1 DEF Accounts!NewMove
  <2>3. Accounts!AskMove(m, "merge", p, S)
    BY <1>2, <2>2 DEF Accounts!AskMove, Accounts!Moving, Moves
  <2>4. QED
    BY <2>1, <2>3 DEF Accounts!MoveStep
<1>5. CASE ArriveRollback(m, p)
  <2> DEFINE S == original[p]
  <2>1. S \in SUBSET Items /\ mig' = [mig EXCEPT ![m] = g(S, "readCurrent")]
    BY <1>1, <1>5 DEF ArriveRollback, TypeOK
  <2> HIDE DEF S
  <2>2. Moves' = [Moves EXCEPT ![m] = Accounts!NewMove("rollback", p, S)]
    BY <1>3, <2>1 DEF Accounts!NewMove
  <2>3. Accounts!AskMove(m, "rollback", p, S)
    BY <1>2, <2>2 DEF Accounts!AskMove, Accounts!Moving, Moves
  <2>4. QED
    BY <2>1, <2>3 DEF Accounts!MoveStep
<1>6. QED
  BY <1>4, <1>5

LEMMA MigrationIsMoveStep ==
  ASSUME AccountInv, NEW m \in Migrators, MigrationStep(m)
  PROVE  Accounts!MoveStep(m)
<1>1. CASE MigrationFails(m)
  BY <1>1, ActiveMigrates, FailureIsRefusal DEF MigrationFails, Accounts!MoveStep
<1>2. CASE ~MigrationFails(m)
  BY <1>2, ReadSourceIsStoreStep, ReadTargetIsNotice, TransferIsMerge, ReadCurrentIsStoreStep,
     RestoreIsNotice, ReinsertIsRollback DEF MigrationStep, Accounts!MoveStep
<1>3. QED
  BY <1>1, <1>2

LEMMA MigrationsAskNothing ==
  ASSUME NEW m \in Migrators,
         \/ \E p \in MergePairs : ArriveMerge(m, p) \/ ArriveRollback(m, p)
         \/ MigrationStep(m)
  PROVE  UNCHANGED req
BY DEF MigrationStep, ArriveMerge, ArriveRollback, ReadSource, ReadTarget, Transfer,
   ReadCurrent, Restore, Reinsert, MigrationFails, tableVars

\* Seen from the plain requests, merges apart, nothing but the table of JoinTable.
LEMMA AssignmentIsTableStep ==
  ASSUME NEW w \in Workers, Assignment(w)
  PROVE  TableNext /\ UNCHANGED mig
BY DEF Assignment, TableNext

-----------------------------------------------------------------------------

LEMMA UnreadKept ==
  ASSUME AccountInv, [Next]_vars, NEW n \in Migrators
  PROVE  Unread(mig'[n])
<1>1. TypeOK /\ Unread(mig[n]) /\ Inv'
  BY InvNext DEF AccountInv, Inv
<1>2. CASE mig'[n] = mig[n]
  BY <1>1, <1>2
<1>3. ASSUME NEW m \in Migrators, NEW p \in MergePairs, ArriveMerge(m, p) \/ ArriveRollback(m, p)
      PROVE  Unread(mig'[n])
  BY <1>1, <1>2, <1>3 DEF ArriveMerge, ArriveRollback, TypeOK, Unread
<1>4. ASSUME NEW m \in Migrators, MigrationStep(m)
      PROVE  Unread(mig'[n])
  <2>1. CASE n # m
    BY <1>1, <1>2, <1>4, <2>1 DEF TypeOK, MigrationStep, ReadSource, ReadTarget, Transfer,
       ReadCurrent, Restore, Reinsert, MigrationFails, Finish, FinishCommitted
  <2>2. CASE n = m
    <3>1. Migrating(m) /\ mig[m] \in Migration
      BY <1>4, ActiveMigrates, MigratingIsMoving DEF MigrationStep
    <3>2. CASE \E reply \in {"ok", "error"} : Finish(m, reply)
      <4>1. mig'[m].phase = "done"
        BY <3>1, <3>2, FinishIsMigration DEF AccountInv, Inv
      <4>2. QED
        BY <2>2, <4>1 DEF Unread
    <3>3. CASE ~\E reply \in {"ok", "error"} : Finish(m, reply)
      <4>1. CASE ReadSource(m) \/ ReadCurrent(m)
        BY <1>1, <2>2, <3>1, <3>3, <4>1 DEF ReadSource, ReadCurrent, Unread, MigAt, TypeOK, Migration
      <4>2. CASE ReadTarget(m) \/ Restore(m)
        BY <1>1, <2>2, <3>1, <4>2 DEF ReadTarget, Restore, Unread, MigAt, TypeOK, Migration
      <4>3. QED
        BY <1>4, <3>3, <4>1, <4>2 DEF MigrationStep, Transfer, Reinsert, MigrationFails, FinishCommitted
    <3>4. QED
      BY <3>2, <3>3
  <2>3. QED
    BY <2>1, <2>2
<1>5. CASE UNCHANGED mig
  BY <1>2, <1>5
<1>6. QED
  BY <1>3, <1>4, <1>5 DEF Next, Assignment, vars, migVars

\* What the refinement rests on holds always: the abstract requests and moves stand where
\* the handlers that serve them do.
THEOREM AccountInvariant == Spec => []AccountInv
<1>1. Init => AccountInv
  BY InvInit DEF Init, TableInit, AccountInv, Fresh, Unread, Idle
<1>2. AccountInv /\ [Next]_vars => AccountInv'
  <2> SUFFICES ASSUME AccountInv, [Next]_vars PROVE AccountInv'
    OBVIOUS
  <2>1. Inv' /\ RefInv
    BY InvNext DEF AccountInv, Inv, RefInv
  <2>2. [TableNext]_tableVars \/ UNCHANGED req
    BY AssignmentIsTableStep, MigrationsAskNothing DEF Next, vars, tableVars
  <2>3. \A w \in Workers : Fresh(req'[w])
    BY <2>1, <2>2, NextKeepsFresh DEF AccountInv
  <2>4. \A m \in Migrators : Unread(mig'[m])
    BY UnreadKept
  <2>5. QED
    BY <2>1, <2>3, <2>4 DEF AccountInv, Fresh, Unread
<1>3. QED
  BY <1>1, <1>2, PTL DEF Spec

LEMMA SameTable == /\ Store!Init => Accounts!Init
                   /\ Store!Next => Accounts!Next
BY DEF Store!Init, Accounts!Init, Store!NoCall, Accounts!NoCall,
   Store!Next, Accounts!Next, Store!Ask, Accounts!Ask, Store!Notice, Accounts!Notice,
   Store!Grant, Accounts!Grant, Store!Revoke, Accounts!Revoke, Store!Replace, Accounts!Replace,
   Store!Refuse, Accounts!Refuse, Store!Answered, Accounts!Answered, Store!Closed,
   Accounts!Closed, Store!Pending, Accounts!Pending, Store!Held, Accounts!Held,
   Store!Row, Accounts!Row, Store!Grants, Accounts!Grants, Store!Revocations,
   Accounts!Revocations, Store!Ops, Accounts!Ops, Store!NewCalls, Accounts!NewCalls

LEMMA NextIsAccountNext ==
  ASSUME AccountInv, [Next]_vars
  PROVE  [Accounts!AccountNext]_Accounts!accountVars
<1> USE DEF Accounts!accountVars, Accounts!vars
<1>1. CASE UNCHANGED vars
  BY <1>1 DEF vars, migVars, tableVars
<1>2. ASSUME NEW w \in Workers, Assignment(w)
      PROVE  [Accounts!AccountNext]_Accounts!accountVars
  <2>1. RefInv
    BY DEF AccountInv, Inv, RefInv
  <2>2. [Store!Next]_Store!vars /\ UNCHANGED mig
    BY <1>2, <2>1, AssignmentIsTableStep, NextIsStoreNext
  <2>3. CASE Store!Next
    BY <2>2, <2>3, SameTable DEF Accounts!AccountNext
  <2>4. CASE UNCHANGED Store!vars
    BY <2>2, <2>4 DEF Store!vars
  <2>5. QED
    BY <2>2, <2>3, <2>4
<1>3. ASSUME NEW m \in Migrators,
             \/ \E p \in MergePairs : ArriveMerge(m, p) \/ ArriveRollback(m, p)
             \/ MigrationStep(m)
      PROVE  Accounts!AccountNext
  <2>1. Accounts!MoveStep(m)
    BY <1>3, ArriveIsAskMove, MigrationIsMoveStep
  <2>2. UNCHANGED req
    BY <1>3, MigrationsAskNothing
  <2>3. QED
    BY <2>1, <2>2 DEF Accounts!AccountNext
<1>4. QED
  BY <1>1, <1>2, <1>3 DEF Next

\* A merge or rollback has its whole effect at one instant or none, from what its users
\* did hold while it ran, and the other requests keep the promise of the abstract table,
\* for every number of requests and whatever statement fails.
THEOREM ImplementsTheAccounts == Spec => ImplementsAccounts
<1>1. Init => Accounts!AccountInit
  BY InitIsStoreInit, SameTable DEF Init, Accounts!AccountInit, Accounts!NoMove, MoveOf
<1>2. QED
  BY <1>1, NextIsAccountNext, AccountInvariant, PTL
  DEF Spec, ImplementsAccounts, Accounts!AccountSpec

=============================================================================
