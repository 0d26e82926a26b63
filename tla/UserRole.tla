------------------------------ MODULE UserRole ------------------------------
(****************************************************************************)
(* user_role with the two handlers only it has: mergeUserRoles moves the    *)
(* roles of a source user to a target user when auth-server merges two      *)
(* accounts, and rollbackMerge is the compensation auth-server sends when a *)
(* later step of that merge fails.  Owners are users and items are roles.   *)
(* Both handlers read with plain SELECTs first and only then open a         *)
(* transaction, so they act on what they read earlier.                      *)
(****************************************************************************)
EXTENDS JoinTable

CONSTANTS
  Migrators,   \* merge and rollback requests that can be in flight at once
  MergePairs   \* the <<source, target>> pairs auth-server asks to merge

ASSUME MergePairsAssumption == MergePairs \subseteq Owners \X Owners

VARIABLES
  mig,         \* mig[m]: the merge or rollback request m serves or answered last
  original,    \* external: the source's roles auth-server noted before its merge
  given,       \* history: the roles the merges of a pair have added to its target
  undisturbed  \* history: nobody else changed the two users' rows so far

migVars == <<mig, original, given, undisturbed>>
vars == <<tableVars, migVars>>

MigPhases == {"readSource", "readTarget", "transfer",
              "readCurrent", "restore", "reinsert", "done"}

Migration == [source: Owners, target: Owners, ids: SUBSET Items,
              sourceIds: SUBSET Items, targetIds: SUBSET Items,
              phase: MigPhases, reply: {"none", "ok", "error"}]

TypeOK ==
  /\ TableTypeOK
  /\ mig \in [Migrators -> Migration \cup {Idle}]
  /\ original \in [MergePairs -> SUBSET Items]
  /\ given \in [MergePairs -> SUBSET Items]
  /\ undisturbed \in [Migrators -> BOOLEAN]

-----------------------------------------------------------------------------

Migrating(m) == mig[m].phase \notin {"idle", "done"}

MigAt(m, phase) == mig[m].phase = phase

Finish(m, reply) ==
  mig' = [mig EXCEPT ![m].phase = "done", ![m].reply = reply]

\* The acknowledgement of a commit may be lost with the connection.
FinishCommitted(m) == Finish(m, "ok") \/ Finish(m, "error")

\* Keys the open transaction of a rollback holds.
LockedBy(s) == IF s.phase = "reinsert" THEN Row(s.target, s.ids \cap s.targetIds)
                                       ELSE {}

Unlock(m) == locked' = locked \ LockedBy(mig[m])

FreeFor(m, keys) == keys \cap (locked \ LockedBy(mig[m])) = {}

SameRows(m) ==
  \A o \in {mig[m].source, mig[m].target} : ItemsIn(rows', o) = ItemsOf(o)

\* A migration stays undisturbed while the steps of others leave its users' rows
\* alone; the ones that commit in this step are over.
Watch(committing) ==
  undisturbed' = [m \in Migrators |->
                    undisturbed[m] /\ m \notin committing /\ SameRows(m)]

-----------------------------------------------------------------------------
(* mergeUserRoles *)

\* auth-server notes the source's roles (for a rollback) and asks for the merge.
ArriveMerge(m, p) ==
  /\ ~Migrating(m)
  /\ mig' = [mig EXCEPT ![m] =
       [source |-> p[1], target |-> p[2], ids |-> {}, sourceIds |-> {},
        targetIds |-> {}, phase |-> "readSource", reply |-> "none"]]
  /\ original' = [original EXCEPT ![p] = ItemsOf(p[1])]
  /\ undisturbed' = [undisturbed EXCEPT ![m] = TRUE]
  /\ UNCHANGED <<tableVars, given>>

\* Mutant: the rows are kept instead of their role ids.
ReadSource_Rows(m) ==
  LET found == {k \in rows : k[1] = mig[m].source}
  IN /\ MigAt(m, "readSource")
     /\ IF found = {}
        THEN Finish(m, "ok")
        ELSE mig' = [mig EXCEPT ![m].phase = "readTarget", ![m].sourceIds = found]
     /\ UNCHANGED <<tableVars, original, given, undisturbed>>

\* Lines 370-378: a source without roles ends the merge successfully.
ReadSource(m) ==
  LET ids == ItemsOf(mig[m].source)
  IN /\ MigAt(m, "readSource")
     /\ IF ids = {}
        THEN Finish(m, "ok")
        ELSE mig' = [mig EXCEPT ![m].phase = "readTarget", ![m].sourceIds = ids]
     /\ UNCHANGED <<tableVars, original, given, undisturbed>>

\* Lines 381-387: what is unique to the source and what is a duplicate is decided
\* here, once, from the two answers.
ReadTarget(m) ==
  /\ MigAt(m, "readTarget")
  /\ mig' = [mig EXCEPT ![m].phase = "transfer",
                        ![m].targetIds = ItemsOf(mig[m].target)]
  /\ UNCHANGED <<tableVars, original, given, undisturbed>>

UniqueIds(m) == mig[m].sourceIds \ mig[m].targetIds
DuplicateIds(m) == mig[m].sourceIds \cap mig[m].targetIds

\* Mutant: the duplicates stay with the source.
Transfer_KeepsDuplicates(m) ==
  LET s == mig[m].source
      t == mig[m].target
      moved == UniqueIds(m) \cap ItemsOf(s)
  IN /\ MigAt(m, "transfer")
     /\ Free(Row(s, mig[m].sourceIds) \cup Row(t, moved))
     /\ rows' = (rows \ Row(s, moved)) \cup Row(t, moved)
     /\ given' = [given EXCEPT ![<<s, t>>] = @ \cup moved]
     /\ Finish(m, "ok")
     /\ UNCHANGED <<locked, req, original>>
     /\ Observe
     /\ Watch({m})

\* Mutant: DELETE from the source and INSERT what was read, in place of UPDATE.
Transfer_InsertsRead(m) ==
  LET s == mig[m].source
      t == mig[m].target
  IN /\ MigAt(m, "transfer")
     /\ Free(Row(s, mig[m].sourceIds) \cup Row(t, UniqueIds(m)))
     /\ rows' = (rows \ Row(s, mig[m].sourceIds)) \cup Row(t, UniqueIds(m))
     /\ given' = [given EXCEPT ![<<s, t>>] = @ \cup UniqueIds(m)]
     /\ Finish(m, "ok")
     /\ UNCHANGED <<locked, req, original>>
     /\ Observe
     /\ Watch({m})

\* Lines 389-409, one transaction: UPDATE the owner of the unique roles the source
\* still has, DELETE the duplicates.  An UPDATE onto a row the target has got in
\* the meantime is a duplicate key and rolls everything back.
Transfer(m) ==
  LET s == mig[m].source
      t == mig[m].target
      moved == UniqueIds(m) \cap ItemsOf(s)
      p == <<s, t>>
  IN /\ MigAt(m, "transfer")
     /\ Free(Row(s, mig[m].sourceIds) \cup Row(t, moved))
     /\ IF s # t /\ moved \cap ItemsOf(t) # {}
        THEN /\ Finish(m, "error")
             /\ UNCHANGED <<rows, given>>
        ELSE /\ rows' = (rows \ Row(s, moved \cup DuplicateIds(m))) \cup Row(t, moved)
             /\ given' = [given EXCEPT ![p] = @ \cup moved]
             /\ FinishCommitted(m)
     /\ UNCHANGED <<locked, req, original>>
     /\ Observe
     /\ Watch({m})

-----------------------------------------------------------------------------
(* rollbackMerge *)

\* auth-server compensates a merge it asked for, answered or not, with the list
\* it noted.  It may send the rollback again when it gets no answer.
ArriveRollback(m, p) ==
  /\ ~Migrating(m)
  /\ mig' = [mig EXCEPT ![m] =
       [source |-> p[1], target |-> p[2], ids |-> original[p], sourceIds |-> {},
        targetIds |-> {}, phase |-> "readCurrent", reply |-> "none"]]
  /\ undisturbed' = [undisturbed EXCEPT ![m] = TRUE]
  /\ UNCHANGED <<tableVars, original, given>>

\* Lines 449-458: an empty list ends it; otherwise read the target's roles.  With
\* nothing to restore the transaction (lines 460-481) is empty.
ReadCurrent(m) ==
  LET current == ItemsOf(mig[m].target)
  IN /\ MigAt(m, "readCurrent")
     /\ IF mig[m].ids \cap current = {}
        THEN Finish(m, "ok")
        ELSE mig' = [mig EXCEPT ![m].phase = "restore", ![m].targetIds = current]
     /\ UNCHANGED <<tableVars, original, given, undisturbed>>

RolesToRestore(m) == mig[m].ids \cap mig[m].targetIds

\* Mutant: the DELETE of a rollback is not part of the transaction and commits at once.
Restore_Autocommits(m) ==
  LET s == mig[m].source
      deleted == Row(mig[m].target, RolesToRestore(m))
  IN /\ MigAt(m, "restore")
     /\ Free(deleted)
     /\ mig' = [mig EXCEPT ![m].phase = "reinsert",
                           ![m].sourceIds = ItemsIn(rows \ deleted, s)]
     /\ rows' = rows \ deleted
     /\ UNCHANGED <<locked, req, original, given>>
     /\ Observe
     /\ Watch({})

\* Lines 460-480: the transaction DELETEs the roles from the target, and save's
\* SELECT looks which of them the source has (kept in sourceIds).  The deleted
\* keys stay locked, and other requests go on seeing them until the commit.
Restore(m) ==
  LET s == mig[m].source
      t == mig[m].target
      deleted == Row(t, RolesToRestore(m))
  IN /\ MigAt(m, "restore")
     /\ Free(deleted)
     /\ mig' = [mig EXCEPT ![m].phase = "reinsert",
                           ![m].sourceIds = ItemsIn(rows \ deleted, s)]
     /\ locked' = locked \cup deleted
     /\ UNCHANGED <<rows, req, seen, original, given, undisturbed>>

\* Save's INSERT of those the source did not have, and the commit.
Reinsert(m) ==
  LET s == mig[m].source
      t == mig[m].target
      kept == rows \ Row(t, RolesToRestore(m))
      absent == RolesToRestore(m) \ mig[m].sourceIds
      p == <<s, t>>
  IN /\ MigAt(m, "reinsert")
     /\ FreeFor(m, Row(s, absent))
     /\ IF absent \cap ItemsIn(kept, s) # {}
        THEN /\ Finish(m, "error")
             /\ UNCHANGED <<rows, given>>
        ELSE /\ rows' = kept \cup Row(s, absent)
             /\ given' = [given EXCEPT ![p] = @ \ RolesToRestore(m)]
             /\ FinishCommitted(m)
     /\ Unlock(m)
     /\ UNCHANGED <<req, original>>
     /\ Observe
     /\ Watch({m})

-----------------------------------------------------------------------------

\* Mutant: the DELETE of a rollback is not part of the transaction.
MigrationFails_KeepsDelete(m) ==
  /\ Migrating(m)
  /\ rows' = rows \ LockedBy(mig[m])
  /\ Finish(m, "error")
  /\ Unlock(m)
  /\ UNCHANGED <<req, original, given>>
  /\ Observe
  /\ Watch({m})

\* A statement of a merge or a rollback fails; an open transaction is rolled back.
MigrationFails(m) ==
  /\ Migrating(m)
  /\ Finish(m, "error")
  /\ Unlock(m)
  /\ UNCHANGED <<rows, req, seen, original, given, undisturbed>>

MigrationStep(m) ==
  \/ ReadSource(m)
  \/ ReadTarget(m)
  \/ Transfer(m)
  \/ ReadCurrent(m)
  \/ Restore(m)
  \/ Reinsert(m)
  \/ MigrationFails(m)

Init ==
  /\ TableInit
  /\ mig = [m \in Migrators |-> Idle]
  /\ original = [p \in MergePairs |-> {}]
  /\ given = [p \in MergePairs |-> {}]
  /\ undisturbed = [m \in Migrators |-> FALSE]

\* A request of the plain operations, seen from the migrations.
Assignment(w) ==
  /\ \/ \E op \in Ops, o \in Owners, S \in SUBSET Items : Arrive(w, op, o, S)
     \/ Step(w)
  /\ Watch({})
  /\ UNCHANGED <<mig, original, given>>

Next ==
  \/ \E w \in Workers : Assignment(w)
  \/ \E m \in Migrators :
       \/ \E p \in MergePairs : ArriveMerge(m, p) \/ ArriveRollback(m, p)
       \/ MigrationStep(m)

Spec == Init /\ [][Next]_vars

-----------------------------------------------------------------------------
(* Properties. *)

Commits(m, phase) ==
  MigAt(m, phase) /\ mig'[m].phase = "done" /\ mig'[m].reply = "ok"

ApartUsers(m) == mig[m].source # mig[m].target

TransferIsExact(m) ==
  LET s == mig[m].source
      t == mig[m].target
  IN Commits(m, "transfer") /\ undisturbed[m] /\ ApartUsers(m)
       => /\ ItemsIn(rows', t) = ItemsOf(s) \cup ItemsOf(t)
          /\ ItemsIn(rows', s) = {}

RestoreIsExact(m) ==
  LET s == mig[m].source
      t == mig[m].target
  IN Commits(m, "reinsert") /\ undisturbed[m] /\ ApartUsers(m)
       => /\ ItemsIn(rows', t) = ItemsOf(t) \ mig[m].ids
          /\ ItemsIn(rows', s) = ItemsOf(s) \cup (mig[m].ids \cap ItemsOf(t))

\* If nobody else changed the two users' rows between a merge's first SELECT and
\* its commit, the commit leaves the target with the roles of both users and the
\* source with none; a rollback then moves exactly the listed roles the target
\* has.  The lists the handlers hold may be arbitrarily old when they commit.
UndisturbedMigrationsAreExact ==
  [][\A m \in Migrators : TransferIsExact(m) /\ RestoreIsExact(m)]_vars

Stops(m, phase) == MigAt(m, phase) /\ mig'[m].phase = "done"

\* However stale its lists, a merge creates no assignment: a role its last step gives
\* the target is one it takes from the source in the same step, and it touches no
\* third user.
MergeOnlyMoves ==
  [][\A m \in Migrators : Stops(m, "transfer") =>
       \A o \in Owners, i \in Items :
         /\ <<o, i>> \in rows' \ rows
              => o = mig[m].target /\ <<mig[m].source, i>> \in rows \ rows'
         /\ <<o, i>> \in rows \ rows' => o = mig[m].source]_vars

\* A merge that writes takes from the source all it read there, and a rollback that
\* writes takes from the target all it listed and gives the source what it lacked.
TransfersWhole(m) ==
  /\ Stops(m, "transfer")
  /\ ApartUsers(m) => mig[m].sourceIds \cap ItemsIn(rows', mig[m].source) = {}

RestoresWhole(m) ==
  /\ Stops(m, "reinsert")
  /\ ApartUsers(m) => RolesToRestore(m) \cap ItemsIn(rows', mig[m].target) = {}
  /\ RolesToRestore(m) \ mig[m].sourceIds \subseteq ItemsIn(rows', mig[m].source)

\* The table changes only in the last step of some request and by all of it at once:
\* a merge, a rollback or an assignment that is answered with an error, after any
\* number of steps and in whatever transaction, has done all it meant to or nothing.
ChangesAreWhole ==
  [][rows' # rows =>
       \/ \E w \in Workers : WritesWhole(w)
       \/ \E m \in Migrators : TransfersWhole(m) \/ RestoresWhole(m)]_vars

-----------------------------------------------------------------------------
(* The abstract accounts.  Locks and histories are hidden, a transaction that has    *)
(* begun has done nothing yet, and an answered request means nothing more.           *)

MoveOf(g) ==
  IF g = Idle THEN [answer |-> "none"]
  ELSE IF g.phase = "done" THEN [answer |-> IF g.reply = "ok" THEN "done" ELSE "unknown"]
  ELSE [kind |-> IF g.phase \in {"readSource", "readTarget", "transfer"}
                 THEN "merge" ELSE "rollback",
        source |-> g.source, target |-> g.target, ids |-> g.ids,
        had |-> g.sourceIds, has |-> g.targetIds, answer |-> "pending"]

Accounts == INSTANCE AccountStore WITH
  asked <- [w \in Workers |-> CallOf(req[w])],
  moving <- [m \in Migrators |-> MoveOf(mig[m])]

\* Whatever interleaves and whatever fails: a merge or rollback, with its two SELECTs
\* and its transaction, has its whole effect at one instant or none, computed from what
\* the two users did hold at instants since it arrived, and each other request keeps
\* the promise of the abstract table although accounts are merged under it.
ImplementsAccounts == Accounts!AccountSpec

-----------------------------------------------------------------------------
(* What the code says of itself, and does not keep. *)

\* user-role.service.ts:360 "sourceUserId의 모든 역할을 targetUserId로 이전": a merge
\* hands roles over, so merges and rollbacks among themselves never leave a role
\* without any holder.
MigrationsLoseNoRole ==
  [][\A i \in Items : (\E o \in Owners : <<o, i>> \in rows)
                        => \E o \in Owners : <<o, i>> \in rows']_vars

\* user-role.service.ts:461 "target에 추가된 역할을 source로 되돌림": what a rollback
\* takes from the target is what a merge of the pair had added to it.
RollbackReturnsOnlyAdded ==
  [][\A m \in Migrators : Commits(m, "reinsert") =>
       \A i \in Items :
         <<mig[m].target, i>> \in rows \ rows'
           => i \in given[<<mig[m].source, mig[m].target>>]]_vars

\* user-role.service.ts:462 "sourceRoleIds 중 현재 target에 있는 역할만 되돌림": a role
\* the target does not have when the rollback commits is not given to the source.
RollbackRestoresOnlyHeld ==
  [][\A m \in Migrators : Commits(m, "reinsert") =>
       \A i \in Items :
         <<mig[m].source, i>> \in rows' \ rows => <<mig[m].target, i>> \in rows]_vars

=============================================================================
