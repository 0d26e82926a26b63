------------------------------- MODULE Catalog -------------------------------
(****************************************************************************)
(* The role table and the permission table: entries that administrators     *)
(* create, update and soft-delete, while the assignment table that refers   *)
(* to them changes underneath.  RoleService and PermissionService are the   *)
(* same code over different columns, so one table is modelled, and `kind`   *)
(* says which of the two it is.                                             *)
(*                                                                          *)
(* One service's entries are modelled: the duplicate check and the unique   *)
(* index both compare names (a permission's `action`) within a service.  An *)
(* action is one SQL statement and what the handler does with its result.   *)
(****************************************************************************)
CONSTANTS
  Ids,        \* ids of entries, existing and to come
  Names,      \* role names, permission actions
  Infos,      \* the columns nothing is compared with (description, priority)
  Owners,     \* who is assigned entries: users of roles, roles of permissions
  Admins,     \* management requests that can be in flight at once
  None        \* no entry, or a field the request leaves out

VARIABLES
  kind,       \* "role" or "permission"
  entry,      \* entry[i]: the row of id i, or None
  rows,       \* the assignment table: pairs <<owner, id>>
  call,       \* call[a]: the request a serves, or the last one it answered
  grounds,    \* history: the refusals that were true of a's request at some instant
  moved       \* history: whether what a's request relies on has changed since it read it

vars == <<kind, entry, rows, call, grounds, moved>>

Entry == [name: Names, info: Infos, deleted: BOOLEAN]

ASSUME NoneIsNoValue == None \notin Names \cup Infos \cup Entry

Refusals == {"alreadyExists", "notFound", "inUse"}
Replies == Refusals \cup {"none", "ok", "error"}

\* name and info are those of the request's DTO; copy is the entity the handler holds.
Call == [op: {"create", "update", "delete"}, id: Ids,
         name: Names \cup {None}, info: Infos \cup {None}, copy: Entry \cup {None},
         phase: {"find", "duplicate", "holders", "write"}]

\* All that is left of a request is its answer.
Done(reply) == [phase |-> "done", reply |-> reply]

TypeOK ==
  /\ kind \in {"role", "permission"}
  /\ entry \in [Ids -> Entry \cup {None}]
  /\ rows \subseteq Owners \X Ids
  /\ call \in [Admins -> Call \cup {Done(reply) : reply \in Replies}]
  /\ grounds \in [Admins -> SUBSET Refusals]
  /\ moved \in [Admins -> BOOLEAN]

-----------------------------------------------------------------------------
(* What the statements see. *)

\* findOne and findOneById leave out soft-deleted rows.
Live(e) == e # None /\ ~e.deleted

\* The duplicate check.
NameInUse(table, name, i) ==
  \E j \in Ids \ {i} : Live(table[j]) /\ table[j].name = name

\* Mutant: nothing in the database keeps names apart.
Indexed_ByNothing(name, i) == FALSE

\* The unique index over name and service has the soft-deleted rows in it.
Indexed(name, i) == \E j \in Ids \ {i} : entry[j] # None /\ entry[j].name = name

\* hasUsersForRole; for a permission, the length of what getRoleIds returns.
Assigned(table, i) == \E o \in Owners : <<o, i>> \in table

Running(a) == call[a].phase # "done"

At(a, op, phase) == Running(a) /\ call[a].op = op /\ call[a].phase = phase

\* The request r, about to make another statement.
Asks(r, phase, copy) ==
  [op |-> r.op, id |-> r.id, name |-> r.name, info |-> r.info, copy |-> copy, phase |-> phase]

Goto(a, phase, copy) == call' = [call EXCEPT ![a] = Asks(call[a], phase, copy)]

Answer(a, reply) == call' = [call EXCEPT ![a] = Done(reply)]

\* Mutant: a column the request leaves out is cleared.
Assign_Clears(e, r) == [name |-> r.name, info |-> r.info, deleted |-> e.deleted]

\* Object.assign(entity, dto).
Assign(e, r) ==
  [name |-> IF r.name = None THEN e.name ELSE r.name,
   info |-> IF r.info = None THEN e.info ELSE r.info,
   deleted |-> e.deleted]

-----------------------------------------------------------------------------
(* The history. *)

True(why, r, entries, assigned) ==
  CASE why = "alreadyExists" -> r.name # None /\ NameInUse(entries, r.name, r.id)
    [] why = "notFound"      -> ~Live(entries[r.id])
    [] why = "inUse"         -> Assigned(assigned, r.id)

\* What a's request read has changed: the entity an update holds, the assignments
\* a deletion found missing.
Stale(r) ==
  \/ r.op = "update" /\ r.copy # None /\ entry'[r.id] # entry[r.id]
  \/ r.op = "delete" /\ r.phase = "write" /\ Assigned(rows', r.id)

Observe ==
  /\ grounds' = [a \in Admins |->
       IF ~Running(a) THEN grounds[a]
       ELSE LET now == grounds[a] \cup {why \in Refusals : True(why, call[a], entry', rows')}
            IN IF Running(a)' THEN now ELSE now \cap {call'[a].reply}]
  /\ moved' = [a \in Admins |-> Running(a)' /\ (moved[a] \/ Stale(call[a]))]

-----------------------------------------------------------------------------
(* The handlers. *)

Arrive(a, r) ==
  /\ ~Running(a)
  /\ call' = [call EXCEPT ![a] = r]
  /\ grounds' = [grounds EXCEPT ![a] = {why \in Refusals : True(why, r, entry, rows)}]
  /\ UNCHANGED <<kind, entry, rows, moved>>

Request(op, i, name, info, phase) ==
  [op |-> op, id |-> i, name |-> name, info |-> info, copy |-> None, phase |-> phase]

\* The database gives a new entry an id nobody has; Ids bounds how many there can be.
ArriveCreate(a) ==
  \E i \in Ids, name \in Names, info \in Infos :
    /\ entry[i] = None
    /\ \A b \in Admins : Running(b) => call[b].id # i
    /\ Arrive(a, Request("create", i, name, info, "duplicate"))

ArriveUpdate(a) ==
  \E i \in Ids, name \in Names \cup {None}, info \in Infos \cup {None} :
    Arrive(a, Request("update", i, name, info, "find"))

ArriveDelete(a) ==
  \E i \in Ids : Arrive(a, Request("delete", i, None, None, "find"))

\* createRole: the duplicate check before an INSERT.
CheckNewName(a) ==
  /\ At(a, "create", "duplicate")
  /\ IF NameInUse(entry, call[a].name, call[a].id)
     THEN Answer(a, "alreadyExists")
     ELSE Goto(a, "write", None)
  /\ UNCHANGED <<kind, entry, rows>>
  /\ Observe

\* saveEntity: an INSERT, which a name in the index refuses.
Insert(a) ==
  LET r == call[a]
  IN /\ At(a, "create", "write")
     /\ IF Indexed(r.name, r.id)
        THEN entry' = entry /\ Answer(a, "error")
        ELSE /\ entry' = [entry EXCEPT ![r.id] =
                            [name |-> r.name, info |-> r.info, deleted |-> FALSE]]
             /\ Answer(a, "ok") \/ Answer(a, "error")
     /\ UNCHANGED <<kind, rows>>
     /\ Observe

\* Mutant: soft-deleted rows are found too.
FindToUpdate_Deleted(a) ==
  LET found == entry[call[a].id]
  IN /\ At(a, "update", "find")
     /\ IF found = None THEN Answer(a, "notFound") ELSE Goto(a, "duplicate", found)
     /\ UNCHANGED <<kind, entry, rows>>
     /\ Observe

\* updateRole: the entity is read; a new name is checked next.
FindToUpdate(a) ==
  LET found == entry[call[a].id]
      renames == call[a].name \notin {None, found.name}
  IN /\ At(a, "update", "find")
     /\ IF ~Live(found) THEN Answer(a, "notFound")
        ELSE Goto(a, IF renames THEN "duplicate" ELSE "write", found)
     /\ UNCHANGED <<kind, entry, rows>>
     /\ Observe

\* Mutant: the check sees soft-deleted rows.
CheckName_Deleted(a) ==
  /\ At(a, "update", "duplicate")
  /\ IF Indexed(call[a].name, call[a].id)
     THEN Answer(a, "alreadyExists")
     ELSE Goto(a, "write", call[a].copy)
  /\ UNCHANGED <<kind, entry, rows>>
  /\ Observe

\* updateRole: the duplicate check, the entry itself left out.
CheckName(a) ==
  /\ At(a, "update", "duplicate")
  /\ IF NameInUse(entry, call[a].name, call[a].id)
     THEN Answer(a, "alreadyExists")
     ELSE Goto(a, "write", call[a].copy)
  /\ UNCHANGED <<kind, entry, rows>>
  /\ Observe

\* updateEntity: an UPDATE of the columns of the copy, changed as the request asks.
\* The copy was live when it was read, so if deletedAt is among the columns the row is
\* live again, whatever happened to it meanwhile.
UpdateEntity(a) ==
  LET r == call[a]
      new == Assign(r.copy, r)
  IN /\ At(a, "update", "write")
     /\ IF Indexed(new.name, r.id)
        THEN entry' = entry /\ Answer(a, "error")
        ELSE /\ \E deleted \in {FALSE, entry[r.id].deleted} :
                  entry' = [entry EXCEPT ![r.id] = [new EXCEPT !.deleted = deleted]]
             /\ Answer(a, "ok") \/ Answer(a, "error")
     /\ UNCHANGED <<kind, rows>>
     /\ Observe

\* deleteRole: findByIdOrFail.
FindToDelete(a) ==
  /\ At(a, "delete", "find")
  /\ IF Live(entry[call[a].id]) THEN Goto(a, "holders", None) ELSE Answer(a, "notFound")
  /\ UNCHANGED <<kind, entry, rows>>
  /\ Observe

\* Mutant: nobody looks at the assignments.
CheckHolders_Never(a) ==
  /\ At(a, "delete", "holders")
  /\ Goto(a, "write", None)
  /\ UNCHANGED <<kind, entry, rows>>
  /\ Observe

\* deleteRole: is anybody assigned the entry?
CheckHolders(a) ==
  /\ At(a, "delete", "holders")
  /\ IF Assigned(rows, call[a].id) THEN Answer(a, "inUse") ELSE Goto(a, "write", None)
  /\ UNCHANGED <<kind, entry, rows>>
  /\ Observe

\* softDelete: an UPDATE of deletedAt by id, which no condition holds back.
SoftDelete(a) ==
  /\ At(a, "delete", "write")
  /\ entry' = [entry EXCEPT ![call[a].id].deleted = TRUE]
  /\ Answer(a, "ok") \/ Answer(a, "error")
  /\ UNCHANGED <<kind, rows>>
  /\ Observe

\* A statement fails, or the server stops: nothing is written.
StatementFails(a, op) ==
  /\ Running(a) /\ call[a].op = op
  /\ Answer(a, "error")
  /\ UNCHANGED <<kind, entry, rows>>
  /\ Observe

\* One commit of the assignment table, as AssignmentStore describes them: some owner
\* holds other entries than before.  Nothing there looks at the entries.
AssignmentsChange ==
  /\ \E o \in Owners, S \in SUBSET Ids :
       rows' = {k \in rows : k[1] # o} \cup {<<o, i>> : i \in S}
  /\ UNCHANGED <<kind, entry, call>>
  /\ Observe

-----------------------------------------------------------------------------
(* RoleService and PermissionService. *)

Create(a) == ArriveCreate(a) \/ CheckNewName(a) \/ Insert(a) \/ StatementFails(a, "create")

Update(a) ==
  ArriveUpdate(a) \/ FindToUpdate(a) \/ CheckName(a) \/ UpdateEntity(a) \/ StatementFails(a, "update")

Delete(a) ==
  ArriveDelete(a) \/ FindToDelete(a) \/ CheckHolders(a) \/ SoftDelete(a) \/ StatementFails(a, "delete")

createRole(a) == kind = "role" /\ Create(a)
updateRole(a) == kind = "role" /\ Update(a)
deleteRole(a) == kind = "role" /\ Delete(a)

createPermission(a) == kind = "permission" /\ Create(a)
updatePermission(a) == kind = "permission" /\ Update(a)
deletePermission(a) == kind = "permission" /\ Delete(a)

\* No two rows, live or deleted, have the same name, although the duplicate checks see
\* live rows only and another request can take the name after the check.
NamesUnique ==
  \A i, j \in Ids : i # j /\ entry[i] # None /\ entry[j] # None => entry[i].name # entry[j].name

Init ==
  /\ kind \in {"role", "permission"}
  /\ entry \in [Ids -> Entry \cup {None}] /\ NamesUnique
  /\ rows \in SUBSET (Owners \X Ids)
  /\ call = [a \in Admins |-> Done("none")]
  /\ grounds = [a \in Admins |-> {}]
  /\ moved = [a \in Admins |-> FALSE]

Next ==
  \/ \E a \in Admins :
       \/ createRole(a) \/ updateRole(a) \/ deleteRole(a)
       \/ createPermission(a) \/ updatePermission(a) \/ deletePermission(a)
  \/ AssignmentsChange

Spec == Init /\ [][Next]_vars

-----------------------------------------------------------------------------
(* Properties. *)

\* A refusal was justified at some instant of the request: a live entry had the name,
\* the entry was not there, somebody was assigned it.
RefusalsWereTrue ==
  \A a \in Admins :
    ~Running(a) /\ call[a].reply \in Refusals => call[a].reply \in grounds[a]

\* The last statement of a's request, for entry i, commits.  An update that nothing
\* overtook since its read changes the columns it names and no other; one that was
\* overtaken may undo what overtook it, a deletion included.
Writes(a, i) ==
  LET r == call[a]
  IN /\ Running(a) /\ r.id = i /\ r.phase = "write" /\ ~Running(a)'
     /\ CASE r.op = "create" -> entry[r.id] = None /\ Live(entry'[r.id])
          [] r.op = "update" -> moved[a] \/ entry'[r.id] = Assign(entry[r.id], r)
          [] r.op = "delete" -> entry'[r.id] = [entry[r.id] EXCEPT !.deleted = TRUE]

\* An entry changes only in the last step of a request for it, and exactly as the
\* request says unless the handler's copy was stale: no update is lost and no
\* deleted entry comes back except in that race.
WritesAreExact ==
  [][\A i \in Ids : entry'[i] # entry[i] => \E a \in Admins : Writes(a, i)]_vars

\* An entry that somebody is assigned is deleted only if the assignment was committed
\* after the handler had looked for one.
AssignedAreKept ==
  [][\A i \in Ids :
       Live(entry[i]) /\ ~Live(entry'[i]) /\ Assigned(rows, i)
         => \E a \in Admins : Writes(a, i) /\ moved[a]]_vars

=============================================================================
