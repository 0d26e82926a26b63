------------------------------ MODULE JoinTable ------------------------------
(****************************************************************************)
(* One assignment table of the authorization server and the request        *)
(* handlers that write it.  user_role, role_permission and                  *)
(* service_visible_role are the same code over different columns: a row is  *)
(* a pair (owner, item), the pair is the primary key, and a service offers  *)
(* assign, revoke, assign many, revoke many and replace.  The line numbers  *)
(* in the comments are those of user-role.service.ts.                       *)
(*                                                                          *)
(* Every handler runs until its next `await`, so one action below is one    *)
(* SQL statement (or one transaction) and what the handler does with its    *)
(* result.  A worker is one request in flight; requests of several          *)
(* processes and of several server instances interleave freely.             *)
(****************************************************************************)
CONSTANTS
  Owners,    \* users of user_role, roles of role_permission, ...
  Items,     \* roles of user_role, permissions of role_permission, ...
  Workers    \* requests that can be in flight at once

VARIABLES
  rows,      \* the table: a set of pairs <<owner, item>>
  locked,    \* keys held by a transaction that has not committed yet
  req,       \* req[w]: the request worker w serves, or the last one it answered
  seen       \* history: what the table showed worker w's request while it ran

tableVars == <<rows, locked, req, seen>>

Keys == Owners \X Items
Ops == {"assign", "revoke", "assignMultiple", "revokeMultiple", "replace"}
Phases == {"exists", "read", "save", "insert", "delete", "replace", "refill", "done"}
Replies == {"none", "ok", "nothingNew", "alreadyExists", "notFound", "error"}

\* new: the items the handler still means to insert; old: those its open transaction
\* has deleted.
Request == [op: Ops, owner: Owners, ids: SUBSET Items, new: SUBSET Items,
            old: SUBSET Items, phase: Phases, reply: Replies]
Idle == [phase |-> "idle"]

Sight == [held: SUBSET Items, lacked: SUBSET Items, exact: BOOLEAN]
Unseen == [held |-> {}, lacked |-> {}, exact |-> FALSE]

TableTypeOK ==
  /\ rows \subseteq Keys
  /\ locked \subseteq Keys
  /\ req \in [Workers -> Request \cup {Idle}]
  /\ seen \in [Workers -> Sight]

-----------------------------------------------------------------------------
(* What the statements see and touch. *)

Row(o, S) == {<<o, i>> : i \in S}

ItemsIn(table, o) == {i \in Items : <<o, i>> \in table}

\* getRoleIds: one SELECT over the committed rows.
ItemsOf(o) == ItemsIn(rows, o)

\* A write waits for the locks of an open transaction.
Free(keys) == keys \cap locked = {}

\* What the open transaction of a replacement holds: all keys of its owner, with a
\* row or without.
RangeOf(r) == IF r.phase = "refill" THEN Row(r.owner, Items) ELSE {}

Running(w) == req[w].phase \notin {"idle", "done"}

At(w, phase) == req[w].phase = phase

Answer(w, reply) ==
  req' = [req EXCEPT ![w].phase = "done", ![w].reply = reply]

\* The answer to a statement that committed.  When its acknowledgement is lost with
\* the connection, the handler knows only of an error.
AnswerCommitted(w, reply) == Answer(w, reply) \/ Answer(w, "error")

Goto(w, phase, new) ==
  req' = [req EXCEPT ![w].phase = phase, ![w].new = new]

\* The history of a request: which of its items its owner held, and which it
\* lacked, at some instant since it arrived, and whether the owner's items were
\* at some instant exactly the requested ones.
Glimpse(s, r, table) ==
  LET has == ItemsIn(table, r.owner)
  IN [held   |-> s.held \cup (r.ids \cap has),
      lacked |-> s.lacked \cup (r.ids \ has),
      exact  |-> s.exact \/ r.ids = has]

Observe ==
  seen' = [w \in Workers |-> IF Running(w) THEN Glimpse(seen[w], req[w], rows')
                                           ELSE seen[w]]

-----------------------------------------------------------------------------
(* The handlers. *)

FirstPhase(op) ==
  CASE op = "assign"         -> "exists"
    [] op = "assignMultiple" -> "read"
    [] op = "replace"        -> "replace"
    [] OTHER                 -> "delete"

Arrive(w, op, o, S) ==
  /\ ~Running(w)
  /\ op \in {"assign", "revoke"} => \E i \in Items : S = {i}
  /\ req' = [req EXCEPT ![w] = [op |-> op, owner |-> o, ids |-> S, new |-> S, old |-> {},
                                phase |-> FirstPhase(op), reply |-> "none"]]
  /\ seen' = [seen EXCEPT ![w] = Glimpse(Unseen, req'[w], rows)]
  /\ UNCHANGED <<rows, locked>>

\* Mutant: the existence query forgets the item.
CheckExists_AnyItem(w) ==
  /\ At(w, "exists")
  /\ IF ItemsOf(req[w].owner) # {}
     THEN Answer(w, "alreadyExists")
     ELSE Goto(w, "save", req[w].ids)
  /\ UNCHANGED <<rows, locked>>
  /\ Observe

\* assignUserRole, lines 131-139: the SELECT of exists().
CheckExists(w) ==
  /\ At(w, "exists")
  /\ IF req[w].ids \subseteq ItemsOf(req[w].owner)
     THEN Answer(w, "alreadyExists")
     ELSE Goto(w, "save", req[w].ids)
  /\ UNCHANGED <<rows, locked>>
  /\ Observe

\* assignMultipleRoles, lines 209-231: read the existing items, keep the others.
ReadExisting(w) ==
  LET new == req[w].ids \ ItemsOf(req[w].owner)
  IN /\ At(w, "read")
     /\ IF new = {} THEN Answer(w, "nothingNew") ELSE Goto(w, "save", new)
     /\ UNCHANGED <<rows, locked>>
     /\ Observe

\* repo.save, first half: TypeORM SELECTs the entities by primary key and
\* leaves out those it finds.  With none left it issues no INSERT.
SaveSelect(w) ==
  LET absent == req[w].new \ ItemsOf(req[w].owner)
  IN /\ At(w, "save")
     /\ IF absent = {} THEN Answer(w, "ok") ELSE Goto(w, "insert", absent)
     /\ UNCHANGED <<rows, locked>>
     /\ Observe

\* Mutant: rows are inserted one by one, outside a transaction.
SaveInsert_OneByOne(w) ==
  LET o == req[w].owner
      new == req[w].new
  IN /\ At(w, "insert")
     /\ Free(Row(o, new))
     /\ \E first \in SUBSET (new \ ItemsOf(o)) :
          /\ rows' = rows \cup Row(o, first)
          /\ Answer(w, IF first = new THEN "ok" ELSE "error")
     /\ UNCHANGED locked
     /\ Observe

\* Mutant: a duplicate key is taken to mean that nothing is left to do.
SaveInsert_Swallows(w) ==
  LET o == req[w].owner
      new == req[w].new
  IN /\ At(w, "insert")
     /\ Free(Row(o, new))
     /\ rows' = IF new \cap ItemsOf(o) = {} THEN rows \cup Row(o, new) ELSE rows
     /\ Answer(w, "ok")
     /\ UNCHANGED locked
     /\ Observe

\* repo.save, second half: one INSERT in a transaction.  A row that appeared
\* since the SELECT is a duplicate key, and then nothing is inserted.
SaveInsert(w) ==
  LET o == req[w].owner
      new == req[w].new
  IN /\ At(w, "insert")
     /\ Free(Row(o, new))
     /\ IF new \cap ItemsOf(o) = {}
        THEN /\ rows' = rows \cup Row(o, new)
             /\ AnswerCommitted(w, "ok")
        ELSE /\ rows' = rows
             /\ Answer(w, "error")
     /\ UNCHANGED locked
     /\ Observe

\* Mutant: the affected count is not looked at.
Delete_Unchecked(w) ==
  LET o == req[w].owner
  IN /\ At(w, "delete")
     /\ Free(Row(o, req[w].ids))
     /\ rows' = rows \ Row(o, req[w].ids)
     /\ Answer(w, "ok")
     /\ UNCHANGED locked
     /\ Observe

\* revokeUserRole and revokeMultipleRoles: one DELETE.  Only the first looks at
\* the number of rows it affected (line 174).
Delete(w) ==
  LET o == req[w].owner
      found == req[w].ids \cap ItemsOf(o)
  IN /\ At(w, "delete")
     /\ Free(Row(o, req[w].ids))
     /\ rows' = rows \ Row(o, req[w].ids)
     /\ AnswerCommitted(w, IF req[w].op = "revoke" /\ found = {} THEN "notFound" ELSE "ok")
     /\ UNCHANGED locked
     /\ Observe

\* Mutant: the DELETE locks the rows it finds and no gap between them, as it would
\* under READ COMMITTED.
ReplaceDelete_LocksRows(w) ==
  LET o == req[w].owner
  IN /\ At(w, "replace")
     /\ Free(Row(o, Items))
     /\ req' = [req EXCEPT ![w].phase = "refill", ![w].old = ItemsOf(o)]
     /\ locked' = locked \cup Row(o, ItemsOf(o))
     /\ UNCHANGED rows
     /\ Observe

\* replaceUserRoles, lines 308-310: the transaction DELETEs by owner.  Under REPEATABLE
\* READ that locks the owner's whole key range, gaps included; other requests go on
\* seeing the deleted rows until the commit.
ReplaceDelete(w) ==
  LET o == req[w].owner
  IN /\ At(w, "replace")
     /\ Free(Row(o, Items))
     /\ req' = [req EXCEPT ![w].phase = "refill", ![w].old = ItemsOf(o)]
     /\ locked' = locked \cup Row(o, Items)
     /\ UNCHANGED rows
     /\ Observe

\* Mutant: the two columns of the new rows are swapped.
ReplaceSave_Swapped(w) ==
  LET o == req[w].owner
  IN /\ At(w, "refill")
     /\ rows' = (rows \ Row(o, req[w].old)) \cup {<<i, o>> : i \in req[w].ids}
     /\ AnswerCommitted(w, "ok")
     /\ locked' = locked \ RangeOf(req[w])
     /\ Observe

\* Lines 312-323: save the new rows, unless the list is empty, and commit.  What is
\* gone is what the DELETE found, not what has come since.
ReplaceSave(w) ==
  LET o == req[w].owner
  IN /\ At(w, "refill")
     /\ rows' = (rows \ Row(o, req[w].old)) \cup Row(o, req[w].ids)
     /\ AnswerCommitted(w, "ok")
     /\ locked' = locked \ RangeOf(req[w])
     /\ Observe

\* A statement fails (connection lost, lock wait timeout, deadlock victim, a list
\* that names an item twice) or the server stops: the transaction is rolled back and
\* the client gets the catch block's exception or a broken connection.
StatementFails(w) ==
  /\ Running(w)
  /\ Answer(w, "error")
  /\ locked' = locked \ RangeOf(req[w])
  /\ UNCHANGED rows
  /\ Observe

Step(w) ==
  \/ CheckExists(w)
  \/ ReadExisting(w)
  \/ SaveSelect(w)
  \/ SaveInsert(w)
  \/ Delete(w)
  \/ ReplaceDelete(w)
  \/ ReplaceSave(w)
  \/ StatementFails(w)

TableInit ==
  /\ rows \in SUBSET Keys
  /\ locked = {}
  /\ req = [w \in Workers |-> Idle]
  /\ seen = [w \in Workers |-> Unseen]

TableNext ==
  \E w \in Workers :
    \/ \E op \in Ops, o \in Owners, S \in SUBSET Items : Arrive(w, op, o, S)
    \/ Step(w)

TableSpec == TableInit /\ [][TableNext]_tableVars

-----------------------------------------------------------------------------
(* Properties. *)

Asked(w, ops, replies) == req[w] # Idle /\ req[w].op \in ops /\ req[w].reply \in replies

\* A client that was told its items are assigned had every one of them assigned
\* at some instant between its request and the answer, although the answer rests
\* on two or three SELECTs that other requests interleave with.
GrantsWereTrue ==
  \A w \in Workers :
    Asked(w, {"assign", "assignMultiple"}, {"ok", "alreadyExists", "nothingNew"})
      => req[w].ids \subseteq seen[w].held

\* A revocation that answers "not found" ran when the row was missing; one that
\* succeeds saw the row there and left it removed.
RevocationsWereTrue ==
  \A w \in Workers :
    /\ Asked(w, {"revoke"}, {"notFound"}) => req[w].ids \subseteq seen[w].lacked
    /\ Asked(w, {"revoke"}, {"ok"})
         => req[w].ids \subseteq seen[w].held \cap seen[w].lacked
    /\ Asked(w, {"revokeMultiple"}, {"ok"}) => req[w].ids \subseteq seen[w].lacked

\* A replacement that succeeds left the owner, at one instant, with exactly the
\* requested items: no writer slips a row between its DELETE and its INSERT.
ReplacementsWereExact ==
  \A w \in Workers : Asked(w, {"replace"}, {"ok"}) => seen[w].exact

AnswersAreTrue == GrantsWereTrue /\ RevocationsWereTrue /\ ReplacementsWereExact

Ends(w) == Running(w) /\ req'[w].phase = "done" /\ req'[w].reply \in {"ok", "error"}

Grants(w, k) ==
  /\ req[w].op \in {"assign", "assignMultiple", "replace"}
  /\ k \in Row(req[w].owner, req[w].ids)

Removes(w, k) ==
  \/ req[w].op \in {"revoke", "revokeMultiple"} /\ k \in Row(req[w].owner, req[w].ids)
  \/ req[w].op = "replace" /\ k \in Row(req[w].owner, Items \ req[w].ids)

\* The step leaves done all that w's request still meant to do.
Whole(w) ==
  LET after == ItemsIn(rows', req[w].owner)
  IN CASE req[w].op \in {"assign", "assignMultiple"}  -> req[w].new \subseteq after
       [] req[w].op \in {"revoke", "revokeMultiple"} -> req[w].ids \cap after = {}
       [] req[w].op = "replace"                      -> req[w].ids = after

WritesWhole(w) ==
  /\ Ends(w) /\ Whole(w)
  /\ \A k \in rows' \ rows : Grants(w, k)
  /\ \A k \in rows \ rows' : Removes(w, k)

\* The table changes only in the last step of a request, in rows that request names,
\* and by all of it at once: after a refusal nothing has been written, and after an
\* error, whichever of the statements failed or lost its acknowledgement, all or
\* nothing.
WritesAreWhole == [][rows' # rows => \E w \in Workers : WritesWhole(w)]_tableVars

-----------------------------------------------------------------------------
(* The abstract table.  Locks and histories are hidden, a refusal that says the      *)
(* items are there already counts as done, and an answered call means nothing more.  *)

AnswerOf(reply) ==
  CASE reply = "none"     -> "pending"
    [] reply = "notFound" -> "missing"
    [] reply = "error"    -> "unknown"
    [] OTHER              -> "done"

CallOf(r) ==
  IF r = Idle THEN [answer |-> "none"]
  ELSE [op |-> r.op, owner |-> r.owner, ids |-> r.ids, answer |-> AnswerOf(r.reply),
        left |-> IF r.phase = "done" THEN {} ELSE r.new]

Store == INSTANCE AssignmentStore WITH asked <- [w \in Workers |-> CallOf(req[w])]

\* Every handler, with its two or three statements and whatever fails between them,
\* looks to the clients of the table like one step of the abstract table: a call that
\* answers has written everything at one instant, or found it written already, and a
\* call that fails may have written everything or nothing.
ImplementsStore == Store!Spec

=============================================================================
