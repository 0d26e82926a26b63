--------------------------- MODULE JoinTableProofs ---------------------------
(****************************************************************************)
(* What the handlers of an assignment table guarantee for every number of   *)
(* owners, items and requests: the table keeps its type, every answer is    *)
(* true of some instant at which its request ran, and the table implements  *)
(* AssignmentStore.                                                         *)
(****************************************************************************)
EXTENDS JoinTable, TLAPS

\* Which operation is at which point, and what it still means to insert.
PhaseFits(r) ==
  /\ r.new \subseteq r.ids
  /\ r.phase = "exists" => r.op = "assign"
  /\ r.phase = "read" => r.op = "assignMultiple"
  /\ r.phase \in {"save", "insert"} => r.op \in {"assign", "assignMultiple"}
  /\ r.phase = "delete" => r.op \in {"revoke", "revokeMultiple"}
  /\ r.phase \in {"replace", "refill"} => r.op = "replace"
  /\ r.op = "revoke" => \E i \in Items : r.ids = {i}

\* The items a request no longer means to insert were assigned when it dropped
\* them: AnswersAreTrue alone says nothing of a handler that is half way.
DroppedWereHeld(w) ==
  req[w].phase \in {"save", "insert"} => req[w].ids \ req[w].new \subseteq seen[w].held

\* The history is that of the request being served: the table as it is now is in it.
SeesNow(w) ==
  Running(w) =>
    /\ req[w].ids \cap ItemsOf(req[w].owner) \subseteq seen[w].held
    /\ req[w].ids \ ItemsOf(req[w].owner) \subseteq seen[w].lacked
    /\ req[w].ids = ItemsOf(req[w].owner) => seen[w].exact

WorkerInv(w) ==
  req[w] # Idle => PhaseFits(req[w]) /\ DroppedWereHeld(w) /\ SeesNow(w)

\* Between the two statements of a replacement its owner's keys are locked, and the
\* owner's committed rows are still those the DELETE found.
RangeIsHeld(w) ==
  /\ RangeOf(req[w]) \subseteq locked
  /\ At(w, "refill") => req[w].old = ItemsOf(req[w].owner)

\* No two open transactions hold a key both: what one releases at its end is its own.
LockInv ==
  /\ \A w \in Workers : RangeIsHeld(w)
  /\ \A w, v \in Workers : w # v => RangeOf(req[w]) \cap RangeOf(req[v]) = {}

TableInv ==
  /\ TableTypeOK
  /\ \A w \in Workers : WorkerInv(w)
  /\ LockInv
  /\ AnswersAreTrue

\* AnswersAreTrue for one request: an operation, its items, its reply, its history.
Truthful(op, ids, reply, s) ==
  /\ op \in {"assign", "assignMultiple"} /\ reply \in {"ok", "alreadyExists", "nothingNew"}
       => ids \subseteq s.held
  /\ op = "revoke" /\ reply = "notFound" => ids \subseteq s.lacked
  /\ op = "revoke" /\ reply = "ok" => ids \subseteq s.held \cap s.lacked
  /\ op = "revokeMultiple" /\ reply = "ok" => ids \subseteq s.lacked
  /\ op = "replace" /\ reply = "ok" => s.exact

AnswerTrue(w) ==
  req[w] # Idle => Truthful(req[w].op, req[w].ids, req[w].reply, seen[w])

-----------------------------------------------------------------------------

LEMMA AnswersPerWorker == AnswersAreTrue <=> \A w \in Workers : AnswerTrue(w)
BY DEF AnswersAreTrue, GrantsWereTrue, RevocationsWereTrue, ReplacementsWereExact,
       AnswerTrue, Truthful, Asked

\* A glimpse of a table adds to a history what the table shows, and forgets nothing.
LEMMA GlimpseGrows ==
  ASSUME NEW s \in Sight, NEW r \in Request, NEW table
  PROVE  LET g == Glimpse(s, r, table)
             has == ItemsIn(table, r.owner)
         IN /\ g \in Sight
            /\ s.held \subseteq g.held /\ s.lacked \subseteq g.lacked
            /\ s.exact => g.exact
            /\ r.ids \cap has \subseteq g.held
            /\ r.ids \ has \subseteq g.lacked
            /\ r.ids = has => g.exact
BY DEF Glimpse, Sight, Request, ItemsIn

LEMMA IdleIsNoRequest == Idle.phase = "idle" /\ \A r \in Request : r.phase # "idle" /\ r # Idle
BY DEF Idle, Request, Phases

\* What a step that observes the table leaves in the history of a worker.
LEMMA ObserveGrows ==
  ASSUME TableTypeOK, Observe, NEW w \in Workers
  PROVE  /\ seen'[w] \in Sight
         /\ ~Running(w) => seen'[w] = seen[w]
         /\ seen[w].held \subseteq seen'[w].held
         /\ seen[w].lacked \subseteq seen'[w].lacked
         /\ seen[w].exact => seen'[w].exact
         /\ Running(w) =>
              /\ req[w].ids \cap ItemsIn(rows', req[w].owner) \subseteq seen'[w].held
              /\ req[w].ids \ ItemsIn(rows', req[w].owner) \subseteq seen'[w].lacked
              /\ req[w].ids = ItemsIn(rows', req[w].owner) => seen'[w].exact
<1>1. seen[w] \in Sight
  BY DEF TableTypeOK
<1>2. CASE Running(w)
  <2>1. req[w] \in Request
    BY <1>2, IdleIsNoRequest DEF TableTypeOK, Running
  <2>2. seen'[w] = Glimpse(seen[w], req[w], rows')
    BY <1>2 DEF Observe
  <2>3. QED
    BY <1>1, <1>2, <2>1, <2>2, GlimpseGrows
<1>3. CASE ~Running(w)
  <2>1. seen'[w] = seen[w]
    BY <1>3 DEF Observe
  <2>2. QED
    BY <1>1, <1>3, <2>1
<1>4. QED
  BY <1>2, <1>3

LEMMA ObserveIsFunction ==
  ASSUME TableTypeOK, Observe
  PROVE  seen' \in [Workers -> Sight]
BY ObserveGrows DEF Observe

\* A worker whose request does not move keeps its part of the invariant, whatever
\* another request writes, as long as the step is observed.
LEMMA OthersKeep ==
  ASSUME TableInv, Observe, NEW v \in Workers, req'[v] = req[v]
  PROVE  WorkerInv(v)' /\ AnswerTrue(v)'
<1>1. TableTypeOK /\ WorkerInv(v) /\ AnswerTrue(v)
  BY AnswersPerWorker DEF TableInv
<1>2. (Idle = Idle)' /\ (Running(v)' <=> Running(v))
  BY DEF Running
<1>3. WorkerInv(v)'
  <2> SUFFICES ASSUME req[v] # Idle
               PROVE  PhaseFits(req[v]) /\ DroppedWereHeld(v)' /\ SeesNow(v)'
    BY DEF WorkerInv
  <2>1. PhaseFits(req[v]) /\ DroppedWereHeld(v)'
    BY <1>1, ObserveGrows DEF WorkerInv, DroppedWereHeld
  <2>2. SeesNow(v)'
    BY <1>1, <1>2, ObserveGrows DEF SeesNow, ItemsOf
  <2>3. QED
    BY <2>1, <2>2
<1>4. AnswerTrue(v)'
  BY <1>1, ObserveGrows DEF AnswerTrue, Truthful
<1>5. QED
  BY <1>3, <1>4

-----------------------------------------------------------------------------
(* The locks of a replacement. *)

Touched == (rows' \ rows) \cup (rows \ rows')

\* The step writes nothing in the range v's open transaction holds.
Spares(v) == Touched \cap RangeOf(req[v]) = {}

LEMMA SparedRowsStay ==
  ASSUME NEW v \in Workers, At(v, "refill"), Spares(v)
  PROVE  ItemsIn(rows', req[v].owner) = ItemsOf(req[v].owner)
<1>1. ASSUME NEW i \in Items
      PROVE  <<req[v].owner, i>> \in rows' <=> <<req[v].owner, i>> \in rows
  BY DEF Spares, Touched, RangeOf, Row, At
<1>2. QED
  BY <1>1 DEF ItemsOf, ItemsIn

LEMMA UnwrittenIsSpared == rows' = rows => \A v \in Workers : Spares(v)
BY DEF Spares, Touched

\* A request that has no transaction open holds no key.
LEMMA HoldsNothing ==
  ASSUME NEW w \in Workers, req[w].phase # "refill"
  PROVE  locked = locked \ RangeOf(req[w])
BY DEF RangeOf

\* A write that waited for its keys touches no range another transaction holds.
LEMMA FreeKeysSpare ==
  ASSUME LockInv, NEW v \in Workers, NEW keys, Free(keys), Touched \subseteq keys
  PROVE  Spares(v)
BY DEF LockInv, RangeIsHeld, Free, Spares

\* The end of w's transaction, or a step of a request that has none.
LEMMA ReleaseKeepsLocks ==
  ASSUME TableTypeOK, LockInv, NEW w \in Workers, NEW r, req' = [req EXCEPT ![w] = r],
         r.phase # "refill", locked' = locked \ RangeOf(req[w]),
         \A v \in Workers : v # w => Spares(v)
  PROVE  LockInv'
<1>1. req'[w] = r /\ RangeOf(r) = {}
  BY DEF TableTypeOK, RangeOf
<1>2. \A v \in Workers : v # w => req'[v] = req[v]
  BY DEF TableTypeOK
<1>3. ASSUME NEW v \in Workers
      PROVE  RangeIsHeld(v)'
  <2>1. CASE v = w
    BY <1>1, <2>1 DEF RangeIsHeld, At
  <2>2. CASE v # w
    <3>1. RangeOf(req'[v]) \subseteq locked'
      BY <1>2, <2>2 DEF LockInv, RangeIsHeld
    <3>2. At(v, "refill") => req[v].old = ItemsIn(rows', req[v].owner)
      BY <2>2, SparedRowsStay DEF LockInv, RangeIsHeld
    <3>3. QED
      BY <1>2, <2>2, <3>1, <3>2 DEF RangeIsHeld, At, ItemsOf
  <2>3. QED
    BY <2>1, <2>2
<1>4. ASSUME NEW u \in Workers, NEW v \in Workers, u # v
      PROVE  RangeOf(req'[u]) \cap RangeOf(req'[v]) = {}
  BY <1>1, <1>2, <1>4 DEF LockInv
<1>5. QED
  BY <1>3, <1>4 DEF LockInv

-----------------------------------------------------------------------------
(* One lemma for what all steps of a handler have in common, one per action    *)
(* for the worker that moves.                                                  *)

\* A step of w that keeps the shape of its request, and answers truthfully,
\* preserves the invariant: the other workers keep theirs by OthersKeep.
LEMMA StepKeepsInv ==
  ASSUME TableInv, Observe, NEW w \in Workers, Running(w),
         rows' \subseteq Keys, locked' \subseteq Keys,
         NEW r \in Request, req' = [req EXCEPT ![w] = r],
         r.owner = req[w].owner, r.ids = req[w].ids, PhaseFits(r),
         DroppedWereHeld(w)', AnswerTrue(w)', LockInv'
  PROVE  TableInv'
<1>1. TableTypeOK'
  BY ObserveIsFunction DEF TableInv, TableTypeOK
<1>2. \A v \in Workers : WorkerInv(v)' /\ AnswerTrue(v)'
  <2> TAKE v \in Workers
  <2>1. CASE v # w
    BY <2>1, OthersKeep
  <2>2. CASE v = w
    <3>1. req'[w] = r
      BY DEF TableInv, TableTypeOK
    <3>2. SeesNow(w)'
      BY <3>1, ObserveGrows DEF SeesNow, ItemsOf, TableInv
    <3>3. QED
      BY <2>2, <3>1, <3>2 DEF WorkerInv
  <2>3. QED
    BY <2>1, <2>2
<1>3. QED
  BY <1>1, <1>2, AnswersPerWorker DEF TableInv, AnswersAreTrue, AnswerTrue,
     GrantsWereTrue, RevocationsWereTrue, ReplacementsWereExact, Truthful, Asked

\* What a running worker's request is, from the invariant.
LEMMA RunningRequest ==
  ASSUME TableInv, NEW w \in Workers, Running(w)
  PROVE  /\ req[w] \in Request /\ req[w] # Idle
         /\ PhaseFits(req[w]) /\ DroppedWereHeld(w) /\ SeesNow(w)
<1>1. req[w] \in Request /\ req[w] # Idle
  BY IdleIsNoRequest DEF TableInv, TableTypeOK, Running
<1>2. QED
  BY <1>1 DEF TableInv, WorkerInv

LEMMA AnswerKeepsInv ==
  ASSUME TableInv, Observe, NEW w \in Workers, Running(w),
         rows' \subseteq Keys, locked' = locked \ RangeOf(req[w]),
         \A v \in Workers : v # w => Spares(v),
         NEW reply \in Replies, Answer(w, reply),
         Truthful(req[w].op, req[w].ids, reply, seen'[w])
  PROVE  TableInv'
<1> DEFINE r == [req[w] EXCEPT !.phase = "done", !.reply = reply]
<1>1. req' = [req EXCEPT ![w] = r] /\ req'[w] = r
  BY DEF Answer, TableInv, TableTypeOK
<1>2. req[w] \in Request /\ PhaseFits(req[w])
  BY RunningRequest
<1>3. /\ r \in Request /\ r.phase = "done" /\ PhaseFits(r) /\ r.reply = reply
      /\ r.owner = req[w].owner /\ r.ids = req[w].ids /\ r.op = req[w].op
  BY <1>2 DEF Request, Phases, PhaseFits
<1>4. DroppedWereHeld(w)' /\ AnswerTrue(w)'
  BY <1>1, <1>3 DEF DroppedWereHeld, AnswerTrue
<1>5. LockInv' /\ locked' \subseteq Keys
  BY <1>1, <1>3, ReleaseKeepsLocks DEF TableInv, TableTypeOK
<1>6. QED
  BY <1>1, <1>3, <1>4, <1>5, StepKeepsInv

\* An error claims nothing, so the answer to a committed statement is no worse when
\* its acknowledgement is lost.
LEMMA AnswerCommittedKeepsInv ==
  ASSUME TableInv, Observe, NEW w \in Workers, Running(w),
         rows' \subseteq Keys, locked' = locked \ RangeOf(req[w]),
         \A v \in Workers : v # w => Spares(v),
         NEW reply \in Replies, AnswerCommitted(w, reply),
         Truthful(req[w].op, req[w].ids, reply, seen'[w])
  PROVE  TableInv'
<1>1. Truthful(req[w].op, req[w].ids, "error", seen'[w]) /\ "error" \in Replies
  BY DEF Truthful, Replies
<1>2. QED
  BY <1>1, AnswerKeepsInv DEF AnswerCommitted

LEMMA GotoKeepsInv ==
  ASSUME TableInv, Observe, NEW w \in Workers, Running(w),
         rows' = rows, locked' = locked \ RangeOf(req[w]),
         NEW phase \in {"save", "insert"}, NEW new \in SUBSET Items, Goto(w, phase, new),
         new \subseteq req[w].ids,
         req[w].op \in {"assign", "assignMultiple"},
         req[w].ids \ new \subseteq seen'[w].held
  PROVE  TableInv'
<1> DEFINE r == [req[w] EXCEPT !.phase = phase, !.new = new]
<1>1. req' = [req EXCEPT ![w] = r] /\ req'[w] = r
  BY DEF Goto, TableInv, TableTypeOK
<1>2. req[w] \in Request /\ req[w] # Idle /\ PhaseFits(req[w]) /\ AnswerTrue(w)
  BY RunningRequest, AnswersPerWorker DEF TableInv
<1>3. /\ r \in Request /\ PhaseFits(r) /\ r.new = new /\ r.reply = req[w].reply
      /\ r.phase # "refill" /\ r.owner = req[w].owner /\ r.ids = req[w].ids /\ r.op = req[w].op
  BY <1>2 DEF Request, Phases, PhaseFits
<1>4. AnswerTrue(w)'
  BY <1>1, <1>2, <1>3, ObserveGrows DEF AnswerTrue, Truthful, TableInv
<1>5. DroppedWereHeld(w)'
  BY <1>1, <1>3 DEF DroppedWereHeld
<1>6. LockInv'
  BY <1>1, <1>3, ReleaseKeepsLocks, UnwrittenIsSpared DEF TableInv
<1>7. rows' \subseteq Keys /\ locked' \subseteq Keys
  BY DEF TableInv, TableTypeOK
<1>8. QED
  BY <1>1, <1>3, <1>4, <1>5, <1>6, <1>7, StepKeepsInv

LEMMA CheckExistsKeepsInv ==
  ASSUME TableInv, NEW w \in Workers, CheckExists(w)
  PROVE  TableInv'
<1>1. Running(w) /\ rows' = rows /\ locked' = locked \ RangeOf(req[w]) /\ Observe
      /\ req[w].phase = "exists"
  BY HoldsNothing DEF CheckExists, At, Running
<1>2. req[w] \in Request /\ SeesNow(w) /\ req[w].op = "assign"
  BY <1>1, RunningRequest DEF PhaseFits
<1>3. rows' \subseteq Keys /\ TableTypeOK /\ \A v \in Workers : Spares(v)
  BY <1>1, UnwrittenIsSpared DEF TableInv, TableTypeOK
<1>4. CASE req[w].ids \subseteq ItemsOf(req[w].owner)
  <2>1. req[w].ids \subseteq seen'[w].held
    BY <1>1, <1>2, <1>3, <1>4, ObserveGrows DEF SeesNow
  <2>2. Truthful(req[w].op, req[w].ids, "alreadyExists", seen'[w])
    BY <1>2, <2>1 DEF Truthful
  <2>3. Answer(w, "alreadyExists") /\ "alreadyExists" \in Replies
    BY <1>4 DEF CheckExists, Replies
  <2>4. QED
    BY <1>1, <1>3, <2>2, <2>3, AnswerKeepsInv
<1>5. CASE ~(req[w].ids \subseteq ItemsOf(req[w].owner))
  <2>1. Goto(w, "save", req[w].ids) /\ req[w].ids \in SUBSET Items
    BY <1>2, <1>5 DEF CheckExists, Request
  <2>2. req[w].ids \ req[w].ids \subseteq seen'[w].held
    OBVIOUS
  <2>3. QED
    BY <1>1, <1>2, <1>3, <2>1, <2>2, GotoKeepsInv
<1>6. QED
  BY <1>4, <1>5

LEMMA ReadExistingKeepsInv ==
  ASSUME TableInv, NEW w \in Workers, ReadExisting(w)
  PROVE  TableInv'
<1> DEFINE new == req[w].ids \ ItemsOf(req[w].owner)
<1>1. Running(w) /\ rows' = rows /\ locked' = locked \ RangeOf(req[w]) /\ Observe
      /\ req[w].phase = "read"
  BY HoldsNothing DEF ReadExisting, At, Running
<1>2. req[w] \in Request /\ SeesNow(w) /\ req[w].op = "assignMultiple"
  BY <1>1, RunningRequest DEF PhaseFits
<1>3. rows' \subseteq Keys /\ TableTypeOK /\ \A v \in Workers : Spares(v)
  BY <1>1, UnwrittenIsSpared DEF TableInv, TableTypeOK
<1>4. req[w].ids \ new \subseteq seen'[w].held
  BY <1>1, <1>2, <1>3, ObserveGrows DEF SeesNow
<1>5. CASE new = {}
  <2>1. Truthful(req[w].op, req[w].ids, "nothingNew", seen'[w])
    BY <1>2, <1>4, <1>5 DEF Truthful
  <2>2. Answer(w, "nothingNew") /\ "nothingNew" \in Replies
    BY <1>5 DEF ReadExisting, Replies
  <2>3. QED
    BY <1>1, <1>3, <2>1, <2>2, AnswerKeepsInv
<1>6. CASE new # {}
  <2>1. Goto(w, "save", new) /\ new \in SUBSET Items
    BY <1>2, <1>6 DEF ReadExisting, Request
  <2>2. QED
    BY <1>1, <1>2, <1>3, <1>4, <2>1, GotoKeepsInv
<1>7. QED
  BY <1>5, <1>6

LEMMA SaveSelectKeepsInv ==
  ASSUME TableInv, NEW w \in Workers, SaveSelect(w)
  PROVE  TableInv'
<1> DEFINE absent == req[w].new \ ItemsOf(req[w].owner)
<1>1. Running(w) /\ rows' = rows /\ locked' = locked \ RangeOf(req[w]) /\ Observe
      /\ req[w].phase = "save"
  BY HoldsNothing DEF SaveSelect, At, Running
<1>2. /\ req[w] \in Request /\ SeesNow(w) /\ DroppedWereHeld(w)
      /\ req[w].op \in {"assign", "assignMultiple"} /\ absent \subseteq req[w].ids
  BY <1>1, RunningRequest DEF PhaseFits
<1>3. rows' \subseteq Keys /\ TableTypeOK /\ \A v \in Workers : Spares(v)
  BY <1>1, UnwrittenIsSpared DEF TableInv, TableTypeOK
<1>4. req[w].ids \ absent \subseteq seen'[w].held
  BY <1>1, <1>2, <1>3, ObserveGrows DEF SeesNow, DroppedWereHeld
<1>5. CASE absent = {}
  <2>1. Truthful(req[w].op, req[w].ids, "ok", seen'[w])
    BY <1>2, <1>4, <1>5 DEF Truthful
  <2>2. Answer(w, "ok") /\ "ok" \in Replies
    BY <1>5 DEF SaveSelect, Replies
  <2>3. QED
    BY <1>1, <1>3, <2>1, <2>2, AnswerKeepsInv
<1>6. CASE absent # {}
  <2>1. Goto(w, "insert", absent) /\ absent \in SUBSET Items
    BY <1>2, <1>6 DEF SaveSelect, Request
  <2>2. QED
    BY <1>1, <1>2, <1>3, <1>4, <2>1, GotoKeepsInv
<1>7. QED
  BY <1>5, <1>6

LEMMA SaveInsertKeepsInv ==
  ASSUME TableInv, NEW w \in Workers, SaveInsert(w)
  PROVE  TableInv'
<1>1. Running(w) /\ locked' = locked \ RangeOf(req[w]) /\ Observe /\ req[w].phase = "insert"
  BY HoldsNothing DEF SaveInsert, At, Running
<1>2. /\ req[w] \in Request /\ DroppedWereHeld(w)
      /\ req[w].op \in {"assign", "assignMultiple"}
  BY <1>1, RunningRequest DEF PhaseFits
<1>3. rows' \subseteq Keys /\ TableTypeOK /\ \A v \in Workers : Spares(v)
  <2>1. Touched \subseteq Row(req[w].owner, req[w].new) /\ Free(Row(req[w].owner, req[w].new))
    BY DEF SaveInsert, Touched
  <2>2. \A v \in Workers : Spares(v)
    BY <2>1, FreeKeysSpare DEF TableInv
  <2>3. QED
    BY <1>1, <1>2, <2>2 DEF TableInv, TableTypeOK, SaveInsert, Row, Keys, Request
<1>4. CASE req[w].new \cap ItemsOf(req[w].owner) = {}
  <2>1. rows' = rows \cup Row(req[w].owner, req[w].new)
    BY <1>4 DEF SaveInsert
  <2>2. req[w].ids \cap req[w].new \subseteq ItemsIn(rows', req[w].owner)
    BY <1>2, <2>1 DEF ItemsIn, Row, Request
  <2>3. req[w].ids \subseteq seen'[w].held
    BY <1>1, <1>2, <1>3, <2>2, ObserveGrows DEF DroppedWereHeld
  <2>4. Truthful(req[w].op, req[w].ids, "ok", seen'[w])
    BY <1>2, <2>3 DEF Truthful
  <2>5. AnswerCommitted(w, "ok") /\ "ok" \in Replies
    BY <1>4 DEF SaveInsert, Replies
  <2>6. QED
    BY <1>1, <1>3, <2>4, <2>5, AnswerCommittedKeepsInv
<1>5. CASE req[w].new \cap ItemsOf(req[w].owner) # {}
  <2>1. Truthful(req[w].op, req[w].ids, "error", seen'[w])
    BY DEF Truthful
  <2>2. Answer(w, "error") /\ "error" \in Replies
    BY <1>5 DEF SaveInsert, Replies
  <2>3. QED
    BY <1>1, <1>3, <2>1, <2>2, AnswerKeepsInv
<1>6. QED
  BY <1>4, <1>5

LEMMA DeleteKeepsInv ==
  ASSUME TableInv, NEW w \in Workers, Delete(w)
  PROVE  TableInv'
<1> DEFINE found == req[w].ids \cap ItemsOf(req[w].owner)
           reply == IF req[w].op = "revoke" /\ found = {} THEN "notFound" ELSE "ok"
<1>1. /\ Running(w) /\ locked' = locked \ RangeOf(req[w]) /\ Observe /\ req[w].phase = "delete"
      /\ rows' = rows \ Row(req[w].owner, req[w].ids) /\ AnswerCommitted(w, reply)
  BY HoldsNothing DEF Delete, At, Running
<1>2. /\ req[w] \in Request /\ SeesNow(w)
      /\ req[w].op \in {"revoke", "revokeMultiple"}
  BY <1>1, RunningRequest DEF PhaseFits
<1>3. rows' \subseteq Keys /\ TableTypeOK /\ \A v \in Workers : Spares(v)
  <2>1. Touched \subseteq Row(req[w].owner, req[w].ids) /\ Free(Row(req[w].owner, req[w].ids))
    BY <1>1 DEF Delete, Touched
  <2>2. \A v \in Workers : Spares(v)
    BY <2>1, FreeKeysSpare DEF TableInv
  <2>3. QED
    BY <1>1, <2>2 DEF TableInv, TableTypeOK
<1>4. req[w].ids \subseteq seen'[w].lacked
  <2>1. req[w].ids \cap ItemsIn(rows', req[w].owner) = {}
    BY <1>1 DEF ItemsIn, Row
  <2>2. QED
    BY <1>1, <1>3, <2>1, ObserveGrows
<1>5. found # {} /\ req[w].op = "revoke" => req[w].ids \subseteq seen'[w].held
  \* revokeUserRole names one item, so finding any of them is finding all.
  <2>1. SUFFICES ASSUME found # {}, req[w].op = "revoke"
                 PROVE  req[w].ids \subseteq seen'[w].held
    OBVIOUS
  <2>2. req[w].ids \subseteq found
    BY <1>2, <2>1, RunningRequest, <1>1 DEF PhaseFits
  <2>3. QED
    BY <1>1, <1>2, <1>3, <2>2, ObserveGrows DEF SeesNow
<1>6. Truthful(req[w].op, req[w].ids, reply, seen'[w])
  BY <1>2, <1>4, <1>5 DEF Truthful
<1>7. reply \in Replies
  BY DEF Replies
<1>8. QED
  BY <1>1, <1>3, <1>6, <1>7, AnswerCommittedKeepsInv

\* The DELETE of a replacement waits for the whole range and then holds it.
LEMMA ReplaceDeleteKeepsLocks ==
  ASSUME TableTypeOK, LockInv, NEW w \in Workers, ReplaceDelete(w)
  PROVE  LockInv'
<1> DEFINE range == Row(req[w].owner, Items)
           r == [req[w] EXCEPT !.phase = "refill", !.old = ItemsOf(req[w].owner)]
<1>1. /\ At(w, "replace") /\ Free(range) /\ req' = [req EXCEPT ![w] = r]
      /\ locked' = locked \cup range /\ rows' = rows
  BY DEF ReplaceDelete, TableTypeOK
<1>2. req[w] \in Request
  BY <1>1 DEF TableTypeOK, At, Idle
<1>3. /\ req'[w] = r /\ r.phase = "refill" /\ r.owner = req[w].owner
      /\ r.old = ItemsOf(req[w].owner) /\ RangeOf(r) = range
  BY <1>1, <1>2 DEF TableTypeOK, Request, RangeOf
<1>4. \A v \in Workers : v # w => req'[v] = req[v]
  BY <1>1 DEF TableTypeOK
<1>5. \A v \in Workers : range \cap RangeOf(req[v]) = {}
  BY <1>1 DEF Free, LockInv, RangeIsHeld
<1>6. ASSUME NEW v \in Workers
      PROVE  RangeIsHeld(v)'
  <2>1. CASE v = w
    BY <1>1, <1>3, <2>1 DEF RangeIsHeld, ItemsOf
  <2>2. CASE v # w
    BY <1>1, <1>4, <2>2 DEF RangeIsHeld, LockInv, At, ItemsOf
  <2>3. QED
    BY <2>1, <2>2
<1>7. ASSUME NEW u \in Workers, NEW v \in Workers, u # v
      PROVE  RangeOf(req'[u]) \cap RangeOf(req'[v]) = {}
  BY <1>3, <1>4, <1>5, <1>7 DEF LockInv
<1>8. QED
  BY <1>6, <1>7 DEF LockInv

LEMMA ReplaceDeleteKeepsInv ==
  ASSUME TableInv, NEW w \in Workers, ReplaceDelete(w)
  PROVE  TableInv'
<1> DEFINE r == [req[w] EXCEPT !.phase = "refill", !.old = ItemsOf(req[w].owner)]
<1>1. /\ Running(w) /\ Observe /\ req[w].phase = "replace" /\ req' = [req EXCEPT ![w] = r]
      /\ rows' = rows /\ locked' = locked \cup Row(req[w].owner, Items)
  BY DEF ReplaceDelete, At, Running, TableInv, TableTypeOK
<1>2. req[w] \in Request /\ req[w] # Idle /\ PhaseFits(req[w]) /\ AnswerTrue(w) /\ req[w].op = "replace"
  BY <1>1, RunningRequest, AnswersPerWorker DEF TableInv, PhaseFits
<1>3. req'[w] = r /\ TableTypeOK
  BY <1>1 DEF TableInv, TableTypeOK
<1>4. ItemsOf(req[w].owner) \in SUBSET Items
  BY DEF ItemsOf, ItemsIn
<1>5. /\ r \in Request /\ PhaseFits(r) /\ r.phase = "refill" /\ r.reply = req[w].reply
      /\ r.owner = req[w].owner /\ r.ids = req[w].ids /\ r.op = req[w].op
  BY <1>2, <1>4 DEF Request, Phases, PhaseFits
<1>6. DroppedWereHeld(w)'
  BY <1>3, <1>5 DEF DroppedWereHeld
<1>7. AnswerTrue(w)'
  BY <1>1, <1>2, <1>3, <1>5, ObserveGrows DEF AnswerTrue, Truthful
<1>8. LockInv'
  BY <1>3, ReplaceDeleteKeepsLocks DEF TableInv
<1>9. rows' \subseteq Keys /\ locked' \subseteq Keys
  BY <1>1, <1>2, <1>3 DEF TableTypeOK, Row, Keys, Request
<1>10. QED
  BY <1>1, <1>5, <1>6, <1>7, <1>8, <1>9, StepKeepsInv

\* Nobody has written in the range meanwhile: what the DELETE found is all there is.
LEMMA ReplaceSaveWrites ==
  ASSUME TableInv, NEW w \in Workers, ReplaceSave(w)
  PROVE  rows' = (rows \ Row(req[w].owner, Items)) \cup Row(req[w].owner, req[w].ids)
<1>1. req[w].old = ItemsOf(req[w].owner)
  BY DEF ReplaceSave, TableInv, LockInv, RangeIsHeld
<1>2. rows \ Row(req[w].owner, req[w].old) = rows \ Row(req[w].owner, Items)
  BY <1>1 DEF ItemsOf, ItemsIn, Row
<1>3. QED
  BY <1>2 DEF ReplaceSave

LEMMA ReplaceSaveKeepsInv ==
  ASSUME TableInv, NEW w \in Workers, ReplaceSave(w)
  PROVE  TableInv'
<1>1. /\ Running(w) /\ locked' = locked \ RangeOf(req[w]) /\ Observe /\ req[w].phase = "refill"
      /\ rows' = (rows \ Row(req[w].owner, Items)) \cup Row(req[w].owner, req[w].ids)
      /\ AnswerCommitted(w, "ok")
  BY ReplaceSaveWrites DEF ReplaceSave, At, Running
<1>2. req[w] \in Request /\ req[w].op = "replace"
  BY <1>1, RunningRequest DEF PhaseFits
<1>3. rows' \subseteq Keys /\ TableTypeOK
  BY <1>1, <1>2 DEF TableInv, TableTypeOK, Row, Keys, Request
<1>4. req[w].ids = ItemsIn(rows', req[w].owner)
  BY <1>1, <1>2 DEF ItemsIn, Row, Request
<1>5. Truthful(req[w].op, req[w].ids, "ok", seen'[w])
  BY <1>1, <1>2, <1>3, <1>4, ObserveGrows DEF Truthful
<1>6. ASSUME NEW v \in Workers, v # w
      PROVE  Spares(v)
  <2>1. Touched \subseteq RangeOf(req[w])
    BY <1>1, <1>2 DEF Touched, RangeOf, Row, Request
  <2>2. QED
    BY <1>6, <2>1 DEF Spares, TableInv, LockInv
<1>7. QED
  BY <1>1, <1>3, <1>5, <1>6, AnswerCommittedKeepsInv DEF Replies

LEMMA StatementFailsKeepsInv ==
  ASSUME TableInv, NEW w \in Workers, StatementFails(w)
  PROVE  TableInv'
<1>1. /\ Running(w) /\ rows' \subseteq Keys /\ locked' = locked \ RangeOf(req[w]) /\ Observe
      /\ Answer(w, "error") /\ "error" \in Replies /\ \A v \in Workers : Spares(v)
  BY UnwrittenIsSpared DEF StatementFails, TableInv, TableTypeOK, Replies
<1>2. Truthful(req[w].op, req[w].ids, "error", seen'[w])
  BY DEF Truthful
<1>3. QED
  BY <1>1, <1>2, AnswerKeepsInv

LEMMA StepPreservesInv ==
  ASSUME TableInv, NEW w \in Workers, Step(w)
  PROVE  TableInv'
BY CheckExistsKeepsInv, ReadExistingKeepsInv, SaveSelectKeepsInv, SaveInsertKeepsInv,
   DeleteKeepsInv, ReplaceDeleteKeepsInv, ReplaceSaveKeepsInv, StatementFailsKeepsInv DEF Step

LEMMA ArriveKeepsInv ==
  ASSUME TableInv, NEW w \in Workers, NEW op \in Ops, NEW o \in Owners,
         NEW S \in SUBSET Items, Arrive(w, op, o, S)
  PROVE  TableInv'
<1> DEFINE r == [op |-> op, owner |-> o, ids |-> S, new |-> S, old |-> {},
                 phase |-> FirstPhase(op), reply |-> "none"]
           g == Glimpse(Unseen, r, rows)
<1>1. /\ req' = [req EXCEPT ![w] = r] /\ req'[w] = r /\ rows' = rows /\ locked' = locked
      /\ seen' = [seen EXCEPT ![w] = g] /\ seen'[w] = g
  BY DEF Arrive, TableInv, TableTypeOK
<1>2. r \in Request /\ PhaseFits(r) /\ r.reply = "none" /\ r # Idle
  <2>1. FirstPhase(op) \in Phases
    BY DEF FirstPhase, Phases, Ops
  <2>2. r \in Request
    BY <2>1 DEF Request, Replies
  <2>3. PhaseFits(r)
    BY DEF PhaseFits, FirstPhase, Ops, Arrive
  <2>4. QED
    BY <2>2, <2>3, IdleIsNoRequest
<1>3. Unseen \in Sight
  BY DEF Unseen, Sight
<1>4. /\ g \in Sight
      /\ r.ids \cap ItemsIn(rows, r.owner) \subseteq g.held
      /\ r.ids \ ItemsIn(rows, r.owner) \subseteq g.lacked
      /\ r.ids = ItemsIn(rows, r.owner) => g.exact
  BY <1>2, <1>3, GlimpseGrows
<1>5. TableTypeOK'
  BY <1>1, <1>2, <1>4 DEF TableInv, TableTypeOK
<1>6. \A v \in Workers : WorkerInv(v)' /\ AnswerTrue(v)'
  <2> TAKE v \in Workers
  <2>1. CASE v = w
    <3>1. SeesNow(w)'
      BY <1>1, <1>4 DEF SeesNow, ItemsOf
    <3>2. DroppedWereHeld(w)' /\ AnswerTrue(w)'
      BY <1>1 DEF DroppedWereHeld, AnswerTrue, Truthful
    <3>3. QED
      BY <1>1, <1>2, <2>1, <3>1, <3>2 DEF WorkerInv
  <2>2. CASE v # w
    <3>1. req'[v] = req[v] /\ seen'[v] = seen[v] /\ WorkerInv(v) /\ AnswerTrue(v)
      BY <1>1, <2>2, AnswersPerWorker DEF TableInv, TableTypeOK
    <3>2. QED
      BY <1>1, <3>1 DEF WorkerInv, DroppedWereHeld, SeesNow, Running, ItemsOf, ItemsIn,
                        AnswerTrue
  <2>3. QED
    BY <2>1, <2>2
<1>7. LockInv'
  <2>1. req[w].phase # "refill"
    BY DEF Arrive, Running
  <2>2. r.phase # "refill"
    BY DEF FirstPhase, Ops
  <2>3. LockInv /\ TableTypeOK /\ locked' = locked \ RangeOf(req[w])
    BY <1>1, <2>1, HoldsNothing DEF TableInv
  <2> HIDE DEF r
  <2>4. QED
    BY <1>1, <2>2, <2>3, ReleaseKeepsLocks, UnwrittenIsSpared
<1>8. QED
  BY <1>5, <1>6, <1>7, AnswersPerWorker DEF TableInv, AnswersAreTrue, AnswerTrue,
     GrantsWereTrue, RevocationsWereTrue, ReplacementsWereExact, Truthful, Asked

LEMMA InitHasInv == TableInit => TableInv
<1> SUFFICES ASSUME TableInit PROVE TableInv
  OBVIOUS
<1>1. TableTypeOK
  BY DEF TableInit, TableTypeOK, Sight, Unseen
<1>2. \A w \in Workers : WorkerInv(w) /\ AnswerTrue(w)
  BY DEF TableInit, WorkerInv, AnswerTrue
<1>3. LockInv
  BY DEF TableInit, LockInv, RangeIsHeld, RangeOf, At, Idle
<1>4. QED
  BY <1>1, <1>2, <1>3, AnswersPerWorker DEF TableInv

LEMMA StutterKeepsInv == TableInv /\ UNCHANGED tableVars => TableInv'
BY DEF tableVars, TableInv, TableTypeOK, WorkerInv, PhaseFits, DroppedWereHeld, SeesNow,
       Running, ItemsOf, ItemsIn, LockInv, RangeIsHeld, At, AnswersAreTrue, GrantsWereTrue,
       RevocationsWereTrue, ReplacementsWereExact, Asked

LEMMA NextKeepsInv == TableInv /\ [TableNext]_tableVars => TableInv'
BY ArriveKeepsInv, StepPreservesInv, StutterKeepsInv DEF TableNext

-----------------------------------------------------------------------------

\* What the answers rest on holds always: every handler's progress fits the history of its
\* request.
THEOREM TableInvariant == TableSpec => []TableInv
BY InitHasInv, NextKeepsInv, PTL DEF TableSpec

\* The types of the table, the requests and their histories, for every instance.
THEOREM TableTypeCorrect == TableSpec => []TableTypeOK
<1>1. TableInv => TableTypeOK
  BY DEF TableInv
<1>2. QED
  BY <1>1, TableInvariant, PTL

\* Every answer a client gets was true at an instant of its request, however many
\* requests of however many server instances interleave.
THEOREM AnswersCorrect == TableSpec => []AnswersAreTrue
<1>1. TableInv => AnswersAreTrue
  BY DEF TableInv
<1>2. QED
  BY <1>1, TableInvariant, PTL

\* The parts of it the run on the plain table checks one by one.
THEOREM GrantsCorrect == TableSpec => []GrantsWereTrue
<1>1. AnswersAreTrue => GrantsWereTrue
  BY DEF AnswersAreTrue
<1>2. QED
  BY <1>1, AnswersCorrect, PTL

\* What a revocation reports was so while it ran.
THEOREM RevocationsCorrect == TableSpec => []RevocationsWereTrue
<1>1. AnswersAreTrue => RevocationsWereTrue
  BY DEF AnswersAreTrue
<1>2. QED
  BY <1>1, AnswersCorrect, PTL

\* A replacement that succeeds left exactly its items.
THEOREM ReplacementsCorrect == TableSpec => []ReplacementsWereExact
<1>1. AnswersAreTrue => ReplacementsWereExact
  BY DEF AnswersAreTrue
<1>2. QED
  BY <1>1, AnswersCorrect, PTL

-----------------------------------------------------------------------------
(* What a step may write. *)

LEMMA AnswerEnds ==
  ASSUME TableTypeOK, NEW w \in Workers, Running(w), AnswerCommitted(w, "ok")
  PROVE  Ends(w)
BY IdleIsNoRequest DEF TableTypeOK, AnswerCommitted, Answer, Ends, Running, Request

LEMMA StepWritesWhole ==
  ASSUME TableInv, NEW w \in Workers, Step(w), rows' # rows
  PROVE  WritesWhole(w)
<1>1. Running(w) /\ req[w] \in Request /\ PhaseFits(req[w]) /\ TableTypeOK
  <2>1. Running(w)
    BY DEF Step, CheckExists, ReadExisting, SaveSelect, SaveInsert, Delete, ReplaceDelete,
           ReplaceSave, StatementFails, At, Running
  <2>2. QED
    BY <2>1, RunningRequest DEF TableInv
<1>2. CASE SaveInsert(w)
  <2>1. /\ rows' = rows \cup Row(req[w].owner, req[w].new) /\ AnswerCommitted(w, "ok")
        /\ req[w].op \in {"assign", "assignMultiple"}
    BY <1>1, <1>2 DEF SaveInsert, PhaseFits, At
  <2>2. \A k \in rows' \ rows : Grants(w, k)
    BY <1>1, <2>1 DEF Grants, Row, PhaseFits
  <2>3. Whole(w)
    BY <1>1, <2>1 DEF Whole, ItemsIn, Row, Request
  <2>4. QED
    BY <1>1, <2>1, <2>2, <2>3, AnswerEnds DEF WritesWhole
<1>3. CASE Delete(w)
  <2>1. /\ rows' = rows \ Row(req[w].owner, req[w].ids)
        /\ req[w].op \in {"revoke", "revokeMultiple"}
    BY <1>1, <1>3 DEF Delete, PhaseFits, At
  <2>2. req[w].ids \cap ItemsOf(req[w].owner) # {}
    BY <1>1, <2>1 DEF ItemsOf, ItemsIn, Row, Request
  <2>3. AnswerCommitted(w, "ok")
    BY <1>3, <2>2 DEF Delete
  <2>4. \A k \in rows \ rows' : Removes(w, k)
    BY <2>1 DEF Removes
  <2>5. Whole(w)
    BY <2>1 DEF Whole, ItemsIn, Row
  <2>6. QED
    BY <1>1, <2>1, <2>3, <2>4, <2>5, AnswerEnds DEF WritesWhole
<1>4. CASE ReplaceSave(w)
  <2>1. /\ rows' = (rows \ Row(req[w].owner, Items)) \cup Row(req[w].owner, req[w].ids)
        /\ AnswerCommitted(w, "ok") /\ req[w].op = "replace"
    BY <1>1, <1>4, ReplaceSaveWrites DEF ReplaceSave, PhaseFits, At
  <2>2. \A k \in rows' \ rows : Grants(w, k)
    BY <2>1 DEF Grants
  <2>3. \A k \in rows \ rows' : Removes(w, k)
    BY <2>1 DEF Removes, Row
  <2>4. Whole(w)
    BY <1>1, <2>1 DEF Whole, ItemsIn, Row, Request
  <2>5. QED
    BY <1>1, <2>1, <2>2, <2>3, <2>4, AnswerEnds DEF WritesWhole
<1>5. QED
  BY <1>2, <1>3, <1>4 DEF Step, CheckExists, ReadExisting, SaveSelect, ReplaceDelete, StatementFails

\* A request writes in its last step, only what it names, and all of it or nothing,
\* also when it is answered with an error.
THEOREM WritesWholeCorrect == TableSpec => WritesAreWhole
<1>1. TableInv /\ [TableNext]_tableVars
        => [rows' # rows => \E w \in Workers : WritesWhole(w)]_tableVars
  <2> SUFFICES ASSUME TableInv, TableNext, rows' # rows
               PROVE  \E w \in Workers : WritesWhole(w)
    OBVIOUS
  <2>1. PICK w \in Workers : Step(w)
    BY DEF TableNext, Arrive
  <2>2. QED
    BY <2>1, StepWritesWhole
<1>2. QED
  BY <1>1, TableInvariant, PTL DEF TableSpec, WritesAreWhole

-----------------------------------------------------------------------------
(* JoinTable implements AssignmentStore.  The mapping hides the locks and the     *)
(* histories; a running request is a pending call, and the items it has dropped   *)
(* have been noticed.                                                             *)

Calls == [w \in Workers |-> CallOf(req[w])]

\* A request has an answer when it is done and not before, and one that has read
\* nothing yet means to insert all it was asked for.
Fresh(r) ==
  r # Idle => /\ r.phase = "done" <=> r.reply # "none"
              /\ r.phase \in {"exists", "read"} => r.new = r.ids

RefInv == TableInv /\ \A w \in Workers : Fresh(req[w])

-----------------------------------------------------------------------------

\* What a step does to the request that takes it.
LEMMA StepMoves ==
  ASSUME TableInv, NEW w \in Workers, Step(w)
  PROVE  /\ Running(w) /\ req[w] \in Request
         /\ \/ \E reply \in Replies \ {"none"} :
                 req' = [req EXCEPT ![w].phase = "done", ![w].reply = reply]
            \/ \E phase \in {"save", "insert"}, new \in SUBSET Items :
                 req' = [req EXCEPT ![w].phase = phase, ![w].new = new]
            \/ /\ req[w].phase = "replace"
               /\ req' = [req EXCEPT ![w].phase = "refill", ![w].old = ItemsOf(req[w].owner)]
<1>1. Running(w)
  BY DEF Step, CheckExists, ReadExisting, SaveSelect, SaveInsert, Delete, ReplaceDelete,
         ReplaceSave, StatementFails, At, Running
<1>2. req[w] \in Request
  BY <1>1, RunningRequest
<1>3. req[w].ids \subseteq Items /\ req[w].new \subseteq Items
  BY <1>2 DEF Request
<1>4. CASE CheckExists(w)
  BY <1>1, <1>2, <1>3, <1>4 DEF CheckExists, Answer, Goto, Replies
<1>5. CASE ReadExisting(w)
  BY <1>1, <1>2, <1>3, <1>5 DEF ReadExisting, Answer, Goto, Replies
<1>6. CASE SaveSelect(w)
  BY <1>1, <1>2, <1>3, <1>6 DEF SaveSelect, Answer, Goto, Replies
<1>7. CASE SaveInsert(w)
  BY <1>1, <1>2, <1>7 DEF SaveInsert, AnswerCommitted, Answer, Replies
<1>8. CASE Delete(w)
  BY <1>1, <1>2, <1>8 DEF Delete, AnswerCommitted, Answer, Replies
<1>9. CASE ReplaceDelete(w)
  BY <1>1, <1>2, <1>9 DEF ReplaceDelete, At
<1>10. CASE ReplaceSave(w)
  BY <1>1, <1>2, <1>10 DEF ReplaceSave, AnswerCommitted, Answer, Replies
<1>11. CASE StatementFails(w)
  BY <1>1, <1>2, <1>11 DEF StatementFails, Answer, Replies
<1>12. QED
  BY <1>4, <1>5, <1>6, <1>7, <1>8, <1>9, <1>10, <1>11 DEF Step

\* Of all steps only the DELETE of a replacement takes locks.
LEMMA StepLocks ==
  ASSUME TableInv, NEW w \in Workers, Step(w), ~ReplaceDelete(w)
  PROVE  locked' = locked \ RangeOf(req[w]) /\ RangeOf(req'[w]) = {}
<1>1. RangeOf(req'[w]) = {}
  <2>1. req \in [Workers -> Request \cup {Idle}] /\ req[w] \in Request
    BY StepMoves DEF TableInv, TableTypeOK
  <2>2. CASE ~At(w, "replace")
    <3>1. req'[w].phase \in {"done", "save", "insert"}
      <4>1. \/ \E reply \in Replies \ {"none"} :
                 req' = [req EXCEPT ![w].phase = "done", ![w].reply = reply]
            \/ \E phase \in {"save", "insert"}, new \in SUBSET Items :
                 req' = [req EXCEPT ![w].phase = phase, ![w].new = new]
        BY <2>2, StepMoves DEF At
      <4>2. QED
        BY <2>1, <4>1 DEF Request
    <3>2. QED
      BY <3>1 DEF RangeOf
  <2>3. CASE At(w, "replace")
    <3>1. StatementFails(w)
      BY <2>3 DEF Step, CheckExists, ReadExisting, SaveSelect, SaveInsert, Delete,
         ReplaceSave, At
    <3>2. QED
      BY <2>1, <3>1 DEF StatementFails, Answer, RangeOf, Request
  <2>4. QED
    BY <2>2, <2>3
<1>2. locked' = locked \ RangeOf(req[w])
  BY HoldsNothing DEF Step, CheckExists, ReadExisting, SaveSelect, SaveInsert, Delete,
     ReplaceSave, StatementFails, At
<1>3. QED
  BY <1>1, <1>2

LEMMA NextKeepsFresh ==
  ASSUME RefInv, [TableNext]_tableVars, NEW v \in Workers
  PROVE  Fresh(req'[v])
<1>1. TableTypeOK /\ TableInv /\ Fresh(req[v])
  BY DEF RefInv, TableInv
<1>2. CASE UNCHANGED tableVars
  BY <1>1, <1>2 DEF tableVars
<1>3. ASSUME NEW w \in Workers, NEW op \in Ops, NEW o \in Owners, NEW S \in SUBSET Items,
             Arrive(w, op, o, S)
      PROVE  Fresh(req'[v])
  <2>1. CASE v = w
    <3>1. req'[v] = [op |-> op, owner |-> o, ids |-> S, new |-> S, old |-> {},
                     phase |-> FirstPhase(op), reply |-> "none"]
      BY <1>1, <1>3, <2>1 DEF Arrive, TableTypeOK
    <3>2. FirstPhase(op) # "done"
      BY DEF FirstPhase, Ops
    <3>3. QED
      BY <3>1, <3>2 DEF Fresh
  <2>2. CASE v # w
    <3>1. req'[v] = req[v]
      BY <1>1, <1>3, <2>2 DEF Arrive, TableTypeOK
    <3>2. QED
      BY <1>1, <3>1
  <2>3. QED
    BY <2>1, <2>2
<1>4. ASSUME NEW w \in Workers, Step(w)
      PROVE  Fresh(req'[v])
  <2>1. CASE v = w
    <3>1. Running(v) /\ req[v] \in Request /\ req[v] # Idle
      BY <1>1, <1>4, <2>1, StepMoves, RunningRequest
    <3>2. CASE \E reply \in Replies \ {"none"} :
                 req' = [req EXCEPT ![w].phase = "done", ![w].reply = reply]
      BY <1>1, <2>1, <3>1, <3>2 DEF Fresh, TableTypeOK, Request
    <3>3. CASE \E phase \in {"save", "insert"}, new \in SUBSET Items :
                 req' = [req EXCEPT ![w].phase = phase, ![w].new = new]
      BY <1>1, <2>1, <3>1, <3>3 DEF Fresh, TableTypeOK, Request, Running
    <3>4. CASE /\ req[w].phase = "replace"
               /\ req' = [req EXCEPT ![w].phase = "refill", ![w].old = ItemsOf(req[w].owner)]
      BY <1>1, <2>1, <3>1, <3>4 DEF Fresh, TableTypeOK, Request
    <3>5. QED
      BY <1>1, <1>4, <3>2, <3>3, <3>4, StepMoves
  <2>2. CASE v # w
    <3>1. req'[v] = req[v]
      BY <1>1, <1>4, <2>2, StepMoves DEF TableTypeOK
    <3>2. QED
      BY <1>1, <3>1
  <2>3. QED
    BY <2>1, <2>2
<1>5. QED
  BY <1>2, <1>3, <1>4 DEF TableNext

\* What the refinement rests on holds always.
THEOREM RefInvariant == TableSpec => []RefInv
<1>1. TableInit => RefInv
  BY InitHasInv DEF RefInv, Fresh, TableInit
<1>2. RefInv /\ [TableNext]_tableVars => RefInv'
  <2> SUFFICES ASSUME RefInv, [TableNext]_tableVars PROVE RefInv'
    OBVIOUS
  <2>1. TableInv'
    BY NextKeepsInv DEF RefInv
  <2>2. \A v \in Workers : Fresh(req'[v])
    BY NextKeepsFresh
  <2>3. QED
    BY <2>1, <2>2 DEF RefInv, Fresh
<1>3. QED
  BY <1>1, <1>2, PTL DEF TableSpec

-----------------------------------------------------------------------------

LEMMA CallOfPending ==
  ASSUME NEW r \in Request, r.phase # "done", r.reply = "none"
  PROVE  CallOf(r) = [op |-> r.op, owner |-> r.owner, ids |-> r.ids, answer |-> "pending",
                      left |-> r.new]
BY IdleIsNoRequest DEF CallOf, AnswerOf

LEMMA CallOfDone ==
  ASSUME NEW r \in Request, r.phase = "done"
  PROVE  CallOf(r) = [op |-> r.op, owner |-> r.owner, ids |-> r.ids,
                      answer |-> AnswerOf(r.reply), left |-> {}]
BY IdleIsNoRequest DEF CallOf

LEMMA CallsMove ==
  ASSUME TableTypeOK, NEW w \in Workers, NEW r, req' = [req EXCEPT ![w] = r]
  PROVE  Calls' = [Calls EXCEPT ![w] = CallOf(r)]
BY DEF Calls, TableTypeOK

\* A running request is a pending call.
LEMMA RunningIsPending ==
  ASSUME RefInv, NEW w \in Workers, Running(w)
  PROVE  /\ req[w] \in Request /\ PhaseFits(req[w]) /\ TableTypeOK
         /\ Calls[w] = [op |-> req[w].op, owner |-> req[w].owner, ids |-> req[w].ids,
                        answer |-> "pending", left |-> req[w].new]
<1>1. req[w] \in Request /\ PhaseFits(req[w]) /\ TableTypeOK /\ req[w] # Idle /\ Fresh(req[w])
  BY RunningRequest DEF RefInv, TableInv
<1>2. req[w].phase # "done" /\ req[w].reply = "none"
  BY <1>1 DEF Running, Fresh
<1>3. QED
  BY <1>1, <1>2, CallOfPending DEF Calls

\* The answer of a request, seen as the answer of its call.
LEMMA AnswerIsAnswered ==
  ASSUME RefInv, NEW w \in Workers, Running(w), NEW reply \in Replies, Answer(w, reply)
  PROVE  Calls' = [Calls EXCEPT ![w] = Store!Closed(Calls[w], AnswerOf(reply))]
<1> DEFINE r == [req[w] EXCEPT !.phase = "done", !.reply = reply]
<1>1. req[w] \in Request /\ TableTypeOK
      /\ Calls[w] = [op |-> req[w].op, owner |-> req[w].owner, ids |-> req[w].ids,
                     answer |-> "pending", left |-> req[w].new]
  BY RunningIsPending
<1>2. req' = [req EXCEPT ![w] = r]
  BY <1>1 DEF Answer, TableTypeOK
<1>3. r \in Request /\ r.phase = "done"
  BY <1>1 DEF Request, Phases
<1>4. CallOf(r) = [op |-> req[w].op, owner |-> req[w].owner, ids |-> req[w].ids,
                   answer |-> AnswerOf(reply), left |-> {}]
  BY <1>1, <1>3, CallOfDone DEF Request
<1>5. Calls' = [Calls EXCEPT ![w] = CallOf(r)]
  BY <1>1, <1>2, CallsMove
<1>6. QED
  <2>1. CallOf(r) = Store!Closed(Calls[w], AnswerOf(reply))
    BY <1>1, <1>4 DEF Store!Closed
  <2>2. QED
    BY <1>5, <2>1

LEMMA GotoIsNotice ==
  ASSUME RefInv, NEW w \in Workers, Running(w), rows' = rows,
         NEW phase \in {"save", "insert"}, NEW new \in SUBSET Items, Goto(w, phase, new),
         req[w].op \in {"assign", "assignMultiple"},
         new \subseteq req[w].new,
         req[w].new \ new \subseteq ItemsOf(req[w].owner)
  PROVE  Store!Notice(w, req[w].new \ new)
<1> DEFINE r == [req[w] EXCEPT !.phase = phase, !.new = new]
<1>1. req[w] \in Request /\ TableTypeOK
      /\ Calls[w] = [op |-> req[w].op, owner |-> req[w].owner, ids |-> req[w].ids,
                     answer |-> "pending", left |-> req[w].new]
  BY RunningIsPending
<1>2. req[w].reply = "none"
  BY <1>1, IdleIsNoRequest DEF RefInv, Fresh, Running
<1>3. req' = [req EXCEPT ![w] = r]
  BY <1>1 DEF Goto, TableTypeOK
<1>4. r \in Request /\ r.phase # "done" /\ r.reply = "none"
  BY <1>1, <1>2 DEF Request, Phases
<1>5. CallOf(r) = [op |-> req[w].op, owner |-> req[w].owner, ids |-> req[w].ids,
                   answer |-> "pending", left |-> new]
  BY <1>1, <1>4, CallOfPending DEF Request
<1>6. Calls' = [Calls EXCEPT ![w] = CallOf(r)]
  BY <1>1, <1>3, CallsMove
<1>7. new = req[w].new \ (req[w].new \ new)
  OBVIOUS
<1>8. Calls' = [Calls EXCEPT ![w] = [@ EXCEPT !.left = req[w].new \ (req[w].new \ new)]]
  <2>1. CallOf(r) = [Calls[w] EXCEPT !.left = req[w].new \ (req[w].new \ new)]
    BY <1>1, <1>5, <1>7
  <2>2. QED
    BY <1>6, <2>1
<1>9. QED
  <2>1. Calls[w].answer = "pending" /\ Calls[w].op \in {"assign", "assignMultiple"}
    BY <1>1
  <2>2. req[w].new \ new \subseteq Calls[w].left \cap {i \in Items : <<Calls[w].owner, i>> \in rows}
    BY <1>1 DEF ItemsOf, ItemsIn
  <2>3. Calls' = [Calls EXCEPT ![w] = [Calls[w] EXCEPT !.left = Calls[w].left \ (req[w].new \ new)]]
    BY <1>1, <1>8
  <2>4. QED
    BY <2>1, <2>2, <2>3 DEF Store!Notice, Store!Pending, Store!Grants, Store!Held, Calls

LEMMA HeldRows ==
  ASSUME NEW o \in Owners, NEW S \in SUBSET Items, S \subseteq ItemsOf(o)
  PROVE  rows = rows \cup Row(o, S)
BY DEF ItemsOf, ItemsIn, Row

LEMMA AnswersMean ==
  /\ \A reply \in {"ok", "alreadyExists", "nothingNew"} : AnswerOf(reply) = "done"
  /\ AnswerOf("notFound") = "missing" /\ AnswerOf("error") = "unknown"
BY DEF AnswerOf

\* A request that ends with all it still meant to insert in the table is a grant.
LEMMA AnswerIsGrant ==
  ASSUME RefInv, NEW w \in Workers, Running(w), req[w].op \in {"assign", "assignMultiple"},
         NEW reply \in {"ok", "alreadyExists", "nothingNew", "error"}, Answer(w, reply),
         rows' = rows \cup Row(req[w].owner, req[w].new)
  PROVE  Store!Grant(w)
<1>1. req[w] \in Request
      /\ Calls[w] = [op |-> req[w].op, owner |-> req[w].owner, ids |-> req[w].ids,
                     answer |-> "pending", left |-> req[w].new]
  BY RunningIsPending
<1>2. Calls' = [Calls EXCEPT ![w] = Store!Closed(Calls[w], AnswerOf(reply))]
  BY AnswerIsAnswered DEF Replies
<1>3. AnswerOf(reply) \in {"done", "unknown"}
  BY AnswersMean
<1>4. Store!Answered(w, "done")
  BY <1>2, <1>3 DEF Store!Answered, Calls
<1>5. /\ Calls[w].answer = "pending" /\ Calls[w].op \in {"assign", "assignMultiple"}
      /\ rows' = rows \cup {<<Calls[w].owner, i>> : i \in Calls[w].left}
  BY <1>1 DEF Row
<1>6. QED
  BY <1>4, <1>5 DEF Store!Grant, Store!Pending, Store!Grants, Store!Row, Calls

\* A request that ends in an error and has written nothing is a refused call.
LEMMA ErrorIsRefusal ==
  ASSUME RefInv, NEW w \in Workers, Running(w), Answer(w, "error"), rows' = rows
  PROVE  Store!Refuse(w)
<1>1. Calls[w].answer = "pending"
  <2>1. Calls[w] = [op |-> req[w].op, owner |-> req[w].owner, ids |-> req[w].ids,
                    answer |-> "pending", left |-> req[w].new]
    BY RunningIsPending
  <2>2. QED
    BY <2>1
<1>2. Calls' = [Calls EXCEPT ![w] = Store!Closed(Calls[w], "unknown")]
  BY AnswerIsAnswered, AnswersMean DEF Replies
<1>3. QED
  BY <1>1, <1>2 DEF Store!Refuse, Store!Pending, Calls

LEMMA DeleteIsRevoke ==
  ASSUME RefInv, NEW w \in Workers, Delete(w)
  PROVE  Store!Revoke(w)
<1> DEFINE o == req[w].owner
           missing == req[w].op = "revoke" /\ req[w].ids \cap ItemsOf(o) = {}
           reply == IF missing THEN "notFound" ELSE "ok"
<1>1. Running(w)
  BY DEF Delete, At, Running
<1>2. req[w] \in Request /\ req[w].op \in {"revoke", "revokeMultiple"}
      /\ Calls[w] = [op |-> req[w].op, owner |-> o, ids |-> req[w].ids,
                     answer |-> "pending", left |-> req[w].new]
  BY <1>1, RunningIsPending DEF PhaseFits, Delete, At
<1>3. /\ rows' = rows \ Row(o, req[w].ids)
      /\ Answer(w, reply) \/ Answer(w, "error")
  BY DEF Delete, AnswerCommitted
<1>4. AnswerOf(reply) = IF missing THEN "missing" ELSE "done"
  BY AnswersMean
<1>5. \E a \in {IF missing THEN "missing" ELSE "done", "unknown"} :
         Calls' = [Calls EXCEPT ![w] = Store!Closed(Calls[w], a)]
  <2>1. reply \in Replies /\ "error" \in Replies
    BY DEF Replies
  <2> HIDE DEF missing
  <2>2. QED
    BY <1>1, <1>3, <1>4, <2>1, AnswersMean, AnswerIsAnswered
<1>6. missing <=> /\ Calls[w].op = "revoke"
                  /\ Calls[w].ids \cap {i \in Items : <<Calls[w].owner, i>> \in rows} = {}
  BY <1>2 DEF ItemsOf, ItemsIn
<1>7. Store!Answered(w, IF /\ Calls[w].op = "revoke"
                           /\ Calls[w].ids \cap {i \in Items : <<Calls[w].owner, i>> \in rows} = {}
                        THEN "missing" ELSE "done")
  BY <1>5, <1>6 DEF Store!Answered, Calls
<1>8. /\ Calls[w].answer = "pending" /\ Calls[w].op \in {"revoke", "revokeMultiple"}
      /\ rows' = rows \ {<<Calls[w].owner, i>> : i \in Calls[w].ids}
  BY <1>2, <1>3 DEF Row
<1>9. QED
  BY <1>7, <1>8 DEF Store!Revoke, Store!Pending, Store!Revocations, Store!Row, Store!Held, Calls

\* The open transaction is not seen.
LEMMA ReplaceDeleteIsStutter ==
  ASSUME RefInv, NEW w \in Workers, ReplaceDelete(w)
  PROVE  UNCHANGED Store!vars
<1> DEFINE r == [req[w] EXCEPT !.phase = "refill", !.old = ItemsOf(req[w].owner)]
<1>1. Running(w) /\ req[w].phase # "done" /\ rows' = rows
  BY DEF ReplaceDelete, At, Running
<1>2. /\ req[w] \in Request /\ TableTypeOK
      /\ Calls[w] = [op |-> req[w].op, owner |-> req[w].owner, ids |-> req[w].ids,
                     answer |-> "pending", left |-> req[w].new]
  BY <1>1, RunningIsPending
<1>3. req[w].reply = "none" /\ ItemsOf(req[w].owner) \in SUBSET Items
  BY <1>1, <1>2, IdleIsNoRequest DEF RefInv, Fresh, ItemsOf, ItemsIn
<1>4. req' = [req EXCEPT ![w] = r]
  BY <1>2 DEF ReplaceDelete, TableTypeOK
<1>5. /\ r \in Request /\ r.phase # "done" /\ r.reply = "none" /\ r.op = req[w].op
      /\ r.owner = req[w].owner /\ r.ids = req[w].ids /\ r.new = req[w].new
  BY <1>2, <1>3 DEF Request, Phases
<1> HIDE DEF r
<1>6. CallOf(r) = Calls[w]
  BY <1>2, <1>5, CallOfPending
<1>7. Calls' = [Calls EXCEPT ![w] = Calls[w]]
  BY <1>2, <1>4, <1>6, CallsMove
<1>8. Calls' = Calls
  BY <1>7 DEF Calls
<1>9. QED
  BY <1>1, <1>8 DEF Store!vars, Calls

LEMMA ReplaceSaveIsReplace ==
  ASSUME RefInv, NEW w \in Workers, ReplaceSave(w)
  PROVE  Store!Replace(w)
<1>1. Running(w) /\ req[w].phase = "refill"
  BY DEF ReplaceSave, At, Running
<1>2. req[w] \in Request /\ req[w].op = "replace"
      /\ Calls[w] = [op |-> req[w].op, owner |-> req[w].owner, ids |-> req[w].ids,
                     answer |-> "pending", left |-> req[w].new]
  BY <1>1, RunningIsPending DEF PhaseFits
<1>3. Answer(w, "ok") \/ Answer(w, "error")
  BY DEF ReplaceSave, AnswerCommitted
<1>4. \E a \in {"done", "unknown"} :
         Calls' = [Calls EXCEPT ![w] = Store!Closed(Calls[w], a)]
  BY <1>1, <1>3, AnswersMean, AnswerIsAnswered DEF Replies
<1>5. Store!Answered(w, "done")
  BY <1>4 DEF Store!Answered, Calls
<1>6. /\ Calls[w].answer = "pending" /\ Calls[w].op = "replace"
      /\ rows' = (rows \ {<<Calls[w].owner, i>> : i \in Items})
                   \cup {<<Calls[w].owner, i>> : i \in Calls[w].ids}
  BY <1>2, ReplaceSaveWrites DEF RefInv, Row
<1>7. QED
  BY <1>5, <1>6 DEF Store!Replace, Store!Pending, Store!Row, Calls

LEMMA StepIsStoreStep ==
  ASSUME RefInv, NEW w \in Workers, Step(w)
  PROVE  [Store!Next]_Store!vars
<1>1. Running(w) /\ req[w] \in Request /\ PhaseFits(req[w])
      /\ (req[w].phase \in {"exists", "read"} => req[w].new = req[w].ids)
  BY StepMoves, RunningIsPending, IdleIsNoRequest DEF RefInv, Fresh
<1>2. /\ req[w].owner \in Owners /\ req[w].ids \in SUBSET Items /\ req[w].new \in SUBSET Items
  BY <1>1 DEF Request
<1>3. CASE CheckExists(w)
  <2>1. rows' = rows /\ req[w].op = "assign" /\ req[w].new = req[w].ids
    BY <1>1, <1>3 DEF CheckExists, At, PhaseFits
  <2>2. CASE req[w].ids \subseteq ItemsOf(req[w].owner)
    <3>1. Answer(w, "alreadyExists") /\ rows = rows \cup Row(req[w].owner, req[w].new)
      BY <1>2, <1>3, <2>1, <2>2, HeldRows DEF CheckExists
    <3>2. QED
      BY <1>1, <2>1, <3>1, AnswerIsGrant DEF Store!Next
  <2>3. CASE ~(req[w].ids \subseteq ItemsOf(req[w].owner))
    <3>1. Goto(w, "save", req[w].ids) /\ req[w].new \ req[w].ids \subseteq ItemsOf(req[w].owner)
          /\ req[w].ids \subseteq req[w].new
      BY <1>3, <2>1, <2>3 DEF CheckExists
    <3>2. Store!Notice(w, req[w].new \ req[w].ids)
      BY <1>1, <1>2, <2>1, <3>1, GotoIsNotice
    <3>3. QED
      BY <1>2, <3>2 DEF Store!Next
  <2>4. QED
    BY <2>2, <2>3
<1>4. CASE ReadExisting(w)
  <2> DEFINE new == req[w].ids \ ItemsOf(req[w].owner)
  <2>1. rows' = rows /\ req[w].op = "assignMultiple" /\ req[w].new = req[w].ids
    BY <1>1, <1>4 DEF ReadExisting, At, PhaseFits
  <2>2. CASE new = {}
    <3>1. Answer(w, "nothingNew") /\ rows = rows \cup Row(req[w].owner, req[w].new)
      BY <1>2, <1>4, <2>1, <2>2, HeldRows DEF ReadExisting
    <3>2. QED
      BY <1>1, <2>1, <3>1, AnswerIsGrant DEF Store!Next
  <2>3. CASE new # {}
    <3>1. Goto(w, "save", new) /\ req[w].new \ new \subseteq ItemsOf(req[w].owner)
          /\ new \subseteq req[w].new
      BY <1>4, <2>1, <2>3 DEF ReadExisting
    <3>2. Store!Notice(w, req[w].new \ new)
      BY <1>1, <1>2, <2>1, <3>1, GotoIsNotice
    <3>3. QED
      BY <1>2, <3>2 DEF Store!Next
  <2>4. QED
    BY <2>2, <2>3
<1>5. CASE SaveSelect(w)
  <2> DEFINE absent == req[w].new \ ItemsOf(req[w].owner)
  <2>1. rows' = rows /\ req[w].op \in {"assign", "assignMultiple"}
    BY <1>1, <1>5 DEF SaveSelect, At, PhaseFits
  <2>2. CASE absent = {}
    <3>1. Answer(w, "ok") /\ rows = rows \cup Row(req[w].owner, req[w].new)
      BY <1>2, <1>5, <2>2, HeldRows DEF SaveSelect
    <3>2. QED
      BY <1>1, <2>1, <3>1, AnswerIsGrant DEF Store!Next
  <2>3. CASE absent # {}
    <3>1. Goto(w, "insert", absent) /\ req[w].new \ absent \subseteq ItemsOf(req[w].owner)
          /\ absent \subseteq req[w].new
      BY <1>5, <2>3 DEF SaveSelect
    <3>2. Store!Notice(w, req[w].new \ absent)
      BY <1>1, <1>2, <2>1, <3>1, GotoIsNotice
    <3>3. QED
      BY <1>2, <3>2 DEF Store!Next
  <2>4. QED
    BY <2>2, <2>3
<1>6. CASE SaveInsert(w)
  <2>1. req[w].op \in {"assign", "assignMultiple"}
    BY <1>1, <1>6 DEF SaveInsert, At, PhaseFits
  <2>2. CASE req[w].new \cap ItemsOf(req[w].owner) = {}
    <3>1. rows' = rows \cup Row(req[w].owner, req[w].new)
          /\ (Answer(w, "ok") \/ Answer(w, "error"))
      BY <1>6, <2>2 DEF SaveInsert, AnswerCommitted
    <3>2. QED
      BY <1>1, <2>1, <3>1, AnswerIsGrant DEF Store!Next
  <2>3. CASE req[w].new \cap ItemsOf(req[w].owner) # {}
    BY <1>1, <1>6, <2>3, ErrorIsRefusal DEF SaveInsert, Store!Next
  <2>4. QED
    BY <2>2, <2>3
<1>7. CASE Delete(w)
  BY <1>7, DeleteIsRevoke DEF Store!Next
<1>8. CASE ReplaceDelete(w)
  BY <1>8, ReplaceDeleteIsStutter
<1>9. CASE ReplaceSave(w)
  BY <1>9, ReplaceSaveIsReplace DEF Store!Next
<1>10. CASE StatementFails(w)
  BY <1>1, <1>10, ErrorIsRefusal DEF StatementFails, Store!Next
<1>11. QED
  BY <1>3, <1>4, <1>5, <1>6, <1>7, <1>8, <1>9, <1>10 DEF Step

LEMMA ArriveIsAsk ==
  ASSUME RefInv, NEW w \in Workers, NEW op \in Ops, NEW o \in Owners, NEW S \in SUBSET Items,
         Arrive(w, op, o, S)
  PROVE  Store!Ask(w)
<1> DEFINE r == [op |-> op, owner |-> o, ids |-> S, new |-> S, old |-> {},
                 phase |-> FirstPhase(op), reply |-> "none"]
<1>1. TableTypeOK /\ Fresh(req[w])
  BY DEF RefInv, TableInv
<1>2. req' = [req EXCEPT ![w] = r] /\ rows' = rows /\ ~Running(w)
  BY <1>1 DEF Arrive, TableTypeOK
<1>3. r \in Request /\ r.phase # "done" /\ r.reply = "none"
  <2>1. FirstPhase(op) \in Phases \ {"done"}
    BY DEF FirstPhase, Phases, Ops
  <2>2. QED
    BY <2>1 DEF Request, Replies
<1>4. Calls' = [Calls EXCEPT ![w] = CallOf(r)]
  BY <1>1, <1>2, CallsMove
<1>5. CallOf(r) = [op |-> op, owner |-> o, ids |-> S, answer |-> "pending", left |-> S]
  BY <1>3, CallOfPending
<1>6. Calls'[w] = CallOf(r)
  BY <1>4 DEF Calls
<1>7. Calls[w].answer # "pending"
  <2>1. CASE req[w] = Idle
    BY <2>1 DEF Calls, CallOf
  <2>2. CASE req[w] # Idle
    <3>1. req[w] \in Request /\ req[w].phase = "done" /\ req[w].reply # "none"
      BY <1>1, <1>2, <2>2, IdleIsNoRequest DEF Running, Fresh, TableTypeOK
    <3>2. Calls[w].answer = AnswerOf(req[w].reply)
      BY <3>1, CallOfDone DEF Calls
    <3>3. QED
      BY <3>1, <3>2 DEF AnswerOf, Request, Replies
  <2>3. QED
    BY <2>1, <2>2
<1>8. Calls'[w] \in Store!NewCalls
  BY <1>5, <1>6 DEF Store!NewCalls, Store!Ops, Store!Grants, Store!Revocations, Ops
<1>9. Calls' = [Calls EXCEPT ![w] = Calls'[w]]
  BY <1>4, <1>6
<1>10. QED
  BY <1>2, <1>7, <1>8, <1>9 DEF Store!Ask, Store!Pending, Calls

LEMMA InitIsStoreInit == TableInit => Store!Init
BY DEF TableInit, Store!Init, Store!NoCall, CallOf, Keys

LEMMA NextIsStoreNext == RefInv /\ [TableNext]_tableVars => [Store!Next]_Store!vars
<1> SUFFICES ASSUME RefInv, [TableNext]_tableVars PROVE [Store!Next]_Store!vars
  OBVIOUS
<1>1. CASE UNCHANGED tableVars
  BY <1>1 DEF tableVars, Store!vars
<1>2. ASSUME NEW w \in Workers, NEW op \in Ops, NEW o \in Owners, NEW S \in SUBSET Items,
             Arrive(w, op, o, S)
      PROVE  Store!Next
  BY <1>2, ArriveIsAsk DEF Store!Next
<1>3. ASSUME NEW w \in Workers, Step(w)
      PROVE  [Store!Next]_Store!vars
  BY <1>3, StepIsStoreStep
<1>4. QED
  BY <1>1, <1>2, <1>3 DEF TableNext

\* The statements of the services keep the promise of the abstract table: each call
\* takes effect at one instant or not at all, whatever interleaves and whatever fails.
THEOREM ImplementsTheStore == TableSpec => ImplementsStore
BY InitIsStoreInit, NextIsStoreNext, RefInvariant, PTL DEF TableSpec, ImplementsStore, Store!Spec

=============================================================================
