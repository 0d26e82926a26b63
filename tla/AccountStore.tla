---------------------------- MODULE AccountStore ----------------------------
(****************************************************************************)
(* What the clients of user_role are promised, auth-server among them: the  *)
(* AssignmentStore, on which merges and rollbacks of two users' accounts    *)
(* act besides.  A merge or rollback notices what the two users hold, at    *)
(* instants of its own; at one later instant it moves what it has noticed,  *)
(* or it does nothing.  By then it may know of roles that are gone and not  *)
(* of those that came.                                                      *)
(*                                                                          *)
(* UserRole, with its locks and transactions, implements this.              *)
(****************************************************************************)
EXTENDS AssignmentStore

CONSTANTS
  Migrators,   \* merges and rollbacks that can be pending at once
  MergePairs   \* the <<source, target>> pairs they are asked for

VARIABLE
  moving       \* moving[m]: the merge or rollback m waits for, or its answer

accountVars == <<vars, moving>>

\* had: what the source was noticed to hold; has: what the target was.
NewMove(kind, p, S) ==
  [kind |-> kind, source |-> p[1], target |-> p[2], ids |-> S,
   had |-> {}, has |-> {}, answer |-> "pending"]

\* The source was seen to hold S, the target T.
Noticed(k, S, T) ==
  [kind |-> k.kind, source |-> k.source, target |-> k.target, ids |-> k.ids,
   had |-> k.had \cup S, has |-> k.has \cup T, answer |-> "pending"]

NoMove == [answer |-> "none"]

Moving(m) == moving[m].answer = "pending"

-----------------------------------------------------------------------------
\* A rollback names the roles the source should have back.
AskMove(m, kind, p, S) ==
  /\ ~Moving(m)
  /\ kind = "merge" => S = {}
  /\ moving' = [moving EXCEPT ![m] = NewMove(kind, p, S)]
  /\ UNCHANGED rows

NoticeHeld(m) ==
  /\ Moving(m)
  /\ \E S \in SUBSET Held(moving[m].source), T \in SUBSET Held(moving[m].target) :
       moving' = [moving EXCEPT ![m] = Noticed(moving[m], S, T)]
  /\ UNCHANGED rows

MoveAnswered(m, answers) ==
  \E a \in answers : moving' = [moving EXCEPT ![m] = [answer |-> a]]

\* All the source was noticed to hold leaves it.  What it still has and the target was
\* not noticed to hold reaches the target, which has none of it yet.
Merge(m) ==
  LET k == moving[m]
      moved == (k.had \ k.has) \cap Held(k.source)
  IN /\ Moving(m) /\ k.kind = "merge"
     /\ k.source # k.target => moved \cap Held(k.target) = {}
     /\ rows' = (rows \ Row(k.source, k.had)) \cup Row(k.target, moved)
     /\ MoveAnswered(m, {"done", "unknown"})

\* The listed roles the target was noticed to hold leave it and reach the source, but
\* for those the source was noticed to hold.
Rollback(m) ==
  LET k == moving[m]
      restored == k.ids \cap k.has
  IN /\ Moving(m) /\ k.kind = "rollback"
     /\ rows' = (rows \ Row(k.target, restored)) \cup Row(k.source, restored \ k.had)
     /\ MoveAnswered(m, {"done", "unknown"})

\* At this instant there is nothing to move.
NothingToMove(m) ==
  LET k == moving[m]
  IN /\ Moving(m)
     /\ k.kind = "merge" => Held(k.source) = {}
     /\ k.kind = "rollback" => k.ids \cap Held(k.target) = {}
     /\ MoveAnswered(m, {"done"})
     /\ UNCHANGED rows

RefuseMove(m) ==
  /\ Moving(m)
  /\ MoveAnswered(m, {"unknown"})
  /\ UNCHANGED rows

MoveStep(m) ==
  \/ \E kind \in {"merge", "rollback"}, p \in MergePairs, S \in SUBSET Items :
       AskMove(m, kind, p, S)
  \/ NoticeHeld(m)
  \/ Merge(m)
  \/ Rollback(m)
  \/ NothingToMove(m)
  \/ RefuseMove(m)

AccountInit ==
  /\ Init
  /\ moving = [m \in Migrators |-> NoMove]

AccountNext ==
  \/ Next /\ UNCHANGED moving
  \/ \E m \in Migrators : MoveStep(m) /\ UNCHANGED asked

AccountSpec == AccountInit /\ [][AccountNext]_accountVars

=============================================================================
