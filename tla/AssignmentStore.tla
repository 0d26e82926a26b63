--------------------------- MODULE AssignmentStore ---------------------------
(****************************************************************************)
(* What a client of an assignment table is promised, with no statement, no  *)
(* lock and no history in sight.  A call asks for a set of items of one     *)
(* owner and is answered once.  It takes effect at a single instant or not  *)
(* at all, and an answer other than "unknown" says which.  A grant may      *)
(* notice beforehand, at instants of their own, that some of its items are  *)
(* held already: those it leaves as they are.                               *)
(*                                                                          *)
(* JoinTable, the tables as the services write them, implements this.       *)
(****************************************************************************)
CONSTANTS
  Owners,    \* users, roles or services
  Items,     \* what they are assigned
  Workers    \* calls that can be pending at once

VARIABLES
  rows,      \* which owner holds which item
  asked      \* asked[w]: the call w waits for, or the last one it got an answer to

vars == <<rows, asked>>

Grants == {"assign", "assignMultiple"}
Revocations == {"revoke", "revokeMultiple"}
Ops == Grants \cup Revocations \cup {"replace"}

\* left: the items the call has not noticed yet.  The answer turns from "pending" to
\* "done", "missing" or "unknown".
NewCalls == {c \in [op: Ops, owner: Owners, ids: SUBSET Items, left: SUBSET Items,
                    answer: {"pending"}] : c.left = c.ids}

NoCall == [answer |-> "none"]

Row(o, S) == {<<o, i>> : i \in S}

Held(o) == {i \in Items : <<o, i>> \in rows}

Pending(w) == asked[w].answer = "pending"

-----------------------------------------------------------------------------
\* Nothing is asked twice at once; asked'[w] is any new call.
Ask(w) ==
  /\ ~Pending(w)
  /\ asked'[w] \in NewCalls
  /\ asked' = [asked EXCEPT ![w] = asked'[w]]
  /\ UNCHANGED rows

Notice(w, S) ==
  /\ Pending(w) /\ asked[w].op \in Grants
  /\ S \subseteq asked[w].left \cap Held(asked[w].owner)
  /\ asked' = [asked EXCEPT ![w] = [@ EXCEPT !.left = asked[w].left \ S]]
  /\ UNCHANGED rows

Closed(call, answer) ==
  [op |-> call.op, owner |-> call.owner, ids |-> call.ids, left |-> {}, answer |-> answer]

\* The answer to w's call; the client may lose it.
Answered(w, answer) ==
  \E a \in {answer, "unknown"} :
    asked' = [asked EXCEPT ![w] = Closed(asked[w], a)]

Grant(w) ==
  /\ Pending(w) /\ asked[w].op \in Grants
  /\ rows' = rows \cup Row(asked[w].owner, asked[w].left)
  /\ Answered(w, "done")

Revoke(w) ==
  /\ Pending(w) /\ asked[w].op \in Revocations
  /\ rows' = rows \ Row(asked[w].owner, asked[w].ids)
  /\ Answered(w, IF asked[w].op = "revoke" /\ asked[w].ids \cap Held(asked[w].owner) = {}
                 THEN "missing" ELSE "done")

Replace(w) ==
  /\ Pending(w) /\ asked[w].op = "replace"
  /\ rows' = (rows \ Row(asked[w].owner, Items)) \cup Row(asked[w].owner, asked[w].ids)
  /\ Answered(w, "done")

\* Nothing was written, and the client knows only of an error.
Refuse(w) ==
  /\ Pending(w)
  /\ asked' = [asked EXCEPT ![w] = Closed(asked[w], "unknown")]
  /\ UNCHANGED rows

Init ==
  /\ rows \in SUBSET (Owners \X Items)
  /\ asked = [w \in Workers |-> NoCall]

Next ==
  \E w \in Workers :
    \/ Ask(w)
    \/ \E S \in SUBSET Items : Notice(w, S)
    \/ Grant(w)
    \/ Revoke(w)
    \/ Replace(w)
    \/ Refuse(w)

Spec == Init /\ [][Next]_vars

=============================================================================
