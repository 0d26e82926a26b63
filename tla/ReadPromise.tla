----------------------------- MODULE ReadPromise -----------------------------
(****************************************************************************)
(* What a caller of a permission or role check is promised, with no SELECT  *)
(* in sight.  While the call waits, other requests make and break the links *)
(* by which its user could hold something.  The one answer it gets names    *)
(* everything that some link, unbroken since the call, leads to, and        *)
(* nothing that no link seen since the call leads to; only a failed read    *)
(* may leave it empty instead.                                              *)
(*                                                                          *)
(* Authorization implements this, and ComplexPermission builds on it.       *)
(****************************************************************************)
CONSTANTS
  Calls,     \* calls that can be waiting at once
  Queries,   \* what is asked
  Links      \* pairs of what a user may hold something by, and what that is

VARIABLES
  asked,    \* asked[c]: the call c waits for, or the last one it got an answer to
  steady,   \* steady[c]: the links unbroken since it was asked
  seen      \* seen[c]: those that have been seen since

links == <<steady, seen>>
vars == <<asked, links>>

NoCall == [state |-> "none"]
Waiting(q) == [state |-> "waiting", query |-> q]
Answered(q, failed, answer) ==
  [state |-> "answered", query |-> q, failed |-> failed, answer |-> answer]

Reached(L) == {l[2] : l \in L}

Waits(c) == asked[c].state = "waiting"

-----------------------------------------------------------------------------

Ask(c) ==
  /\ ~Waits(c)
  /\ \E q \in Queries : asked' = [asked EXCEPT ![c] = Waiting(q)]
  /\ steady'[c] \subseteq Links
  /\ steady' = [steady EXCEPT ![c] = steady'[c]]
  /\ seen' = [seen EXCEPT ![c] = steady'[c]]

\* Links break and appear under every call that waits.
LinksChange ==
  /\ UNCHANGED asked
  /\ \A c \in Calls : IF Waits(c)
                      THEN steady'[c] \subseteq steady[c] /\ seen[c] \subseteq seen'[c]
                      ELSE steady'[c] = steady[c] /\ seen'[c] = seen[c]
  /\ steady' \in [Calls -> SUBSET Links] /\ seen' \in [Calls -> SUBSET Links]

Answer(c) ==
  /\ Waits(c) /\ asked'[c].state = "answered"
  /\ Reached(steady[c]) \subseteq asked'[c].answer
  /\ asked'[c].answer \subseteq Reached(seen[c])
  /\ asked' = [asked EXCEPT ![c] = Answered(asked[c].query, FALSE, asked'[c].answer)]
  /\ UNCHANGED links

\* A check whose read fails lets nobody in.
Fail(c) ==
  /\ Waits(c)
  /\ asked' = [asked EXCEPT ![c] = Answered(asked[c].query, TRUE, {})]
  /\ UNCHANGED links

Init ==
  /\ asked = [c \in Calls |-> NoCall]
  /\ steady = [c \in Calls |-> {}]
  /\ seen = [c \in Calls |-> {}]

Next ==
  \/ LinksChange
  \/ \E c \in Calls : Ask(c) \/ Answer(c) \/ Fail(c)

Spec == Init /\ [][Next]_vars

=============================================================================
