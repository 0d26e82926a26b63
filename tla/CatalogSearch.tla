---------------------------- MODULE CatalogSearch ----------------------------
(****************************************************************************)
(* Reading the role table and the permission table for display: a page of   *)
(* entries (searchRoles, searchPermissions) or one entry (getRoleById,      *)
(* getPermissionById), enriched with the entry's service, which             *)
(* portal-server knows, and with who is assigned it.  The reads run in      *)
(* parallel under Promise.all while entries and assignments change, and     *)
(* each remote one has a fallback of its own.                               *)
(****************************************************************************)
EXTENDS Integers, FiniteSets

CONSTANTS
  Ids,        \* ids of entries
  Services,   \* ids of services
  Owners,     \* who is assigned entries: users of roles, roles of permissions
  Calls,      \* calls that can be running at once
  Orders,     \* what a list is sorted by: each entry's rank in the sort column
  Limit,      \* entries on a page
  MaxPage,    \* pages that are asked for
  None        \* no entry, or a read that has not answered

ASSUME SearchAssumption ==
  /\ IsFiniteSet(Ids) /\ IsFiniteSet(Owners)
  /\ Orders \subseteq [Ids -> Nat]
  /\ Limit \in Nat \ {0} /\ MaxPage \in Nat \ {0}

VARIABLES
  service,    \* service[i]: the service of the live entry i, or None
  rows,       \* the assignment table: pairs <<owner, id>>
  call,       \* call[c]: the progress of call c, or its answer
  window,     \* history: what the tables showed while call c ran
  previous    \* history: previous[c]: the page from which c's caller goes on

vars == <<service, rows, call, window, previous>>

Live == {i \in Ids : service[i] # None}

\* A service as a client sees it.
Named(s) == [id |-> s, name |-> s]
NamelessOf(s) == [id |-> s, name |-> "Service unavailable"]
Unavailable == [id |-> None, name |-> "Service unavailable"]
Unknown == [id |-> None, name |-> "Unknown Service"]
NullService == [id |-> None, name |-> "null"]

\* Services have UUIDs, which no placeholder's name is.
ASSUME PlaceholdersAreNoServices ==
  Services \cap {"Service unavailable", "Unknown Service", "null"} = {}

\* What getServicesByQuery and getServiceById return: a list, or one service.
Reply == [list: BOOLEAN, services: SUBSET
  ({Named(s) : s \in Services} \cup {NamelessOf(s) : s \in Services}
     \cup {Unavailable, NullService})]
List(S) == [list |-> TRUE, services |-> S]
One(x) == [list |-> FALSE, services |-> {x}]

Lookups == {"getRoleById", "getPermissionById"}
Items == UNION {[S -> Services] : S \in SUBSET Ids}

\* local: the holders are still to be read, their ids are known, or their names too.
\* whole: nothing about the holders was lost to a failure or to who names them.
Call == [op: {"search"} \cup Lookups, phase: {"page", "entry", "enrich"},
         order: Orders \cup {None}, page: 1..MaxPage, id: Ids \cup {None},
         items: Items \cup {None}, total: 0..Cardinality(Ids) \cup {None},
         local: {"pending", "ids", "known"}, holders: SUBSET (Owners \X Ids),
         portal: Reply \cup {None}, whole: BOOLEAN]

ASSUME NoneIsNoAnswer == None \notin Nat \cup Items \cup Reply

Absent == [phase |-> "absent"]

\* steady, before: whether the entries have stayed what they were when the call began.
\* held, keeps: assignments at some instant since the items were read, and at every.
Window == [steady: BOOLEAN, before: SUBSET Ids,
           held: SUBSET (Owners \X Ids), keeps: SUBSET (Owners \X Ids)]
NoWindow == [steady |-> TRUE, before |-> {}, held |-> {}, keeps |-> {}]

\* A page of a list that did not change while it was read.
Leaf == [list: SUBSET Ids, order: Orders, page: 1..MaxPage, items: SUBSET Ids]
NoLeaf == [page |-> 0]

At(c, phase) == call[c].phase = phase
Running(c) == call[c].phase \in {"page", "entry", "enrich"}
Finished(c) == call[c].phase = "done"

-----------------------------------------------------------------------------
(* Pages: ORDER BY one column the caller chooses, OFFSET and LIMIT.  Entries that  *)
(* have the same value in it come in any order, in each statement anew.            *)

\* Mutant: the ORDER BY is left out.
FirstOf_Unordered(S, order, n) ==
  {F \in SUBSET S : Cardinality(F) = IF n < Cardinality(S) THEN n ELSE Cardinality(S)}

\* What the first n of S can be.
FirstOf(S, order, n) ==
  {F \in SUBSET S :
     /\ Cardinality(F) = IF n < Cardinality(S) THEN n ELSE Cardinality(S)
     /\ \A i \in F, j \in S \ F : order[i] <= order[j]}

PagesOf(S, order, page) ==
  UNION {FirstOf(S \ skipped, order, Limit) : skipped \in FirstOf(S, order, (page - 1) * Limit)}

\* Mutant: the last page is not counted unless it is full.
TotalPages_Floor(total) == total \div Limit

\* Math.ceil(total / limit).
TotalPages(total) == (total + Limit - 1) \div Limit

hasNextPage(page, total) == page < TotalPages(total)

-----------------------------------------------------------------------------
(* What is done with the reads. *)

Goes(c, k) ==
  /\ call' = [call EXCEPT ![c] = k]
  /\ UNCHANGED <<service, rows, window, previous>>

Fails(c, reply) == Goes(c, [phase |-> "done", op |-> call[c].op, reply |-> reply])

\* The answer shows k's items, each with a service and with its holders.
Shows(k, shown, holders, whole) ==
  [phase |-> "done", op |-> k.op, reply |-> "ok", order |-> k.order, page |-> k.page,
   items |-> k.items, shown |-> shown, holders |-> holders, whole |-> whole,
   next |-> k.op = "search" /\ hasNextPage(k.page, k.total)]

\* buildRoleSearchResults: a list is searched for the item's service, anything else is
\* taken for it.
ServiceOf(reply, s) ==
  LET own == {x \in reply.services : x.id = s}
  IN IF ~reply.list THEN CHOOSE x \in reply.services : TRUE
     ELSE IF own = {} THEN Unknown ELSE CHOOSE x \in own : TRUE

\* Promise.all: the answer is built when both reads are there.
Enriched(k) ==
  IF k.local # "known" \/ k.portal = None THEN k
  ELSE Shows(k, [i \in DOMAIN k.items |-> ServiceOf(k.portal, k.items[i])], k.holders, k.whole)

\* buildFallbackRoleSearchResults, and the catch of the lookups.
Fallback(k) == Shows(k, [i \in DOMAIN k.items |-> Unavailable], {}, FALSE)

Paged(k) ==
  IF k.items = None \/ k.total = None THEN k
  ELSE IF k.items = <<>> THEN Shows(k, <<>>, {}, TRUE)
  ELSE [k EXCEPT !.phase = "enrich"]

-----------------------------------------------------------------------------
(* The methods. *)

Start(c, op, order, page, i, phase) ==
  /\ At(c, "absent")
  /\ call' = [call EXCEPT ![c] =
       [op |-> op, phase |-> phase, order |-> order, page |-> page, id |-> i,
        items |-> None, total |-> None, local |-> "pending", holders |-> {}, portal |-> None, whole |-> TRUE]]
  /\ window' = [window EXCEPT ![c] =
       [steady |-> TRUE, before |-> Live, held |-> rows, keeps |-> rows]]
  /\ UNCHANGED <<service, rows>>

\* The caller goes on to a later page of the same list.
GoesOn(c, order, page) ==
  0 < previous[c].page /\ previous[c].page < page
    /\ previous[c].list = Live /\ previous[c].order = order

searchRoles(c, order, page) ==
  /\ Start(c, "search", order, page, None, "page")
  /\ previous' = [previous EXCEPT ![c] = IF GoesOn(c, order, page) THEN @ ELSE NoLeaf]

\* The page and the count are two statements, sent together.
ReadItems(c) ==
  /\ At(c, "page") /\ call[c].items = None
  /\ \E page \in PagesOf(Live, call[c].order, call[c].page) :
       Goes(c, Paged([call[c] EXCEPT !.items = [i \in page |-> service[i]]]))

ReadTotal(c) ==
  /\ At(c, "page") /\ call[c].total = None
  /\ Goes(c, Paged([call[c] EXCEPT !.total = Cardinality(Live)]))

\* Nothing is caught before the page is there.
ReadFails(c) == Running(c) /\ ~At(c, "enrich") /\ Fails(c, "error")

getById(c, op, i) ==
  /\ Start(c, op, None, 1, i, "entry")
  /\ previous' = [previous EXCEPT ![c] = NoLeaf]

\* findByIdOrFail.
FindEntry(c) ==
  LET i == call[c].id
  IN /\ At(c, "entry")
     /\ IF i \in Live
        THEN Goes(c, [call[c] EXCEPT !.phase = "enrich", !.items = [j \in {i} |-> service[j]]])
        ELSE Fails(c, "notFound")

\* Mutant: a page of two asks for one service.
Many_MoreThanTwo(items) == Cardinality(DOMAIN items) > 2

\* hasServiceIdFilter; the details of one entry always ask for one service.
Many(items) == Cardinality(DOMAIN items) > 1

\* External: portal-server finds some of the services it is asked for, or gives null.
PortalReplies(items) ==
  {One(NullService)} \cup
    (IF Many(items) THEN {List({Named(s) : s \in S}) : S \in SUBSET {items[i] : i \in DOMAIN items}}
                    ELSE {One(Named(items[i])) : i \in DOMAIN items})

PortalAnswers(c) ==
  /\ At(c, "enrich") /\ call[c].portal = None
  /\ \E reply \in PortalReplies(call[c].items) :
       Goes(c, Enriched([call[c] EXCEPT !.portal = reply]))

\* Mutant: the failure is swallowed and nothing is put in the answer's place.
PortalFails_Nothing(c) ==
  /\ At(c, "enrich") /\ call[c].portal = None
  /\ Goes(c, Enriched([call[c] EXCEPT !.portal = One(None)]))

\* The fallback for several services is one, the fallback for one is a list.
PortalFails(c) ==
  LET k == call[c]
  IN /\ At(c, "enrich") /\ k.portal = None
     /\ Goes(c, Enriched([k EXCEPT !.portal =
          IF k.op \in Lookups \/ Many(k.items) THEN One(Unavailable)
          ELSE List({NamelessOf(k.items[i]) : i \in DOMAIN k.items})]))

\* Mutant: everything in the table is counted for every item.
HoldersOf_All(items) == Owners \X DOMAIN items

\* What the assignment table has for the items.
HoldersOf(items) == {k \in rows : k[2] \in DOMAIN items}

\* Mutant: the two reads are awaited one after the other.
HoldersWanted_Last(c) ==
  At(c, "enrich") /\ call[c].local = "pending" /\ call[c].portal # None

\* The two reads are sent together.
HoldersWanted(c) == At(c, "enrich") /\ call[c].local = "pending"

\* One query for all items.  A search counts what it finds; the details go on to ask
\* who the ids are, unless there are none.
ReadHolders(c) ==
  /\ HoldersWanted(c)
  /\ LET found == HoldersOf(call[c].items)
     IN Goes(c, Enriched([call[c] EXCEPT
          !.holders = found,
          !.local = IF call[c].op = "search" \/ found = {} THEN "known" ELSE "ids"]))

\* Promise.all rejects at once, and portal-server's answer is not waited for.
ReadHoldersFails(c) == HoldersWanted(c) /\ Goes(c, Fallback(call[c]))

\* External: auth-server, or the role table, knows some of the holders.
NameHolders(c, op) ==
  /\ At(c, "enrich") /\ call[c].local = "ids" /\ call[c].op = op
  /\ \E known \in SUBSET call[c].holders :
       Goes(c, Enriched([call[c] EXCEPT !.local = "known", !.holders = known,
                                        !.whole = (known = call[c].holders)]))

\* A failure of auth-server leaves a role without users; a failure of the role table is
\* not caught there, and leaves a permission without its service as well.
NameHoldersFails(c, op) ==
  /\ At(c, "enrich") /\ call[c].local = "ids" /\ call[c].op = op
  /\ Goes(c, IF op = "getPermissionById" THEN Fallback(call[c])
             ELSE Enriched([call[c] EXCEPT !.local = "known", !.holders = {}, !.whole = FALSE]))

\* The answer of a search.
Page(c) == Finished(c) /\ call[c].op = "search" /\ call[c].reply = "ok"

LeafOf(c) ==
  IF Page(c) /\ window[c].steady
  THEN [list |-> window[c].before, order |-> call[c].order, page |-> call[c].page,
        items |-> DOMAIN call[c].items]
  ELSE NoLeaf

\* The caller has the answer.
Returns(c) ==
  /\ Finished(c)
  /\ previous' = [previous EXCEPT ![c] = LeafOf(c)]
  /\ call' = [call EXCEPT ![c] = Absent]
  /\ window' = [window EXCEPT ![c] = NoWindow]
  /\ UNCHANGED <<service, rows>>

\* Steps that wait for this server's database only.
LocalStep(c) ==
  \/ ReadItems(c) \/ ReadTotal(c) \/ ReadFails(c) \/ FindEntry(c)
  \/ ReadHolders(c) \/ ReadHoldersFails(c)
  \/ NameHolders(c, "getPermissionById") \/ NameHoldersFails(c, "getPermissionById")

\* Steps that wait for another server.
RemoteStep(c) ==
  \/ PortalAnswers(c) \/ PortalFails(c)
  \/ NameHolders(c, "getRoleById") \/ NameHoldersFails(c, "getRoleById")

-----------------------------------------------------------------------------
(* Other requests commit changes.  A call may start from any tables (Init), so *)
(* they matter only to the entries of a page between its two reads, and to the *)
(* assignments of a call's items until the call ends.                          *)

BetweenReads(c) == At(c, "page") /\ (call[c].items # None \/ call[c].total # None)

EntriesChange ==
  /\ \E c \in Calls : BetweenReads(c)
  /\ \E i \in Ids, s \in Services \cup {None} : service' = [service EXCEPT ![i] = s]
  /\ window' = [c \in Calls |->
       IF At(c, "page") THEN [window[c] EXCEPT !.steady = @ /\ service' = service] ELSE window[c]]
  /\ UNCHANGED <<rows, call, previous>>

AssignmentsChange ==
  /\ \E c \in Calls :
       /\ At(c, "enrich")
       /\ \E k \in Owners \X DOMAIN call[c].items : rows' \in {rows \cup {k}, rows \ {k}}
  /\ window' = [c \in Calls |->
       IF Running(c) THEN [window[c] EXCEPT !.held = @ \cup rows', !.keeps = @ \cap rows'] ELSE window[c]]
  /\ UNCHANGED <<service, call, previous>>

Init ==
  /\ service \in [Ids -> Services \cup {None}]
  /\ rows \in SUBSET (Owners \X Ids)
  /\ call = [c \in Calls |-> Absent]
  /\ window = [c \in Calls |-> NoWindow]
  /\ previous = [c \in Calls |-> NoLeaf]

Next ==
  \/ \E c \in Calls :
       \/ \E order \in Orders, page \in 1..MaxPage : searchRoles(c, order, page)
       \/ \E op \in Lookups, i \in Ids : getById(c, op, i)
       \/ LocalStep(c)
       \/ RemoteStep(c)
       \/ Returns(c)
  \/ EntriesChange
  \/ AssignmentsChange

Spec == Init /\ [][Next]_vars

\* The database answers or fails; the other servers owe nothing.
FairSpec == Spec /\ \A c \in Calls : WF_vars(LocalStep(c))

-----------------------------------------------------------------------------
(* Properties. *)

TypeOK ==
  /\ service \in [Ids -> Services \cup {None}]
  /\ rows \subseteq Owners \X Ids
  /\ \A c \in Calls : Finished(c) \/ call[c] \in Call \cup {Absent}
  /\ window \in [Calls -> Window]
  /\ previous \in [Calls -> Leaf \cup {NoLeaf}]

\* A caller who leafs through a list that stays as it is sees nothing on a later page
\* that belongs before an entry of an earlier one.  An entry he sees twice ties with
\* another one, and so does an entry he misses between two neighbouring pages.
PagesFollowOneAnother ==
  \A c \in Calls :
    LET p == previous[c]
        q == LeafOf(c)
        Tied(i) == \E j \in p.list \ {i} : p.order[j] = p.order[i]
        Between(i) == /\ \E x \in p.items : p.order[x] < p.order[i]
                      /\ \E y \in q.items : p.order[i] < p.order[y]
    IN 0 < p.page /\ p.page < q.page /\ p.list = q.list /\ p.order = q.order =>
         /\ \A i \in p.items, j \in q.items : p.order[i] <= p.order[j]
         /\ \A i \in p.items \cap q.items : Tied(i)
         /\ q.page = p.page + 1 =>
              \A i \in p.list \ (p.items \cup q.items) : Between(i) => Tied(i)

\* The page and the count are read at two instants; if no entry changed in between they
\* fit together, and a next page is announced exactly when something would be on it.
NextPageIsAnnounced ==
  \A c \in Calls :
    LET k == call[c]
        list == window[c].before
    IN Page(c) /\ window[c].steady =>
         /\ DOMAIN k.items \in PagesOf(list, k.order, k.page)
         /\ \A page \in PagesOf(list, k.order, k.page + 1) : k.next <=> page # {}

\* Whichever read fails and whatever portal-server finds, no entry is shown with the
\* service of another one.
ItemsShowTheirOwnService ==
  \A c \in Calls : Finished(c) /\ call[c].reply = "ok" =>
    \A i \in DOMAIN call[c].items :
      call[c].shown[i].name \in Services => call[c].shown[i] = Named(call[c].items[i])

\* A count or a list of holders has only holders that were assigned the entry while the
\* call ran, and unless a read failed it has all those who were throughout: a fallback
\* may hide holders, it never invents one.
HoldersAreWitnessed ==
  \A c \in Calls : Finished(c) /\ call[c].reply = "ok" =>
    /\ call[c].holders \subseteq window[c].held
    /\ call[c].whole => {k \in window[c].keeps : k[2] \in DOMAIN call[c].items} \subseteq call[c].holders

\* The answers of other servers that an enrichment still lacks.
WaitsForOthers(c) ==
  /\ At(c, "enrich")
  /\ call[c].local = "known" \/ (call[c].local = "ids" /\ call[c].op = "getRoleById")

\* A call ends unless another server leaves it without an answer for ever, and then its
\* own reads have all succeeded: a failed one ends it although the others are silent.
OnlyOthersKeepACallWaiting ==
  \A c \in Calls : Running(c) ~> (Finished(c) \/ []WaitsForOthers(c))

=============================================================================
