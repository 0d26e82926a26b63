------------------------ MODULE CatalogSearchProofs ------------------------
(****************************************************************************)
(* What a page of roles or permissions shows, and what the details of one   *)
(* entry show, for any number of entries, services, holders and calls, for  *)
(* pages of any size, and whichever reads fail.                             *)
(****************************************************************************)
EXTENDS CatalogSearch, FiniteSetTheorems, TLAPS

(* What a call half way relies on. *)

\* Nothing has been read of the items' services and holders.
Untouched(k) == k.local = "pending" /\ k.portal = None /\ k.holders = {} /\ k.whole

\* If the entries stayed what they were, the page and the count are theirs.
PageFits(k, w) ==
  k.op = "search" =>
    /\ k.order \in Orders
    /\ w.steady =>
         /\ k.items # None => DOMAIN k.items \in PagesOf(w.before, k.order, k.page)
         /\ k.total # None => k.total = Cardinality(w.before)

\* The holders found were assigned at some instant, and are all who were throughout
\* unless some were lost on the way.
HoldersFit(k, w) ==
  /\ k.holders \subseteq w.held
  /\ k.local # "known" => k.whole
  /\ k.local # "pending" /\ k.whole =>
       {h \in w.keeps : h[2] \in DOMAIN k.items} \subseteq k.holders

\* portal-server's answer, or what stands for it, gives no item another's service.
ServicesFit(k) ==
  k.portal # None => \A i \in DOMAIN k.items :
    ServiceOf(k.portal, k.items[i]).name \in Services
      => ServiceOf(k.portal, k.items[i]) = Named(k.items[i])

Progress(k, w) ==
  /\ k \in Call
  /\ PageFits(k, w)
  /\ k.phase = "page" => k.op = "search" /\ Untouched(k)
  /\ k.phase = "entry" => k.op \in Lookups /\ Untouched(k) /\ k.id \in Ids
  /\ k.phase = "enrich" =>
       /\ k.items # None /\ (k.op = "search" => k.total # None)
       /\ HoldersFit(k, w)
       /\ ServicesFit(k)

\* The three properties of an answer.
NextIsTrue(k, w) ==
  k.op = "search" =>
    /\ k.order \in Orders /\ k.page \in 1..MaxPage
    /\ w.steady =>
         /\ DOMAIN k.items \in PagesOf(w.before, k.order, k.page)
         /\ \A page \in PagesOf(w.before, k.order, k.page + 1) : k.next <=> page # {}

ServicesAreOwn(k) ==
  \A i \in DOMAIN k.items : k.shown[i].name \in Services => k.shown[i] = Named(k.items[i])

HoldersAreTrue(k, w) ==
  /\ k.holders \subseteq w.held
  /\ k.whole => {h \in w.keeps : h[2] \in DOMAIN k.items} \subseteq k.holders

Answer(k, w) ==
  /\ k.phase = "done"
  /\ k.reply = "ok" => NextIsTrue(k, w) /\ ServicesAreOwn(k) /\ HoldersAreTrue(k, w)

Good(k, w) == k = Absent \/ Progress(k, w) \/ Answer(k, w)

\* The window of a call contains the tables as they are now.
Tracks(k, w, s, table) ==
  /\ k.phase \in {"page", "entry", "enrich"} => table \subseteq w.held /\ w.keeps \subseteq table
  /\ k.phase = "page" /\ w.steady => w.before = {i \in Ids : s[i] # None}

\* The page from which a caller goes on was a page of its list.
LeafFits(p) ==
  p # NoLeaf => p.items \in PagesOf(p.list, p.order, p.page)

IInv ==
  /\ service \in [Ids -> Services \cup {None}]
  /\ rows \subseteq Owners \X Ids
  /\ window \in [Calls -> Window]
  /\ previous \in [Calls -> Leaf \cup {NoLeaf}]
  /\ \A c \in Calls : LeafFits(previous[c])
  /\ DOMAIN call = Calls
  /\ \A c \in Calls : Good(call[c], window[c]) /\ Tracks(call[c], window[c], service, rows)

-----------------------------------------------------------------------------
(* Pages. *)

LEMMA DivBounds ==
  ASSUME NEW a \in Nat, NEW d \in Nat \ {0}
  PROVE  a \div d \in Nat /\ (a \div d) * d <= a /\ a < (a \div d + 1) * d
<1>1. a \div d \in Nat
  BY SMT
<1>2. (a \div d) * d <= a
  BY SMT
<1>3. a < (a \div d + 1) * d
  BY SMT
<1>4. QED
  BY <1>1, <1>2, <1>3

LEMMA ProductMonotone ==
  ASSUME NEW a \in Nat, NEW b \in Nat, NEW d \in Nat, a <= b
  PROVE  a * d <= b * d
BY SMT

\* Math.ceil(total / limit) counts the pages that begin before the end of the list.
LEMMA TotalPagesCount ==
  ASSUME NEW n \in Nat, NEW p \in Nat
  PROVE  TotalPages(n) \in Nat /\ (p < TotalPages(n) <=> p * Limit < n)
<1> DEFINE q == (n + Limit - 1) \div Limit
<1>1. Limit \in Nat \ {0} /\ n + Limit - 1 \in Nat
  BY SearchAssumption
<1>2. q \in Nat /\ q * Limit <= n + Limit - 1 /\ n + Limit - 1 < (q + 1) * Limit
  BY <1>1, DivBounds
<1> HIDE DEF q
<1>3. /\ (q + 1) * Limit = q * Limit + Limit /\ (p + 1) * Limit = p * Limit + Limit
      /\ p * Limit \in Nat /\ q * Limit \in Nat
  BY <1>1, <1>2
<1>4. ASSUME p < q PROVE p * Limit < n
  <2>1. (p + 1) * Limit <= q * Limit
    BY <1>1, <1>2, <1>4, ProductMonotone
  <2>2. QED
    BY <1>1, <1>2, <1>3, <2>1
<1>5. ASSUME q <= p PROVE n <= p * Limit
  <2>1. q * Limit <= p * Limit
    BY <1>1, <1>2, <1>5, ProductMonotone
  <2>2. QED
    BY <1>1, <1>2, <1>3, <2>1
<1>6. QED
  BY <1>2, <1>3, <1>4, <1>5 DEF TotalPages, q

LEMMA ListIsFinite ==
  ASSUME NEW S \in SUBSET Ids
  PROVE  IsFiniteSet(S) /\ Cardinality(S) \in Nat
BY SearchAssumption, FS_Subset, FS_CardinalityType

LEMMA DisjointUnion ==
  ASSUME NEW A \in SUBSET Ids, NEW B \in SUBSET Ids, A \cap B = {}
  PROVE  Cardinality(A \cup B) = Cardinality(A) + Cardinality(B)
<1>1. /\ IsFiniteSet(A) /\ IsFiniteSet(B)
      /\ Cardinality(A) \in Nat /\ Cardinality(B) \in Nat
  BY ListIsFinite
<1>2. Cardinality(A \cup B) = Cardinality(A) + Cardinality(B) - Cardinality(A \cap B)
  BY <1>1, FS_Union
<1>3. Cardinality(A \cap B) = 0
  BY FS_EmptySet
<1>4. QED
  BY <1>1, <1>2, <1>3

LEMMA PageIsOfList ==
  ASSUME NEW S, NEW order, NEW page, NEW P \in PagesOf(S, order, page)
  PROVE  P \in SUBSET S
BY DEF PagesOf, FirstOf

\* F is a beginning of the list S: nothing outside it belongs before something in it.
Begins(F, S, order) ==
  F \in SUBSET S /\ \A i \in F, j \in S \ F : order[i] <= order[j]

\* How many entries the first m pages of S have.
UpTo(m, S) == IF m * Limit < Cardinality(S) THEN m * Limit ELSE Cardinality(S)

\* P is what lies between two beginnings of the list, of the sizes the page's number says.
Between(P, F, G, S, order, page) ==
  /\ F \in SUBSET S /\ G \in SUBSET S /\ F \subseteq G /\ P = G \ F
  /\ Begins(F, S, order) /\ Begins(G, S, order)
  /\ Cardinality(F) = UpTo(page - 1, S) /\ Cardinality(G) = UpTo(page, S)

LEMMA PageBetweenBeginnings ==
  ASSUME NEW S \in SUBSET Ids, NEW order \in Orders, NEW page \in Nat \ {0},
         NEW P \in PagesOf(S, order, page)
  PROVE  \E F, G : Between(P, F, G, S, order, page)
<1>1. PICK F \in FirstOf(S, order, (page - 1) * Limit) : P \in FirstOf(S \ F, order, Limit)
  BY DEF PagesOf
<1> DEFINE n == Cardinality(S)
           m == (page - 1) * Limit
           G == F \cup P
<1>2. /\ n \in Nat /\ m \in Nat /\ Limit \in Nat /\ page * Limit = m + Limit
  BY ListIsFinite, SearchAssumption
<1>3. /\ F \in SUBSET S /\ Cardinality(F) = (IF m < n THEN m ELSE n)
      /\ Begins(F, S, order)
  BY <1>1 DEF FirstOf, Begins
<1>4. IsFiniteSet(S \ F) /\ Cardinality(S \ F) = n - Cardinality(F)
  <2>1. /\ IsFiniteSet(S \ F) /\ IsFiniteSet(F) /\ IsFiniteSet(S)
        /\ Cardinality(S \ F) \in Nat /\ Cardinality(F) \in Nat
    BY <1>3, ListIsFinite
  <2>2. S = (S \ F) \cup F /\ (S \ F) \cap F = {} /\ S \ F \in SUBSET Ids /\ F \in SUBSET Ids
    BY <1>3
  <2>3. Cardinality((S \ F) \cup F) = Cardinality(S \ F) + Cardinality(F)
    BY <2>2, DisjointUnion
  <2>4. n = Cardinality(S \ F) + Cardinality(F)
    BY <2>2, <2>3
  <2>5. QED
    BY <1>2, <2>1, <2>4
<1>5. /\ P \in SUBSET (S \ F)
      /\ Cardinality(P) = (IF Limit < n - Cardinality(F) THEN Limit ELSE n - Cardinality(F))
      /\ \A i \in P, j \in (S \ F) \ P : order[i] <= order[j]
  BY <1>1, <1>4 DEF FirstOf
<1>6. Cardinality(G) = Cardinality(F) + Cardinality(P)
  <2>1. F \in SUBSET Ids /\ P \in SUBSET Ids /\ F \cap P = {}
    BY <1>3, <1>5
  <2>2. QED
    BY <2>1, DisjointUnion
<1>7. Begins(G, S, order)
  BY <1>3, <1>5 DEF Begins
<1>8. G \in SUBSET S /\ F \subseteq G /\ P = G \ F
  BY <1>3, <1>5
<1>9. Cardinality(G) = IF page * Limit < n THEN page * Limit ELSE n
  <2> HIDE DEF n, m, G
  <2>1. QED
    BY <1>2, <1>3, <1>5, <1>6
<1>10. Cardinality(F) = UpTo(page - 1, S) /\ Cardinality(G) = UpTo(page, S)
  BY <1>3, <1>9 DEF UpTo
<1>11. Between(P, F, G, S, order, page)
  BY <1>3, <1>7, <1>8, <1>10 DEF Between
<1>12. QED
  BY <1>11

\* A next page has something on it exactly if the count says so.
LEMMA NextPage ==
  ASSUME NEW S \in SUBSET Ids, NEW order \in Orders, NEW q \in Nat \ {0},
         NEW P \in PagesOf(S, order, q)
  PROVE  hasNextPage(q - 1, Cardinality(S)) <=> P # {}
<1> DEFINE n == Cardinality(S)
<1>1. /\ q - 1 \in Nat /\ Limit \in Nat \ {0} /\ n \in Nat
      /\ (q - 1) * Limit \in Nat /\ q * Limit = (q - 1) * Limit + Limit
  BY SearchAssumption, ListIsFinite
<1>2. PICK F, G : Between(P, F, G, S, order, q)
  BY PageBetweenBeginnings
<1>3. P = {} <=> Cardinality(F) = Cardinality(G)
  <2>1. IsFiniteSet(G) /\ (F = G <=> Cardinality(F) = Cardinality(G))
    BY <1>2, ListIsFinite, FS_Subset DEF Between
  <2>2. QED
    BY <1>2, <2>1 DEF Between
<1>4. hasNextPage(q - 1, n) <=> (q - 1) * Limit < n
  BY <1>1, TotalPagesCount DEF hasNextPage
<1>5. UpTo(q - 1, S) = UpTo(q, S) <=> ~((q - 1) * Limit < n)
  <2>1. /\ UpTo(q - 1, S) = (IF (q - 1) * Limit < n THEN (q - 1) * Limit ELSE n)
        /\ UpTo(q, S) = (IF q * Limit < n THEN q * Limit ELSE n)
    BY DEF UpTo
  <2> HIDE DEF n
  <2>2. QED
    BY <1>1, <2>1
<1>6. QED
  BY <1>2, <1>3, <1>4, <1>5 DEF Between

LEMMA LargerHasMore ==
  ASSUME NEW S \in SUBSET Ids, NEW F \in SUBSET S, NEW G \in SUBSET S,
         Cardinality(F) <= Cardinality(G), NEW i \in F \ G
  PROVE  \E g \in G : g \notin F
<1>1. SUFFICES ASSUME G \in SUBSET F
               PROVE  FALSE
  OBVIOUS
<1>2. /\ IsFiniteSet(F) /\ Cardinality(F) \in Nat /\ Cardinality(G) \in Nat
  BY ListIsFinite
<1>3. Cardinality(G) <= Cardinality(F)
  BY <1>1, <1>2, FS_Subset
<1>4. F = G
  BY <1>1, <1>2, <1>3, FS_Subset
<1>5. QED
  BY <1>4

\* Of two beginnings, an entry of the smaller that is not in the larger ties with one for
\* which it is the other way round.
LEMMA SwappedEntriesTie ==
  ASSUME NEW S \in SUBSET Ids, NEW order \in Orders, NEW F, NEW G,
         Begins(F, S, order), Begins(G, S, order),
         Cardinality(F) <= Cardinality(G), NEW i \in F \ G
  PROVE  \E g \in G \ F : order[g] = order[i]
<1>1. PICK g \in G : g \notin F
  BY LargerHasMore DEF Begins
<1>2. i \in Ids /\ g \in Ids /\ order \in [Ids -> Nat]
  BY SearchAssumption DEF Begins
<1>3. order[i] <= order[g] /\ order[g] <= order[i]
  BY <1>1 DEF Begins
<1>4. order[i] \in Nat /\ order[g] \in Nat
  BY <1>2
<1>5. QED
  BY <1>1, <1>3, <1>4

\* Nothing outside the larger beginning belongs before something in the smaller.
LEMMA BeginningsAgree ==
  ASSUME NEW S \in SUBSET Ids, NEW order \in Orders, NEW F, NEW G,
         Begins(F, S, order), Begins(G, S, order),
         Cardinality(F) <= Cardinality(G), NEW i \in F, NEW j \in S \ G
  PROVE  order[i] <= order[j]
<1>1. CASE i \in G \/ j \notin F
  BY <1>1 DEF Begins
<1>2. CASE i \notin G /\ j \in F
  <2>1. PICK g \in G \ F : order[g] = order[i]
    BY <1>2, SwappedEntriesTie
  <2>2. order[g] <= order[j]
    BY <2>1 DEF Begins
  <2>3. QED
    BY <2>1, <2>2
<1>3. QED
  BY <1>1, <1>2

\* Two pages of one list: what the later one may show, repeat and leave out.
LEMMA PagesInOrder ==
  ASSUME NEW S \in SUBSET Ids, NEW order \in Orders,
         NEW p \in Nat \ {0}, NEW q \in Nat \ {0}, p < q,
         NEW P \in PagesOf(S, order, p), NEW Q \in PagesOf(S, order, q)
  PROVE  /\ \A i \in P, j \in Q : order[i] <= order[j]
         /\ \A i \in P \cap Q : \E j \in S \ {i} : order[j] = order[i]
         /\ q = p + 1 => \A i \in S \ (P \cup Q) :
              (\E x \in P : order[x] < order[i]) /\ (\E y \in Q : order[i] < order[y])
                => \E j \in S \ {i} : order[j] = order[i]
<1>1. PICK F1, G1 : Between(P, F1, G1, S, order, p)
  BY PageBetweenBeginnings
<1>2. PICK F2, G2 : Between(Q, F2, G2, S, order, q)
  BY PageBetweenBeginnings
<1>3. Cardinality(G1) <= Cardinality(F2)
  <2> DEFINE n == Cardinality(S)
  <2>1. n \in Nat /\ Limit \in Nat /\ p \in Nat /\ q - 1 \in Nat /\ p <= q - 1
    BY ListIsFinite, SearchAssumption
  <2>2. p * Limit <= (q - 1) * Limit /\ p * Limit \in Nat /\ (q - 1) * Limit \in Nat
    BY <2>1, ProductMonotone
  <2>3. /\ UpTo(p, S) = (IF p * Limit < n THEN p * Limit ELSE n)
        /\ UpTo(q - 1, S) = (IF (q - 1) * Limit < n THEN (q - 1) * Limit ELSE n)
    BY DEF UpTo
  <2> HIDE DEF n
  <2>4. QED
    BY <1>1, <1>2, <2>1, <2>2, <2>3 DEF Between
<1>4. \A i \in Ids : order[i] \in Nat
  BY SearchAssumption
<1>5. ASSUME NEW i \in P, NEW j \in Q
      PROVE  order[i] <= order[j]
  BY <1>1, <1>2, <1>3, BeginningsAgree DEF Between, Begins
<1>6. ASSUME NEW i \in P \cap Q
      PROVE  \E j \in S \ {i} : order[j] = order[i]
  <2>1. i \in G1 \ F2
    BY <1>1, <1>2 DEF Between
  <2>2. PICK g \in F2 \ G1 : order[g] = order[i]
    BY <1>1, <1>2, <1>3, <2>1, SwappedEntriesTie DEF Between
  <2>3. QED
    BY <1>2, <2>1, <2>2 DEF Between
<1>7. ASSUME q = p + 1, NEW i \in S \ (P \cup Q),
             NEW x \in P, order[x] < order[i], NEW y \in Q, order[i] < order[y]
      PROVE  \E j \in S \ {i} : order[j] = order[i]
  <2>1. x \in Ids /\ y \in Ids /\ i \in Ids
    BY <1>1, <1>2 DEF Between
  <2>2. order[x] \in Nat /\ order[y] \in Nat /\ order[i] \in Nat
    BY <1>4, <2>1
  <2>3. i \notin F1
    BY <1>1, <1>7, <2>2 DEF Begins, Between
  <2>4. i \in G2
    BY <1>2, <1>7, <2>2 DEF Begins, Between
  <2>5. i \in F2 \ G1
    BY <1>1, <1>2, <2>3, <2>4 DEF Between
  <2>6. Cardinality(F2) <= Cardinality(G1)
    <3>1. q - 1 = p
      BY <1>7
    <3>2. Cardinality(F2) = Cardinality(G1) /\ Cardinality(F2) \in Nat
      BY <1>1, <1>2, <3>1, ListIsFinite DEF Between
    <3>3. QED
      BY <3>2
  <2>7. PICK g \in G1 \ F2 : order[g] = order[i]
    BY <1>1, <1>2, <2>5, <2>6, SwappedEntriesTie DEF Between
  <2>8. QED
    BY <1>1, <2>5, <2>7 DEF Between
<1>8. QED
  BY <1>5, <1>6, <1>7

-----------------------------------------------------------------------------
(* Services. *)

LEMMA PlaceholdersNameNoService ==
  /\ Unknown.name \notin Services
  /\ Unavailable.name \notin Services
  /\ NullService.name \notin Services
  /\ \A s : NamelessOf(s).name \notin Services
<1>1. /\ "Service unavailable" \notin Services
      /\ "Unknown Service" \notin Services
      /\ "null" \notin Services
  BY PlaceholdersAreNoServices, Zenon
<1>2. /\ Unknown.name = "Unknown Service"
      /\ Unavailable.name = "Service unavailable"
      /\ NullService.name = "null"
      /\ \A s : NamelessOf(s).name = "Service unavailable"
  BY DEF Unknown, Unavailable, NullService, NamelessOf
<1>3. QED
  BY <1>1, <1>2, Zenon

LEMMA SingleService ==
  ASSUME NEW x, NEW s
  PROVE  ServiceOf(One(x), s) = x
BY DEF ServiceOf, One

LEMMA ListedService ==
  ASSUME NEW S, NEW s, \A x \in S : x.id = s /\ x.name \in Services => x = Named(s)
  PROVE  ServiceOf(List(S), s).name \in Services => ServiceOf(List(S), s) = Named(s)
<1> DEFINE own == {x \in S : x.id = s}
<1>1. CASE own = {}
  <2>1. ServiceOf(List(S), s) = Unknown
    BY <1>1 DEF ServiceOf, List
  <2>2. QED
    BY <2>1, PlaceholdersNameNoService
<1>2. CASE own # {}
  <2>1. ServiceOf(List(S), s) = CHOOSE x \in own : TRUE
    BY <1>2 DEF ServiceOf, List
  <2>2. (CHOOSE x \in own : TRUE) \in own
    BY <1>2
  <2>3. QED
    BY <2>1, <2>2
<1>3. QED
  BY <1>1, <1>2

LEMMA ItemsType ==
  ASSUME NEW items \in Items
  PROVE  /\ DOMAIN items \subseteq Ids /\ IsFiniteSet(DOMAIN items)
         /\ \A i \in DOMAIN items : items[i] \in Services
<1>1. PICK S \in SUBSET Ids : items \in [S -> Services]
  BY DEF Items
<1>2. QED
  BY <1>1, SearchAssumption, FS_Subset

\* What portal-server answers shows no item with another's service: it is asked for one
\* service only if there is one item.
LEMMA PortalRepliesFit ==
  ASSUME NEW items \in Items, NEW reply \in PortalReplies(items)
  PROVE  /\ reply \in Reply
         /\ \A i \in DOMAIN items :
              ServiceOf(reply, items[i]).name \in Services
                => ServiceOf(reply, items[i]) = Named(items[i])
<1>1. CASE reply = One(NullService)
  <2>1. reply \in Reply
    BY <1>1 DEF One, Reply
  <2>2. QED
    BY <1>1, <2>1, SingleService, PlaceholdersNameNoService
<1>2. ASSUME NEW S \in SUBSET {items[i] : i \in DOMAIN items},
             reply = List({Named(s) : s \in S})
      PROVE  /\ reply \in Reply
             /\ \A i \in DOMAIN items :
                  ServiceOf(reply, items[i]).name \in Services
                    => ServiceOf(reply, items[i]) = Named(items[i])
  <2>1. S \subseteq Services
    BY <1>2, ItemsType
  <2>2. reply \in Reply
    BY <1>2, <2>1 DEF List, Reply
  <2>3. \A i \in DOMAIN items : \A x \in {Named(s) : s \in S} :
          x.id = items[i] => x = Named(items[i])
    BY DEF Named
  <2>4. QED
    BY <1>2, <2>2, <2>3, ListedService
<1>3. ASSUME ~Many(items), NEW j \in DOMAIN items, reply = One(Named(items[j]))
      PROVE  /\ reply \in Reply
             /\ \A i \in DOMAIN items : ServiceOf(reply, items[i]) = Named(items[i])
  <2>1. reply \in Reply
    BY <1>3, ItemsType DEF One, Reply
  <2>2. \A i \in DOMAIN items : i = j
    <3>1. Cardinality(DOMAIN items) \in Nat /\ Cardinality(DOMAIN items) <= 1
      BY <1>3, ItemsType, FS_CardinalityType DEF Many
    <3>2. Cardinality(DOMAIN items) = 1
      BY <1>3, <3>1, ItemsType, FS_EmptySet
    <3>3. PICK x : DOMAIN items = {x}
      BY <3>2, ItemsType, FS_Singleton
    <3>4. QED
      BY <1>3, <3>3
  <2>3. QED
    BY <1>3, <2>1, <2>2, SingleService
<1>4. QED
  BY <1>1, <1>2, <1>3 DEF PortalReplies

\* What stands for its answer shows no service at all.
LEMMA StandInsFit ==
  ASSUME NEW items \in Items,
         NEW reply \in {One(Unavailable), List({NamelessOf(items[i]) : i \in DOMAIN items})}
  PROVE  /\ reply \in Reply
         /\ \A i \in DOMAIN items : ServiceOf(reply, items[i]).name \notin Services
<1>1. CASE reply = One(Unavailable)
  <2>1. reply \in Reply
    BY <1>1 DEF One, Reply
  <2>2. QED
    BY <1>1, <2>1, SingleService, PlaceholdersNameNoService
<1>2. CASE reply = List({NamelessOf(items[i]) : i \in DOMAIN items})
  <2> DEFINE S == {NamelessOf(items[i]) : i \in DOMAIN items}
  <2>1. reply \in Reply
    BY <1>2, ItemsType DEF List, Reply
  <2>2. \A x \in S : x.name \notin Services
    BY PlaceholdersNameNoService
  <2>3. ASSUME NEW i \in DOMAIN items, ServiceOf(reply, items[i]).name \in Services
        PROVE  FALSE
    <3>1. ServiceOf(reply, items[i]) \in S \cup {Unknown}
      BY <1>2 DEF ServiceOf, List
    <3>2. Unknown.name \notin Services
      BY PlaceholdersNameNoService
    <3>3. QED
      BY <2>2, <2>3, <3>1, <3>2
  <2>4. QED
    BY <2>1, <2>3
<1>3. QED
  BY <1>1, <1>2

-----------------------------------------------------------------------------
(* Answers. *)

LEMMA NextShown ==
  ASSUME NEW w \in Window, NEW k \in Call, PageFits(k, w),
         k.items # None, k.op = "search" => k.total # None,
         NEW shown, NEW holders, NEW whole
  PROVE  NextIsTrue(Shows(k, shown, holders, whole), w)
<1> DEFINE a == Shows(k, shown, holders, whole)
<1>1. /\ a.op = k.op /\ a.items = k.items /\ a.page = k.page /\ a.order = k.order
      /\ a.next = (k.op = "search" /\ hasNextPage(k.page, k.total))
  BY DEF Shows
<1> HIDE DEF a
<1>2. SUFFICES ASSUME k.op = "search"
               PROVE  NextIsTrue(a, w)
  BY <1>1 DEF NextIsTrue, a
<1>3. k.order \in Orders /\ k.page \in 1..MaxPage /\ k.page \in Nat
  BY <1>2, SearchAssumption DEF PageFits, Call
<1>4. ASSUME w.steady
      PROVE  /\ DOMAIN k.items \in PagesOf(w.before, k.order, k.page)
             /\ \A page \in PagesOf(w.before, k.order, k.page + 1) :
                  hasNextPage(k.page, k.total) <=> page # {}
  <2>1. /\ DOMAIN k.items \in PagesOf(w.before, k.order, k.page)
        /\ k.total = Cardinality(w.before)
    BY <1>2, <1>4 DEF PageFits
  <2>2. w.before \in SUBSET Ids
    BY DEF Window
  <2> DEFINE S == w.before
             order == k.order
             next == k.page + 1
  <2>3. /\ S \in SUBSET Ids /\ order \in Orders
        /\ next \in Nat \ {0} /\ next - 1 = k.page
    BY <1>3, <2>2
  <2> HIDE DEF S, order, next
  <2>4. \A page \in PagesOf(S, order, next) :
          hasNextPage(next - 1, Cardinality(S)) <=> page # {}
    BY <2>3, NextPage
  <2>5. QED
    BY <2>1, <2>3, <2>4 DEF S, order, next
<1>5. a.next <=> hasNextPage(k.page, k.total)
  BY <1>1, <1>2
<1>6. QED
  BY <1>1, <1>3, <1>4, <1>5 DEF NextIsTrue

LEMMA FallbackGood ==
  ASSUME NEW w \in Window, NEW k \in Call, PageFits(k, w),
         k.items # None, k.op = "search" => k.total # None
  PROVE  Answer(Fallback(k), w)
<1> DEFINE a == Fallback(k)
<1>1. /\ a.phase = "done" /\ a.items = k.items /\ a.holders = {} /\ a.whole = FALSE
      /\ a.shown = [i \in DOMAIN k.items |-> Unavailable]
  BY DEF Fallback, Shows
<1>2. NextIsTrue(a, w)
  <2> DEFINE shown == [i \in DOMAIN k.items |-> Unavailable]
  <2>1. a = Shows(k, shown, {}, FALSE)
    BY DEF Fallback
  <2> HIDE DEF a, shown
  <2>2. QED
    BY <2>1, NextShown
<1> HIDE DEF a
<1>3. ServicesAreOwn(a)
  BY <1>1, PlaceholdersNameNoService DEF ServicesAreOwn
<1>4. HoldersAreTrue(a, w)
  BY <1>1 DEF HoldersAreTrue
<1>5. QED
  BY <1>1, <1>2, <1>3, <1>4 DEF Answer, a

\* Promise.all: with one read outstanding the call goes on, with both it is answered.
LEMMA EnrichedGood ==
  ASSUME NEW w \in Window, NEW k \in Call, k.phase = "enrich", Progress(k, w)
  PROVE  /\ Good(Enriched(k), w)
         /\ Enriched(k).phase \in {"enrich", "done"}
<1>1. CASE k.local # "known" \/ k.portal = None
  BY <1>1 DEF Enriched, Good
<1>2. CASE ~(k.local # "known" \/ k.portal = None)
  <2> DEFINE a == Enriched(k)
  <2>1. /\ PageFits(k, w) /\ HoldersFit(k, w) /\ ServicesFit(k)
        /\ k.items # None /\ (k.op = "search" => k.total # None)
    BY DEF Progress
  <2>2. a = Shows(k, [i \in DOMAIN k.items |-> ServiceOf(k.portal, k.items[i])],
                  k.holders, k.whole)
    BY <1>2 DEF Enriched
  <2>3. NextIsTrue(a, w)
    BY <2>1, <2>2, NextShown
  <2>4. /\ a.phase = "done" /\ a.items = k.items /\ a.holders = k.holders
        /\ a.whole = k.whole
        /\ a.shown = [i \in DOMAIN k.items |-> ServiceOf(k.portal, k.items[i])]
    BY <2>2 DEF Shows
  <2> HIDE DEF a
  <2>5. ServicesAreOwn(a)
    BY <1>2, <2>1, <2>4 DEF ServicesFit, ServicesAreOwn
  <2>6. HoldersAreTrue(a, w)
    BY <1>2, <2>1, <2>4 DEF HoldersFit, HoldersAreTrue
  <2>7. QED
    BY <2>3, <2>4, <2>5, <2>6 DEF Good, Answer, a
<1>3. QED
  BY <1>1, <1>2

LEMMA PagedGood ==
  ASSUME NEW w \in Window, NEW k \in Call, k.phase = "page", k.op = "search",
         Untouched(k), PageFits(k, w)
  PROVE  Good(Paged(k), w)
<1>1. CASE k.items = None \/ k.total = None
  BY <1>1 DEF Paged, Good, Progress
<1>2. CASE k.items # None /\ k.total # None /\ k.items = <<>>
  <2> DEFINE a == Shows(k, <<>>, {}, TRUE)
  <2>1. Paged(k) = a
    BY <1>2 DEF Paged
  <2>2. NextIsTrue(a, w)
    BY <1>2, NextShown
  <2>3. a.phase = "done" /\ a.items = k.items /\ a.holders = {}
    BY DEF Shows
  <2>4. DOMAIN k.items = {}
    BY <1>2
  <2> HIDE DEF a
  <2>5. ServicesAreOwn(a) /\ HoldersAreTrue(a, w)
    BY <2>3, <2>4 DEF ServicesAreOwn, HoldersAreTrue
  <2>6. QED
    BY <2>1, <2>2, <2>3, <2>5 DEF Good, Answer
<1>3. CASE k.items # None /\ k.total # None /\ k.items # <<>>
  <2> DEFINE e == [k EXCEPT !.phase = "enrich"]
  <2>1. Paged(k) = e
    BY <1>3 DEF Paged
  <2>2. /\ e \in Call /\ e.phase = "enrich" /\ e.op = k.op /\ e.items = k.items
        /\ e.total = k.total /\ e.page = k.page /\ e.order = k.order
        /\ e.local = "pending" /\ e.portal = None /\ e.holders = {} /\ e.whole
    BY DEF Call, Untouched
  <2> HIDE DEF e
  <2>3. PageFits(e, w) /\ HoldersFit(e, w) /\ ServicesFit(e)
    BY <2>2 DEF PageFits, HoldersFit, ServicesFit
  <2>4. QED
    BY <1>3, <2>1, <2>2, <2>3 DEF Good, Progress
<1>4. QED
  BY <1>1, <1>2, <1>3

-----------------------------------------------------------------------------
(* Steps of a call: one record gives way to another that is as good. *)

Moves(c) ==
  /\ Running(c)
  /\ \E k : Goes(c, k) /\ Good(k, window[c]) /\ (k.phase = "page" => At(c, "page"))

LEMMA RunningIsProgress ==
  ASSUME IInv, NEW c \in Calls, Running(c)
  PROVE  /\ Progress(call[c], window[c]) /\ call[c] \in Call /\ window[c] \in Window
         /\ rows \subseteq window[c].held /\ window[c].keeps \subseteq rows
<1>1. call[c] # Absent /\ call[c].phase # "done"
  BY DEF Running, Absent
<1>2. Progress(call[c], window[c])
  BY <1>1 DEF IInv, Good, Answer
<1>3. QED
  BY <1>2 DEF IInv, Progress, Tracks, Running

LEMMA LiveHasService ==
  ASSUME IInv, NEW S \in SUBSET Live
  PROVE  [i \in S |-> service[i]] \in Items
<1>1. S \in SUBSET Ids /\ \A i \in S : service[i] \in Services
  BY DEF IInv, Live
<1>2. [i \in S |-> service[i]] \in [S -> Services]
  BY <1>1
<1>3. QED
  BY <1>1, <1>2 DEF Items

LEMMA ItemsMove ==
  ASSUME IInv, NEW c \in Calls, ReadItems(c)
  PROVE  Moves(c)
<1> DEFINE k == call[c]
           w == window[c]
<1>1. PICK page \in PagesOf(Live, k.order, k.page) :
        Goes(c, Paged([k EXCEPT !.items = [i \in page |-> service[i]]]))
  BY DEF ReadItems
<1> DEFINE items == [i \in page |-> service[i]]
           e == [k EXCEPT !.items = items]
<1>2. Running(c) /\ At(c, "page")
  BY DEF ReadItems, Running, At
<1>3. /\ Progress(k, w) /\ k \in Call /\ w \in Window
      /\ k.op = "search" /\ Untouched(k) /\ PageFits(k, w) /\ k.phase = "page"
  BY <1>2, RunningIsProgress DEF Progress, At
<1>4. items \in Items
  BY LiveHasService, PageIsOfList
<1>5. DOMAIN items \in PagesOf(Live, k.order, k.page)
  OBVIOUS
<1>6. w.steady => w.before = Live
  BY <1>3 DEF IInv, Tracks, Live
<1> HIDE DEF items
<1>7. /\ e \in Call /\ e.items = items /\ e.phase = "page" /\ e.op = "search"
      /\ e.total = k.total /\ e.page = k.page /\ e.order = k.order /\ Untouched(e)
  BY <1>3, <1>4 DEF Call, Untouched
<1> HIDE DEF e
<1>8. PageFits(e, w)
  BY <1>3, <1>5, <1>6, <1>7 DEF PageFits
<1>9. Good(Paged(e), w)
  BY <1>3, <1>7, <1>8, PagedGood
<1>10. QED
  BY <1>1, <1>9, <1>2 DEF Moves, items, e

LEMMA TotalMoves ==
  ASSUME IInv, NEW c \in Calls, ReadTotal(c)
  PROVE  Moves(c)
<1> DEFINE k == call[c]
           w == window[c]
           total == Cardinality(Live)
           e == [k EXCEPT !.total = total]
<1>1. Running(c) /\ At(c, "page") /\ Goes(c, Paged(e))
  BY DEF ReadTotal, Running, At
<1>2. /\ Progress(k, w) /\ k \in Call /\ w \in Window
      /\ k.op = "search" /\ Untouched(k) /\ PageFits(k, w) /\ k.phase = "page"
  BY <1>1, RunningIsProgress DEF Progress, At
<1>3. total \in 0..Cardinality(Ids)
  <2>1. Live \in SUBSET Ids /\ IsFiniteSet(Ids)
    BY SearchAssumption DEF Live
  <2>2. total <= Cardinality(Ids) /\ Cardinality(Ids) \in Nat /\ total \in Nat
    BY <2>1, FS_Subset, FS_CardinalityType
  <2>3. QED
    BY <2>2
<1>4. w.steady => w.before = Live
  BY <1>2 DEF IInv, Tracks, Live
<1>5. w.steady => total = Cardinality(w.before)
  BY <1>4
<1> HIDE DEF total
<1>6. /\ e \in Call /\ e.items = k.items /\ e.phase = "page" /\ e.op = "search"
      /\ e.total = total /\ e.page = k.page /\ e.order = k.order /\ Untouched(e)
  BY <1>2, <1>3 DEF Call, Untouched
<1> HIDE DEF e
<1>7. PageFits(e, w)
  BY <1>2, <1>5, <1>6 DEF PageFits
<1>8. Good(Paged(e), w)
  BY <1>2, <1>6, <1>7, PagedGood
<1>9. QED
  BY <1>1, <1>8 DEF Moves

LEMMA FailureMoves ==
  ASSUME NEW c \in Calls, Running(c), NEW reply \in {"error", "notFound"}, Fails(c, reply)
  PROVE  Moves(c)
<1> DEFINE a == [phase |-> "done", op |-> call[c].op, reply |-> reply]
<1>1. Goes(c, a)
  BY DEF Fails
<1>2. a.phase = "done" /\ a.reply # "ok"
  OBVIOUS
<1> HIDE DEF a
<1>3. QED
  BY <1>1, <1>2 DEF Moves, Good, Answer

LEMMA EntryMoves ==
  ASSUME IInv, NEW c \in Calls, FindEntry(c)
  PROVE  Moves(c)
<1> DEFINE k == call[c]
           w == window[c]
           i == k.id
<1>1. Running(c) /\ k.phase = "entry"
  BY DEF FindEntry, Running, At
<1>2. /\ Progress(k, w) /\ k \in Call /\ w \in Window
      /\ k.op \in Lookups /\ Untouched(k) /\ PageFits(k, w)
  BY <1>1, RunningIsProgress DEF Progress
<1>3. CASE i \notin Live
  BY <1>1, <1>3, FailureMoves DEF FindEntry
<1>4. CASE i \in Live
  <2> DEFINE items == [j \in {i} |-> service[j]]
             e == [k EXCEPT !.phase = "enrich", !.items = items]
  <2>1. Goes(c, e)
    BY <1>4 DEF FindEntry
  <2>2. items \in Items
    BY <1>4, LiveHasService
  <2> HIDE DEF items
  <2>3. /\ e \in Call /\ e.items = items /\ e.phase = "enrich" /\ e.op \in Lookups
        /\ e.local = "pending" /\ e.portal = None /\ e.holders = {} /\ e.whole
    BY <1>2, <2>2 DEF Call, Untouched
  <2>4. items # None /\ e.op # "search"
    BY <2>2, <2>3, NoneIsNoAnswer DEF Lookups
  <2> HIDE DEF e
  <2>5. PageFits(e, w) /\ HoldersFit(e, w) /\ ServicesFit(e)
    BY <2>3, <2>4 DEF PageFits, HoldersFit, ServicesFit
  <2>6. Good(e, w)
    BY <2>3, <2>4, <2>5 DEF Good, Progress
  <2>7. QED
    BY <1>1, <2>1, <2>3, <2>6 DEF Moves
<1>5. QED
  BY <1>3, <1>4

\* A read of the enrichment leaves alone what the call has of the entries.
SameItems(e, k) ==
  /\ e \in Call /\ e.phase = "enrich"
  /\ e.op = k.op /\ e.page = k.page /\ e.order = k.order /\ e.items = k.items /\ e.total = k.total

LEMMA Enriching ==
  ASSUME IInv, NEW c \in Calls, At(c, "enrich")
  PROVE  /\ Running(c) /\ Progress(call[c], window[c]) /\ call[c] \in Call
         /\ window[c] \in Window /\ call[c].items \in Items
         /\ call[c].items # None /\ (call[c].op = "search" => call[c].total # None)
         /\ PageFits(call[c], window[c]) /\ HoldersFit(call[c], window[c])
         /\ ServicesFit(call[c])
         /\ rows \subseteq window[c].held /\ window[c].keeps \subseteq rows
<1>1. Running(c)
  BY DEF Running, At
<1>2. Progress(call[c], window[c]) /\ call[c] \in Call
  BY <1>1, RunningIsProgress
<1>3. /\ call[c].items # None /\ (call[c].op = "search" => call[c].total # None)
      /\ PageFits(call[c], window[c]) /\ HoldersFit(call[c], window[c])
      /\ ServicesFit(call[c])
  BY <1>2 DEF Progress, At
<1>4. call[c].items \in Items
  BY <1>2, <1>3 DEF Call
<1>5. QED
  BY <1>1, <1>2, <1>3, <1>4, RunningIsProgress

LEMMA EnrichmentMoves ==
  ASSUME IInv, NEW c \in Calls, At(c, "enrich"),
         NEW e, SameItems(e, call[c]), HoldersFit(e, window[c]), ServicesFit(e),
         Goes(c, Enriched(e))
  PROVE  Moves(c)
<1>1. /\ Running(c) /\ window[c] \in Window /\ e \in Call /\ e.phase = "enrich"
      /\ e.items # None /\ (e.op = "search" => e.total # None)
  BY Enriching DEF SameItems
<1>2. PageFits(e, window[c])
  BY Enriching DEF PageFits, SameItems
<1>3. Progress(e, window[c])
  BY <1>1, <1>2 DEF Progress
<1>4. Good(Enriched(e), window[c]) /\ Enriched(e).phase # "page"
  BY <1>1, <1>3, EnrichedGood
<1>5. QED
  BY <1>1, <1>4 DEF Moves

LEMMA FallbackMoves ==
  ASSUME IInv, NEW c \in Calls, At(c, "enrich"), Goes(c, Fallback(call[c]))
  PROVE  Moves(c)
<1> DEFINE a == Fallback(call[c])
<1>1. Answer(a, window[c]) /\ Running(c)
  BY Enriching, FallbackGood
<1> HIDE DEF a
<1>2. QED
  BY <1>1 DEF Moves, Good, Answer, a

\* The answer of portal-server, or what stands for it, arrives.
LEMMA ReplyMoves ==
  ASSUME IInv, NEW c \in Calls, At(c, "enrich"), NEW reply \in Reply,
         \A i \in DOMAIN call[c].items :
           ServiceOf(reply, call[c].items[i]).name \in Services
             => ServiceOf(reply, call[c].items[i]) = Named(call[c].items[i]),
         Goes(c, Enriched([call[c] EXCEPT !.portal = reply]))
  PROVE  Moves(c)
<1> DEFINE e == [call[c] EXCEPT !.portal = reply]
<1>1. /\ SameItems(e, call[c]) /\ e.portal = reply /\ e.local = call[c].local
      /\ e.holders = call[c].holders /\ e.whole = call[c].whole
      /\ e.items = call[c].items
  BY Enriching DEF Call, SameItems, At
<1> HIDE DEF e
<1>2. HoldersFit(e, window[c])
  BY <1>1, Enriching DEF HoldersFit
<1>3. ServicesFit(e)
  BY <1>1 DEF ServicesFit
<1>4. QED
  BY <1>1, <1>2, <1>3, EnrichmentMoves DEF e

LEMMA PortalMoves ==
  ASSUME IInv, NEW c \in Calls, PortalAnswers(c) \/ PortalFails(c)
  PROVE  Moves(c)
<1>1. At(c, "enrich") /\ call[c].items \in Items
  BY Enriching DEF PortalAnswers, PortalFails
<1>2. CASE PortalAnswers(c)
  <2>1. PICK reply \in PortalReplies(call[c].items) :
          Goes(c, Enriched([call[c] EXCEPT !.portal = reply]))
    BY <1>2 DEF PortalAnswers
  <2>2. QED
    BY <1>1, <2>1, PortalRepliesFit, ReplyMoves
<1>3. CASE PortalFails(c)
  <2>1. PICK reply \in {One(Unavailable),
                       List({NamelessOf(call[c].items[i]) : i \in DOMAIN call[c].items})} :
          Goes(c, Enriched([call[c] EXCEPT !.portal = reply]))
    BY <1>3 DEF PortalFails
  <2>2. QED
    BY <1>1, <2>1, StandInsFit, ReplyMoves
<1>4. QED
  BY <1>2, <1>3

\* The holders are h, of whom nothing is lost if whole.
LEMMA HoldersMove ==
  ASSUME IInv, NEW c \in Calls, At(c, "enrich"), NEW h \in SUBSET (Owners \X Ids),
         NEW local \in {"ids", "known"}, NEW whole \in BOOLEAN,
         h \subseteq window[c].held, local # "known" => whole,
         whole => {x \in window[c].keeps : x[2] \in DOMAIN call[c].items} \subseteq h,
         Goes(c, Enriched([call[c] EXCEPT !.local = local, !.holders = h, !.whole = whole]))
  PROVE  Moves(c)
<1> DEFINE e == [call[c] EXCEPT !.local = local, !.holders = h, !.whole = whole]
<1>1. /\ SameItems(e, call[c]) /\ e.portal = call[c].portal /\ e.local = local
      /\ e.holders = h /\ e.whole = whole /\ e.items = call[c].items
  BY Enriching DEF Call, SameItems, At
<1> HIDE DEF e
<1>2. HoldersFit(e, window[c])
  BY <1>1 DEF HoldersFit
<1>3. ServicesFit(e)
  BY <1>1, Enriching DEF ServicesFit
<1>4. QED
  BY <1>1, <1>2, <1>3, EnrichmentMoves DEF e

LEMMA HoldersReadMoves ==
  ASSUME IInv, NEW c \in Calls, ReadHolders(c) \/ ReadHoldersFails(c)
  PROVE  Moves(c)
<1>1. At(c, "enrich") /\ call[c].local = "pending"
  BY DEF ReadHolders, ReadHoldersFails, HoldersWanted
<1>2. CASE ReadHoldersFails(c)
  BY <1>1, <1>2, FallbackMoves DEF ReadHoldersFails
<1>3. CASE ReadHolders(c)
  <2> DEFINE k == call[c]
             found == HoldersOf(k.items)
             local == IF k.op = "search" \/ found = {} THEN "known" ELSE "ids"
  <2>1. Goes(c, Enriched([k EXCEPT !.holders = found, !.local = local]))
    BY <1>3 DEF ReadHolders
  <2>2. k.whole /\ k \in Call
    BY <1>1, Enriching DEF HoldersFit
  <2>3. /\ found \in SUBSET (Owners \X Ids) /\ found \subseteq window[c].held
        /\ {x \in window[c].keeps : x[2] \in DOMAIN k.items} \subseteq found
    BY <1>1, Enriching DEF HoldersOf, IInv
  <2>4. local \in {"ids", "known"}
    OBVIOUS
  <2> HIDE DEF found, local
  <2>5. [k EXCEPT !.holders = found, !.local = local]
          = [k EXCEPT !.local = local, !.holders = found, !.whole = TRUE]
    BY <2>2 DEF Call
  <2>6. Goes(c, Enriched([k EXCEPT !.local = local, !.holders = found, !.whole = TRUE]))
    BY <2>1, <2>5
  <2>7. QED
    BY <1>1, <2>3, <2>4, <2>6, HoldersMove
<1>4. QED
  BY <1>2, <1>3

LEMMA NamesMove ==
  ASSUME IInv, NEW c \in Calls, NEW op \in Lookups,
         NameHolders(c, op) \/ NameHoldersFails(c, op)
  PROVE  Moves(c)
<1> DEFINE k == call[c]
<1>1. At(c, "enrich") /\ k.local = "ids" /\ k.op = op
  BY DEF NameHolders, NameHoldersFails
<1>2. /\ k \in Call /\ k.holders \in SUBSET (Owners \X Ids)
      /\ k.holders \subseteq window[c].held
      /\ {x \in window[c].keeps : x[2] \in DOMAIN k.items} \subseteq k.holders
  BY <1>1, Enriching DEF HoldersFit, Call
<1>3. CASE NameHolders(c, op)
  <2>1. PICK known \in SUBSET k.holders :
          Goes(c, Enriched([k EXCEPT !.local = "known", !.holders = known,
                                     !.whole = (known = k.holders)]))
    BY <1>3 DEF NameHolders
  <2> DEFINE whole == (known = k.holders)
  <2>2. /\ known \in SUBSET (Owners \X Ids) /\ known \subseteq window[c].held
        /\ whole \in BOOLEAN
        /\ whole => {x \in window[c].keeps : x[2] \in DOMAIN k.items} \subseteq known
    BY <1>2
  <2>3. Goes(c, Enriched([k EXCEPT !.local = "known", !.holders = known, !.whole = whole]))
    BY <2>1
  <2> HIDE DEF whole
  <2>4. QED
    BY <1>1, <2>2, <2>3, HoldersMove
<1>4. CASE NameHoldersFails(c, op) /\ op = "getPermissionById"
  BY <1>1, <1>4, FallbackMoves DEF NameHoldersFails
<1>5. CASE NameHoldersFails(c, op) /\ op # "getPermissionById"
  <2> DEFINE none == {}
             whole == FALSE
  <2>1. Goes(c, Enriched([k EXCEPT !.local = "known", !.holders = none, !.whole = whole]))
    BY <1>5 DEF NameHoldersFails
  <2>2. /\ none \in SUBSET (Owners \X Ids) /\ none \subseteq window[c].held
        /\ whole \in BOOLEAN /\ ~whole
    OBVIOUS
  <2> HIDE DEF none, whole
  <2>3. QED
    BY <1>1, <2>1, <2>2, HoldersMove
<1>6. QED
  BY <1>3, <1>4, <1>5

LEMMA EveryStepMoves ==
  ASSUME IInv, NEW c \in Calls, LocalStep(c) \/ RemoteStep(c)
  PROVE  Moves(c)
<1>1. ASSUME ReadFails(c) PROVE Moves(c)
  BY <1>1, FailureMoves DEF ReadFails
<1>2. QED
  BY <1>1, ItemsMove, TotalMoves, EntryMoves, HoldersReadMoves, NamesMove, PortalMoves
     DEF LocalStep, RemoteStep, Lookups

-----------------------------------------------------------------------------
(* The invariant. *)

LEMMA InitIInv == Init => IInv
<1> SUFFICES ASSUME Init PROVE IInv
  OBVIOUS
<1>1. window \in [Calls -> Window]
  BY DEF Init, Window, NoWindow
<1>2. \A c \in Calls : call[c] = Absent
  BY DEF Init
<1>3. \A c \in Calls : Good(call[c], window[c])
  BY <1>2 DEF Good
<1>4. \A c \in Calls : Tracks(call[c], window[c], service, rows)
  BY <1>2 DEF Tracks, Absent
<1>5. QED
  BY <1>1, <1>3, <1>4 DEF Init, IInv, LeafFits

LEMMA MoveKeepsIInv ==
  ASSUME IInv, NEW c \in Calls, Moves(c)
  PROVE  IInv'
<1>1. PICK k : Goes(c, k) /\ Good(k, window[c]) /\ (k.phase = "page" => At(c, "page"))
  BY DEF Moves
<1>2. /\ UNCHANGED <<service, rows, window, previous>> /\ DOMAIN call' = Calls
      /\ call'[c] = k /\ \A d \in Calls : d # c => call'[d] = call[d]
  BY <1>1 DEF Goes, IInv
<1>3. Tracks(k, window[c], service, rows)
  BY <1>1 DEF IInv, Tracks, Moves, Running, At
<1>4. ASSUME NEW d \in Calls
      PROVE  Good(call'[d], window[d]) /\ Tracks(call'[d], window[d], service, rows)
  BY <1>1, <1>2, <1>3 DEF IInv
<1>5. QED
  BY <1>2, <1>4 DEF IInv

LEMMA StartKeepsIInv ==
  ASSUME IInv, NEW c \in Calls, NEW op \in {"search"} \cup Lookups, NEW page \in 1..MaxPage,
         NEW order \in Orders \cup {None}, NEW i \in Ids \cup {None}, NEW phase \in {"page", "entry"},
         IF op = "search" THEN phase = "page" /\ order \in Orders
         ELSE phase = "entry" /\ i \in Ids,
         Start(c, op, order, page, i, phase),
         previous' \in {previous, [previous EXCEPT ![c] = NoLeaf]}
  PROVE  IInv'
<1> DEFINE k == [op |-> op, phase |-> phase, order |-> order, page |-> page, id |-> i,
                 items |-> None, total |-> None, local |-> "pending", holders |-> {}, portal |-> None,
                 whole |-> TRUE]
           w == [steady |-> TRUE, before |-> Live, held |-> rows, keeps |-> rows]
<1>1. /\ call' = [call EXCEPT ![c] = k] /\ window' = [window EXCEPT ![c] = w]
      /\ UNCHANGED <<service, rows>>
  BY DEF Start
<1>2. w \in Window
  BY DEF Window, Live, IInv
<1>3. k \in Call
  BY DEF Call
<1>4. /\ k.op = op /\ k.phase = phase /\ k.order = order /\ k.items = None /\ k.total = None /\ k.id = i
      /\ Untouched(k)
  BY DEF Untouched
<1>5. /\ w.held = rows /\ w.keeps = rows /\ w.before = Live
  OBVIOUS
<1> HIDE DEF k, w
<1>6. Good(k, w)
  BY <1>3, <1>4 DEF Good, Progress, PageFits, Lookups
<1>7. Tracks(k, w, service, rows)
  BY <1>5 DEF Tracks, Live
<1>8. ASSUME NEW d \in Calls
      PROVE  Good(call'[d], window'[d]) /\ Tracks(call'[d], window'[d], service, rows)
  BY <1>1, <1>6, <1>7 DEF IInv
<1>9. window' \in [Calls -> Window] /\ DOMAIN call' = Calls
  BY <1>1, <1>2 DEF IInv
<1>10. /\ previous' \in [Calls -> Leaf \cup {NoLeaf}]
       /\ \A d \in Calls : LeafFits(previous'[d])
  BY DEF IInv, LeafFits
<1>11. QED
  BY <1>1, <1>8, <1>9, <1>10 DEF IInv

LEMMA FinishedIsAnswer ==
  ASSUME IInv, NEW c \in Calls, Finished(c)
  PROVE  Answer(call[c], window[c])
BY DEF IInv, Good, Progress, Call, Finished, Absent

LEMMA AnswerIsLeaf ==
  ASSUME IInv, NEW c \in Calls
  PROVE  LeafOf(c) \in Leaf \cup {NoLeaf} /\ LeafFits(LeafOf(c))
<1>1. CASE ~(Page(c) /\ window[c].steady)
  BY <1>1 DEF LeafOf, LeafFits
<1>2. CASE Page(c) /\ window[c].steady
  <2> DEFINE k == call[c]
             w == window[c]
             p == LeafOf(c)
  <2>1. NextIsTrue(k, w) /\ k.op = "search"
    BY <1>2, FinishedIsAnswer DEF Page, Answer
  <2>2. /\ k.order \in Orders /\ k.page \in 1..MaxPage
        /\ DOMAIN k.items \in PagesOf(w.before, k.order, k.page)
    BY <1>2, <2>1 DEF NextIsTrue
  <2>3. w.before \in SUBSET Ids
    BY DEF IInv, Window
  <2>4. DOMAIN k.items \in SUBSET Ids
    BY <2>2, <2>3, PageIsOfList
  <2>5. p = [list |-> w.before, order |-> k.order, page |-> k.page, items |-> DOMAIN k.items]
    BY <1>2 DEF LeafOf
  <2> HIDE DEF p
  <2>6. /\ p \in Leaf /\ p.items = DOMAIN k.items /\ p.list = w.before
        /\ p.order = k.order /\ p.page = k.page
    BY <2>2, <2>3, <2>4, <2>5 DEF Leaf
  <2>7. QED
    BY <2>2, <2>6 DEF LeafFits, p
<1>3. QED
  BY <1>1, <1>2

LEMMA ReturnKeepsIInv ==
  ASSUME IInv, NEW c \in Calls, Returns(c)
  PROVE  IInv'
<1>1. /\ call' = [call EXCEPT ![c] = Absent] /\ window' = [window EXCEPT ![c] = NoWindow]
      /\ previous' = [previous EXCEPT ![c] = LeafOf(c)]
      /\ UNCHANGED <<service, rows>>
  BY DEF Returns
<1>2. NoWindow \in Window
  BY DEF NoWindow, Window
<1>3. Good(Absent, NoWindow) /\ Tracks(Absent, NoWindow, service, rows)
  BY DEF Good, Tracks, Absent
<1>4. ASSUME NEW d \in Calls
      PROVE  Good(call'[d], window'[d]) /\ Tracks(call'[d], window'[d], service, rows)
  BY <1>1, <1>3 DEF IInv
<1>5. window' \in [Calls -> Window] /\ DOMAIN call' = Calls
  BY <1>1, <1>2 DEF IInv
<1>6. /\ previous' \in [Calls -> Leaf \cup {NoLeaf}]
       /\ \A d \in Calls : LeafFits(previous'[d])
  BY <1>1, AnswerIsLeaf DEF IInv
<1>7. QED
  BY <1>1, <1>4, <1>5, <1>6 DEF IInv

\* Commits of others: a window that forgets its calm and widens what was held and
\* narrows what was kept fits all it fitted before.
LEMMA WiderWindow ==
  ASSUME NEW k, NEW w \in Window, NEW v \in Window, Good(k, w),
         v.steady => w.steady, v.before = w.before, w.held \subseteq v.held,
         v.keeps \subseteq w.keeps
  PROVE  Good(k, v)
<1>1. CASE k = Absent
  BY <1>1 DEF Good
<1>2. CASE Progress(k, w)
  <2>1. PageFits(k, v)
    BY <1>2 DEF Progress, PageFits
  <2>2. HoldersFit(k, w) => HoldersFit(k, v)
    BY DEF HoldersFit
  <2>3. QED
    BY <1>2, <2>1, <2>2 DEF Progress, Good
<1>3. CASE Answer(k, w)
  <2>1. NextIsTrue(k, w) => NextIsTrue(k, v)
    BY DEF NextIsTrue
  <2>2. HoldersAreTrue(k, w) => HoldersAreTrue(k, v)
    BY DEF HoldersAreTrue
  <2>3. QED
    BY <1>3, <2>1, <2>2 DEF Answer, Good
<1>4. QED
  BY <1>1, <1>2, <1>3 DEF Good

LEMMA EntriesChangeKeepsIInv ==
  ASSUME IInv, EntriesChange
  PROVE  IInv'
<1>1. PICK i \in Ids, s \in Services \cup {None} : service' = [service EXCEPT ![i] = s]
  BY DEF EntriesChange
<1>2. UNCHANGED <<rows, call, previous>> /\ service' \in [Ids -> Services \cup {None}]
  BY <1>1 DEF EntriesChange, IInv
<1>3. ASSUME NEW c \in Calls
      PROVE  /\ window'[c] \in Window
             /\ Good(call[c], window'[c])
             /\ Tracks(call[c], window'[c], service', rows)
  <2> DEFINE w == window[c]
             v == window'[c]
  <2>1. w \in Window /\ Good(call[c], w) /\ Tracks(call[c], w, service, rows)
    BY DEF IInv
  <2>2. v = IF At(c, "page") THEN [w EXCEPT !.steady = @ /\ service' = service] ELSE w
    BY DEF EntriesChange
  <2>3. v \in Window
    BY <2>1, <2>2 DEF Window
  <2>4. /\ v.before = w.before /\ v.held = w.held /\ v.keeps = w.keeps
        /\ v.steady => w.steady /\ (At(c, "page") => service' = service)
    BY <2>1, <2>2 DEF Window
  <2> HIDE DEF v
  <2>5. Good(call[c], v)
    BY <2>1, <2>3, <2>4, WiderWindow
  <2>6. Tracks(call[c], v, service', rows)
    BY <2>1, <2>4 DEF Tracks, At
  <2>7. QED
    BY <2>3, <2>5, <2>6 DEF v
<1>4. window' \in [Calls -> Window]
  BY <1>3 DEF EntriesChange
<1>5. QED
  BY <1>2, <1>3, <1>4 DEF IInv

LEMMA AssignmentsChangeKeepsIInv ==
  ASSUME IInv, AssignmentsChange
  PROVE  IInv'
<1>1. PICK c \in Calls :
        /\ At(c, "enrich")
        /\ \E h \in Owners \X DOMAIN call[c].items : rows' \in {rows \cup {h}, rows \ {h}}
  BY DEF AssignmentsChange
<1>2. DOMAIN call[c].items \subseteq Ids
  BY <1>1, Enriching, ItemsType
<1>3. UNCHANGED <<service, call, previous>> /\ rows' \subseteq Owners \X Ids
  <2>1. PICK h \in Owners \X DOMAIN call[c].items : rows' \in {rows \cup {h}, rows \ {h}}
    BY <1>1
  <2>2. h \in Owners \X Ids
    BY <1>2
  <2>3. QED
    BY <2>1, <2>2 DEF AssignmentsChange, IInv
<1>4. ASSUME NEW d \in Calls
      PROVE  /\ window'[d] \in Window
             /\ Good(call[d], window'[d])
             /\ Tracks(call[d], window'[d], service, rows')
  <2> DEFINE w == window[d]
             v == window'[d]
  <2>1. w \in Window /\ Good(call[d], w) /\ Tracks(call[d], w, service, rows)
    BY DEF IInv
  <2>2. v = IF Running(d) THEN [w EXCEPT !.held = @ \cup rows', !.keeps = @ \cap rows'] ELSE w
    BY DEF AssignmentsChange
  <2>3. v \in Window
    <3>1. /\ w.held \cup rows' \in SUBSET (Owners \X Ids)
          /\ w.keeps \cap rows' \in SUBSET (Owners \X Ids)
      BY <1>3, <2>1 DEF Window
    <3>2. QED
      BY <2>1, <2>2, <3>1 DEF Window
  <2>4. /\ v.before = w.before /\ v.steady = w.steady
        /\ w.held \subseteq v.held /\ v.keeps \subseteq w.keeps
        /\ Running(d) => rows' \subseteq v.held /\ v.keeps \subseteq rows'
    BY <2>1, <2>2 DEF Window
  <2> HIDE DEF v
  <2>5. Good(call[d], v)
    BY <2>1, <2>3, <2>4, WiderWindow
  <2>6. Tracks(call[d], v, service, rows')
    BY <2>1, <2>4 DEF Tracks, Running
  <2>7. QED
    BY <2>3, <2>5, <2>6 DEF v
<1>5. window' \in [Calls -> Window]
  BY <1>4 DEF AssignmentsChange
<1>6. QED
  BY <1>3, <1>4, <1>5 DEF IInv

LEMMA StepKeepsIInv == IInv /\ [Next]_vars => IInv'
<1> SUFFICES ASSUME IInv, [Next]_vars PROVE IInv'
  OBVIOUS
<1>1. ASSUME NEW c \in Calls, NEW order \in Orders, NEW page \in 1..MaxPage,
             searchRoles(c, order, page)
      PROVE  IInv'
  <2>1. previous' \in {previous, [previous EXCEPT ![c] = NoLeaf]}
    <3>1. previous \in [Calls -> Leaf \cup {NoLeaf}]
      BY DEF IInv
    <3>2. previous' = [previous EXCEPT ![c] =
                         IF GoesOn(c, order, page) THEN previous[c] ELSE NoLeaf]
      BY <1>1 DEF searchRoles
    <3>3. QED
      BY <3>1, <3>2
  <2>2. Start(c, "search", order, page, None, "page")
    BY <1>1 DEF searchRoles
  <2>3. QED
    BY <2>1, <2>2, StartKeepsIInv
<1>2. ASSUME NEW c \in Calls, NEW op \in Lookups, NEW i \in Ids, getById(c, op, i)
      PROVE  IInv'
  <2>1. 1 \in 1..MaxPage /\ op # "search"
    BY SearchAssumption DEF Lookups
  <2>2. /\ Start(c, op, None, 1, i, "entry")
        /\ previous' = [previous EXCEPT ![c] = NoLeaf]
    BY <1>2 DEF getById
  <2>3. QED
    BY <2>1, <2>2, StartKeepsIInv
<1>3. ASSUME NEW c \in Calls, LocalStep(c) \/ RemoteStep(c)
      PROVE  IInv'
  BY <1>3, EveryStepMoves, MoveKeepsIInv
<1>4. CASE UNCHANGED vars
  BY <1>4 DEF vars, IInv
<1>5. QED
  BY <1>1, <1>2, <1>3, <1>4, ReturnKeepsIInv, EntriesChangeKeepsIInv,
     AssignmentsChangeKeepsIInv DEF Next

\* What the proof rests on holds always: a call's record is as good as its window allows.
THEOREM Invariant == Spec => []IInv
BY InitIInv, StepKeepsIInv, PTL DEF Spec

-----------------------------------------------------------------------------
(* The properties. *)

\* Tables, calls in progress and histories keep their types.
THEOREM TypeCorrect == Spec => []TypeOK
<1>1. IInv => TypeOK
  <2> SUFFICES ASSUME IInv PROVE TypeOK
    OBVIOUS
  <2>1. \A c \in Calls : Finished(c) \/ call[c] \in Call \cup {Absent}
    BY DEF IInv, Good, Progress, Answer, Finished
  <2>2. QED
    BY <2>1 DEF IInv, TypeOK
<1>2. QED
  BY <1>1, Invariant, PTL

\* However the entries are sorted and however many tie, two pages of a list that stays as
\* it is come in its order; what is repeated or missed between them ties.
THEOREM PagesFollow == Spec => []PagesFollowOneAnother
<1>1. IInv => PagesFollowOneAnother
  <2> SUFFICES ASSUME IInv PROVE PagesFollowOneAnother
    OBVIOUS
  <2>1. ASSUME NEW c \in Calls, NEW p, NEW q, p = previous[c], q = LeafOf(c),
               0 < p.page, p.page < q.page, p.list = q.list, p.order = q.order
        PROVE  /\ \A i \in p.items, j \in q.items : p.order[i] <= p.order[j]
               /\ \A i \in p.items \cap q.items :
                    \E j \in p.list \ {i} : p.order[j] = p.order[i]
               /\ q.page = p.page + 1 =>
                    \A i \in p.list \ (p.items \cup q.items) :
                      (\E x \in p.items : p.order[x] < p.order[i])
                      /\ (\E y \in q.items : p.order[i] < p.order[y])
                        => \E j \in p.list \ {i} : p.order[j] = p.order[i]
    <3>1. /\ LeafFits(p) /\ p \in Leaf \cup {NoLeaf}
          /\ LeafFits(q) /\ q \in Leaf \cup {NoLeaf}
      BY <2>1, AnswerIsLeaf DEF IInv
    <3>2. p # NoLeaf /\ q # NoLeaf
      <4>1. NoLeaf.page = 0
        BY DEF NoLeaf
      <4>2. p # NoLeaf
        BY <2>1, <4>1
      <4>3. p.page \in 1..MaxPage
        BY <3>1, <4>2 DEF LeafFits, Leaf
      <4>4. q # NoLeaf
        BY <2>1, <4>1, <4>3, SearchAssumption
      <4>5. QED
        BY <4>2, <4>4
    <3>3. /\ p.list \in SUBSET Ids /\ p.order \in Orders
          /\ p.page \in Nat \ {0} /\ q.page \in Nat \ {0}
          /\ p.items \in PagesOf(p.list, p.order, p.page)
          /\ q.items \in PagesOf(p.list, p.order, q.page)
      BY <2>1, <3>1, <3>2, SearchAssumption DEF LeafFits, Leaf
    <3> DEFINE S == p.list
               order == p.order
               m == p.page
               n == q.page
               P == p.items
               Q == q.items
    <3>4. /\ S \in SUBSET Ids /\ order \in Orders
          /\ m \in Nat \ {0} /\ n \in Nat \ {0} /\ m < n
          /\ P \in PagesOf(S, order, m) /\ Q \in PagesOf(S, order, n)
      BY <2>1, <3>3
    <3> HIDE DEF S, order, m, n, P, Q
    <3>5. /\ \A i \in P, j \in Q : order[i] <= order[j]
          /\ \A i \in P \cap Q : \E j \in S \ {i} : order[j] = order[i]
          /\ n = m + 1 => \A i \in S \ (P \cup Q) :
               (\E x \in P : order[x] < order[i]) /\ (\E y \in Q : order[i] < order[y])
                 => \E j \in S \ {i} : order[j] = order[i]
      BY <3>4, PagesInOrder
    <3>6. QED
      BY <3>5 DEF S, order, m, n, P, Q
  <2>2. QED
    BY <2>1 DEF PagesFollowOneAnother
<1>2. QED
  BY <1>1, Invariant, PTL

\* If no entry changed between the page's two reads, the page is the one asked for and a
\* next one is announced exactly when there is one.
THEOREM NextPageAnnounced == Spec => []NextPageIsAnnounced
<1>1. IInv => NextPageIsAnnounced
  <2> SUFFICES ASSUME IInv, NEW c \in Calls, Page(c), window[c].steady
               PROVE  LET k == call[c]
                          list == window[c].before
                      IN /\ DOMAIN k.items \in PagesOf(list, k.order, k.page)
                         /\ \A page \in PagesOf(list, k.order, k.page + 1) :
                              k.next <=> page # {}
    BY DEF NextPageIsAnnounced
  <2>1. NextIsTrue(call[c], window[c]) /\ call[c].op = "search"
    BY FinishedIsAnswer DEF Page, Answer
  <2>2. QED
    BY <2>1 DEF NextIsTrue
<1>2. QED
  BY <1>1, Invariant, PTL

\* No entry is shown with the service of another, whichever reads fail and whatever
\* portal-server finds.
THEOREM ItemsShowOwnService == Spec => []ItemsShowTheirOwnService
<1>1. IInv => ItemsShowTheirOwnService
  BY FinishedIsAnswer DEF ItemsShowTheirOwnService, Answer, ServicesAreOwn
<1>2. QED
  BY <1>1, Invariant, PTL

\* A holder that is shown held the entry while the call ran; one who held it throughout
\* is missing only if a read failed or nobody knew his name.
THEOREM HoldersWitnessed == Spec => []HoldersAreWitnessed
<1>1. IInv => HoldersAreWitnessed
  BY FinishedIsAnswer DEF HoldersAreWitnessed, Answer, HoldersAreTrue
<1>2. QED
  BY <1>1, Invariant, PTL

=============================================================================
