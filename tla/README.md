# authz-server in TLA+

TLA+ models of authz-server, the authorization server of this repository, with
the TLC runs that check them on small instances and TLAPS proofs of their main
properties for every instance. Every definition is translated from the code under
`src/`; what is outside it (MySQL, TypeORM, the `@krgeobuk` packages,
portal-server, auth-server) is modelled from how the code uses it and marked
external in `PROJECT.json`.

## 1. The system

A NestJS server that answers over HTTP (port 8100) and TCP (port 8110) and keeps
all of its state in MySQL. Nothing is kept in memory between requests; Redis is
wired but no module calls it. Several instances of the server may run. A handler
runs without interruption from one `await` to the next, so what interleaves are
the SQL statements (or transactions) of the requests in flight.

| Component | State | Operations that change it | Called by, calls |
| --- | --- | --- | --- |
| user-role | table `user_role` (user, role) | assign, revoke, assignMultiple, revokeMultiple, replace, mergeUserRoles, rollbackMerge | HTTP and TCP controllers; auth-server sends merge and rollback |
| role-permission | table `role_permission` (role, permission) | assign, revoke, both batches, replace | HTTP and TCP controllers |
| service-visible-role | table `service_visible_role` (service, role) | assign, revoke, both batches, replace | HTTP and TCP controllers |
| role | table `role`, unique (name, serviceId), soft delete | create, update, delete | HTTP and TCP controllers; delete asks user-role |
| permission | table `permission`, unique (serviceId, action), soft delete | create, update, delete | HTTP and TCP controllers; delete asks role-permission |
| authorization | none | none: permission and role checks, listings, available services | HTTP and TCP controllers; reads all five tables, asks portal-server |
| controllers, guards | none | none: route a request, ask authorization, call a service | called by Express; AuthorizationGuard calls checkComplexPermission |
| clients, Redis, bootstrap | none that changes | none | wiring |

What is hard about it:

- **Interleaving.** Almost every operation reads first and writes later, with
  other requests' commits in between: the existence check of an assignment, the
  two SELECTs before a merge's transaction, the SELECT before a rollback's, the
  checks before a role is created, renamed or deleted. A replacement deletes and
  inserts, and only its locks keep others out between the two.
- **Partial failure.** A statement may fail, a transaction be rolled back, the
  server stop, or a commit succeed while its acknowledgement is lost, so that the
  caller is told of an error and everything was written.
- **Repeated and crossing messages.** auth-server drives the merge of two accounts
  from outside; a merge or rollback may be sent twice or overtake the other.
- **Reads at different times.** A check combines up to four SELECTs; one optimised
  query and one multi-step fallback must mean the same thing.
- **Fallbacks.** Each failing read of the authorization service is replaced by a
  default (false, an empty list, a coarser filter).
- **Parallel calls.** A requirement is decided by single checks that run at the same
  time; a page is enriched by two reads under `Promise.all`, of which one may fail or
  stay silent.
- **Silent servers.** Requests to portal-server and auth-server have no timeout.

`PROJECT.json` lists these as hazards, each at its line.

What makes each component correct:

- *Assignment tables*: what an answer says was true at some instant of the request;
  a request's effect is all or nothing and only in the rows it names; a replacement
  leaves exactly what was asked for.
- *Merge and rollback*: with nobody else at work, all roles move and nothing else
  changes; with others at work, at least no role is invented and nothing is half
  done.
- *Role and permission management*: no two roles of a service share a name; what is
  assigned is not deleted, and an update undoes no other request's work, except in the
  races the code leaves open, which are then the only exceptions.
- *Search and details*: the pages of an unchanged list follow one another, up to entries
  that tie in the sort column; an entry is shown with its own service and with holders
  it had, and a failed read hides something and invents nothing.
- *Access*: a handler runs only for a caller who holds what its route demands, a caller
  who does is let in, every request ends.
- *Decisions*: an answer rests on links that existed during the call, what holds
  throughout is never missed, and both ways of deciding agree.
- *Available services*: public and hidden services are treated as such whatever
  fails; by-role services follow the links.

## 2. The modules

| Module | Models | Checked by | Proved in |
| --- | --- | --- | --- |
| `AssignmentStore` | what an assignment table promises: atomic operations with truthful answers | as a property of `MCJoinTable` | `JoinTableProofs` |
| `JoinTable` | one assignment table and its five write operations | `MCJoinTable`, `MCUserRole` | `JoinTableProofs` |
| `AssignmentServices` (extends `JoinTable`) | the services of `role_permission` and `service_visible_role` | `MCJoinTable` | `AssignmentServicesProofs` |
| `AccountStore` (extends `AssignmentStore`) | the same promise with merges and rollbacks of two users' accounts in it | as a property of `MCUserRole` | `UserRoleProofs` |
| `UserRole` (extends `JoinTable`) | `user_role` with merge and rollback | `MCUserRole` | `UserRoleProofs` |
| `AccessDecision` | the queries of the authorization service as functions of one snapshot | through `Authorization` | through `AuthorizationProofs` |
| `Authorization` (extends `AccessDecision`) | the read methods, SELECT by SELECT, while the tables change | `MCAuthorization` | `AuthorizationProofs` |
| `ReadPromise` | what a caller of a read method is promised: one answer between the links that held and the links that were seen | as a property of `MCAuthorization` | `AuthorizationProofs` |
| `AvailableServices` | `getAvailableServices` with its filters and fallbacks | `MCAvailableServices` | `AvailableServicesProofs` |
| `ComplexPermission` | `checkComplexPermission` over single checks that run in parallel | through `HttpAccess` | through `HttpAccessProofs` |
| `HttpRoutes` | the route tables of the six HTTP controllers and what each route demands | through `HttpAccess` | - |
| `HttpAccess` (extends both) | a request's way through router, guards and pipe to a handler | `MCHttpAccess` | `HttpAccessProofs` |
| `Catalog` | create, update, soft delete of roles or permissions | `MCCatalog` | `CatalogProofs` |
| `CatalogSearch` | search and details of roles or permissions, with enrichment | `MCCatalogSearch` | `CatalogSearchProofs` |

### JoinTable

`rows` is the table, a set of pairs. A worker `w` is one request in flight,
`req[w]` its operation, arguments, progress and reply. The code calls `owner` and
`item` userId and roleId (or roleId and permissionId, serviceId and roleId).

| Action | Code (user-role.service.ts) |
| --- | --- |
| `Arrive` | a controller calls the service |
| `CheckExists` | `exists()` in `assignUserRole`, 131-139 |
| `ReadExisting` | `getRoleIds()` in `assignMultipleRoles`, 208-240 |
| `SaveSelect`, `SaveInsert` | the two statements TypeORM issues for `save` of entities with a primary key: SELECT those that exist, INSERT the rest in a transaction |
| `Delete` | `revokeUserRole`, `revokeMultipleRoles` |
| `ReplaceDelete`, `ReplaceSave` | the two statements in the transaction of `replaceUserRoles`, 308-310 and 312-323 |
| `StatementFails` | the catch blocks; also a server that stops |

The transaction of a replacement has two statements. `ReplaceDelete` locks the owner's
whole key range (`RangeOf`), the gaps between its rows included, as MySQL's default
isolation REPEATABLE READ does and as the code relies on; a mutant shows that with the
row locks of READ COMMITTED a grant slips in. Readers go on seeing the committed rows,
so `rows` changes in `ReplaceSave`, at the commit, when the deleted rows (`old`) go and
the new ones come. A key is locked for one transaction at a time, which is stricter
than InnoDB in one case: two DELETEs on an empty range may both hold its gap, their
INSERTs then deadlock, and one fails as in `StatementFails`. A duplicate id in the list of a batch makes the INSERT
or the SELECT fail and is one of the causes of `StatementFails`. `AnswerCommitted`
answers "error" after a commit whose acknowledgement was lost.

`seen[w]` is a history variable: which of the requested items the owner held, and
lacked, at some instant since the request arrived. The properties compare the reply
with it.

### AssignmentStore, the refinement, AssignmentServices

`AssignmentStore` is the abstract table: a call is asked, takes effect in one atomic
`Grant`, `Revoke` or `Replace`, or is refused without effect, and any answer but
"unknown" says which. A grant may `Notice` beforehand that some of its items are held,
and leaves those as they are. `JoinTable` ends with the
refinement mapping (`AnswerOf`, `CallOf`) and `ImplementsStore`, the abstract
specification under it. The mapping hides locks, histories and phases, so that the existence check is a
`Notice` (or a stutter), the DELETE of a replacement is a stutter, the last statement
takes effect, and an INSERT that runs into
another request's row is refused.

`AssignmentServices` has the ten write operations of role-permission and
service-visible-role by name, each the disjunction of the JoinTable statements its
code makes. Roles and services are disjoint sets of owners, so that both tables are one
set of pairs; the two services never touch each other's.

### UserRole

`mig[m]` is one merge or rollback request. `ReadSource`, `ReadTarget` and `Transfer`
are `mergeUserRoles` (362-427); `ReadCurrent`, `Restore` and `Reinsert` are
`rollbackMerge` (437-502). The transaction of the merge is one step (its UPDATE takes
all the locks that matter first). That of the rollback is two, because its `save`
SELECTs before it INSERTs and a grant to the source can commit in between; the keys it
has deleted stay in `locked`, and other requests go on seeing them.

`original` is external: the list auth-server notes before its merge and sends with a
rollback, whether or not the merge was answered. `given` and `undisturbed` are
history: what the merges of a pair added to its target, and whether anybody else
changed the two users' rows since the request's arrival.

`AccountStore` is the abstract `user_role`: `AssignmentStore` for the plain requests, and
merges and rollbacks that `NoticeHeld` what their users hold, at instants of their own,
and at one later instant `Merge` or `Rollback` what they have noticed, find
`NothingToMove`, or are refused. The mapping (`MoveOf`) forgets locks, histories and the
lists of an answered request; the two lists a handler keeps are what it has noticed. The
open transaction of a rollback (`Restore`) has done nothing yet but notice. What the
abstract merge may lose (a role noticed with both users and gone from the target by the
time it is taken from the source) is what the code may lose, so that the hazard stands
in the promise.

### AccessDecision and Authorization

A snapshot holds the three assignment tables and the roles and permissions that are
not soft-deleted. `IntegratedMatches` is the join of
`checkUserPermissionIntegratedQuery`; `StepwiseAnswer` composes the operators of the
fallback. TypeORM adds `deleted_at IS NULL` to the join on `permission`, and table
`role` is not in it, so a soft-deleted role still counts on either path.

`Authorization` takes the same operators one SELECT at a time. One state machine serves
six methods, which share their first round (`Promise.all` of the user's roles and the
service's visible roles, in either order) and part at `NextRead`:

| Action | Code (authorization.service.ts) |
| --- | --- |
| `Call` | 41-106, and the entry of the other methods |
| `IntegratedQuery`, `IntegratedQueryFails` | 112-143 |
| `ReadUserRoles`, `ReadVisibleRoles`, `AfterRoles` | 155-178, 236-259, 312-325, 369-391 |
| `ReadPermissionIds` | 181-196, 328-336 |
| `ReadPermissions` | 203-214 (`findByAnd`), 465-468 (`findByIds`) |
| `ReadRoles` | 262-265, 422-425 |
| `ReadFails` | the catch blocks at 70-80, 287-297, 346-354, 392-400, 435-443, 478-486 |

Without a usable role a method answers at once (`EndsEarly`), except that
`getUserPermissions` does so only for a user without roles: if none of them is visible in
the service it goes on, with an empty list that MySQL refuses and the method's `catch`
turns into `[]`. `PermissionIds` of no role is therefore empty, and a mutant takes the
empty list for no condition.

A boolean check is true exactly when its set of matches is not empty. The writers are
abstracted to a commit that changes one table in any way, which includes everything
the services can do to that table. `window` is history: every row seen during the
call, and the chains (role, contribution) complete at every instant of it.

`ReadPromise` is what is left of this for a caller: `LinksChange` while he waits, then one
`Answer` that has everything a steady link leads to and nothing that no link seen leads
to, or `Fail`, which is empty. Its links are the chains. A user who holds a thing by one
chain first and by another later may be missed, as in the code.

### AvailableServices

`call[c]` is one call of `getAvailableServices`. A service is `hidden`, `public` or
`byRole`; one that portal-server does not list counts as hidden. The three reads
(`ReadUserRoles`, `PortalAnswers`, `BatchQuery`) each have a failing twin with the
default the code falls back to.

### ComplexPermission, HttpRoutes and HttpAccess

`call[c]` is one run of `checkComplexPermission`. Its single checks (`hasPermission`,
`checkUserRole`) are not repeated statement by statement: what `Authorization` shows of
them (`ReadPromise`) is the contract they are modelled by. `maybe` is what the tables
have shown of the user since the call began, `sure` what he has held all along by one
and the same chain; `Lose` and `Gain` are the other writers. `Settle` is the code
between two `await`s: it does nothing before the last check of a `Promise.all`, then
goes on from permissions to roles and to the answer. Empty lists leave their result
true, as in the code.

`HttpRoutes` lists the 38 routes in the order `app.module` imports their modules and the
controllers declare them, with the fields of `@RequireAccess`. A route `Serves` the
requests for a route if it is the first that matches them.

`http[c]` is the HTTP request: `Receive` (the router), `VerifyToken`
(AccessTokenGuard), `Decide` (AuthorizationGuard), `Validate` (ValidationPipe),
`Replied`. The guards belong to an external package; modelled is that the second calls
`checkComplexPermission` of the injected AuthorizationService with the decorator's fields
and lets pass what is true. `CallDirectly` is any other module that injects the service
and asks with a requirement of its own, also with operators and empty lists no route uses.

### Catalog

`entry[i]` is the row of id `i`, `call[a]` a management request with the entity its
handler holds (`copy`). `kind` says whether the run is of roles or permissions, whose
services are the same code. One service's entries are modelled, since both the duplicate
check and the unique index are per service.

| Action | Code (role.service.ts; permission.service.ts alike) |
| --- | --- |
| `CheckNewName`, `Insert` | `createRole`, 174-214 |
| `FindToUpdate`, `CheckName`, `UpdateEntity` | `updateRole`, 216-270 |
| `FindToDelete`, `CheckHolders`, `SoftDelete` | `deleteRole`, 272-309 |
| `StatementFails` | the catch blocks; also a server that stops |
| `AssignmentsChange` | a commit of `user_role` or `role_permission` |

The duplicate check (`NameInUse`) does not see soft-deleted rows, the unique index
(`Indexed`) does. `updateEntity` of the external base repository writes the columns of
the handler's copy; the model allows that `deletedAt` is among them and that it is not,
so a deleted row may come back. `grounds` and `moved` are history: what justified a
refusal, and whether what the handler read has changed since.

### CatalogSearch

One call of `searchRoles`/`searchPermissions` or of
`getRoleById`/`getPermissionById`. `ReadItems` and `ReadTotal` are the two statements
of the repository's `Promise.all`, in either order. Then the holders
(`ReadHolders`, `NameHolders`) and the services (`PortalAnswers`) are read in
parallel, each with its failing twin: `getServicesByQuery` answers with a single
service when several were asked for and with a list when one was, a failure of
auth-server is caught where it happens, a failure of the tables rejects the whole
`Promise.all` and is answered at once by `Fallback`.

`Orders` is what a list may be sorted by, the rank of each entry in the column the caller
chooses. The query has no tie-breaker, so `FirstOf` allows any order among entries of
one rank, and `PagesOf` allows another one for each statement. `previous[c]` is history:
the last page the caller of `c` got, as long as it goes on to a later page of the same,
unchanged list (`GoesOn`). Filters only choose which list is paged, and `Init` has all
of them.

## 3. The runs

Safety runs are of `Spec`. Three runs check liveness, under weak fairness of steps the
code itself or the database takes, and of nothing else:

- `HttpAccess`: `ServerStep` of each call, that is the guards, the pipe and the single
  checks. The event loop gets round to every pending callback, and a SQL statement is
  answered or fails (the driver reports a lost connection). Clients, callers and
  writers of the tables are not fair: a request ends however often the tables change.
- `AvailableServices` and `CatalogSearch`: `LocalStep` of each call, the statements
  this server's database answers or fails. portal-server and auth-server owe nothing,
  for `firstValueFrom(client.send(...))` has no timeout. The properties therefore say
  that a call ends *or* waits for such a server for ever, and for nothing else. No
  symmetry is used in these runs.

Nothing else in the code makes a request end, and no other liveness is claimed.
Deadlock is checked in every run.

| Run | Instance | Shows |
| --- | --- | --- |
| `join_table` | the ten methods over 1 role and 1 service as owners, 2 items, 2 requests, any initial table | `GrantsWereTrue`, `RevocationsWereTrue`, `ReplacementsWereExact`, `WritesAreWhole`, `ImplementsStore` |
| `user_role` | 2 users, 1 role, 1 plain request, 2 merge or rollback requests of one pair | `AnswersAreTrue`, `UndisturbedMigrationsAreExact`, `MergeOnlyMoves`, `ChangesAreWhole`, `ImplementsAccounts` |
| `merge_crossed` | 2 users, 1 role, 2 migration requests, no plain request | violation of `MigrationsLoseNoRole` |
| `rollback_shared` | the same with 1 migration request | violation of `RollbackReturnsOnlyAdded` |
| `rollback_stale` | the same with 1 plain and 1 migration request | violation of `RollbackRestoresOnlyHeld` |
| `authorization` | 1 user, 2 roles, 1 permission, 1 service, 1 call of any of the 6 methods in the service, or of the two checks without one | `PathsAgree`, `AnswersAreWitnessed`, `SteadyChainsAreAnswered`, `KeepsPromise` |
| `available_services` | 1 user, 2 roles, 2 services, 1 call | `PublicIsShownHiddenIsNot`, `ByRoleServicesFollowEntitlement`, `NoRoleNoByRoleService`, `OnlyPortalKeepsACallWaiting` |
| `visibility_fallback` | the same | violation of `EveryAnswerFollowsVisibility` |
| `catalog` | 2 ids, 2 names, 2 infos, 1 owner, 2 requests, roles and permissions, any initial table | `NamesUnique`, `RefusalsWereTrue`, `WritesAreExact`, `AssignedAreKept` |
| `http_access` | all 38 routes, 13 permissions, 3 roles, 72 requirements for direct calls, 1 call | `GrantsAreWitnessed`, `SteadyHoldersAreLetIn`, `HandlersAreGuarded`, `HoldersAreNotRefused`, `EveryRequestEnds` |
| `batch_route` | the same | violation of `RoutesReachTheirHandlers` |
| `catalog_search` | 3 ids, 2 services, 1 owner, 1 call at a time, pages of 2, up to page 2, sorted by a column without ties or by one with a tie | `PagesFollowOneAnother`, `NextPageIsAnnounced`, `ItemsShowTheirOwnService`, `HoldersAreWitnessed`, `OnlyOthersKeepACallWaiting` |

Why the bounds suffice:

- Two requests are enough for one to commit between any two statements of the
  other; two items distinguish one row of a batch from the rest; two owners show
  that a request leaves other owners alone. Requests of a finished worker are
  followed by new ones without limit, so that an answer may be overtaken by any
  number of later requests.
- `user_role` needs a plain request next to two migrations, since the interesting
  cases are a grant or revocation between a migration's SELECT and its commit and two
  migrations of the same pair crossing. One role is enough for these. The sizes beyond
  it are left to the theorems, which hold for any sets and any pairs, also for a
  pair of a user with itself, which no run includes.
- `authorization` asks the listings in a service only. Without one they take the steps
  the checks take, or fewer; the theorems cover them.
- A call of `Authorization` or `AvailableServices` writes nothing that another call
  reads, so one call, with arbitrary commits beside it, is as good as many. Commits
  happen only while a call runs: `Init` covers every content of the tables.
- `Catalog` needs two requests, for one to commit between any two statements of the
  other; two entries for one
  to hold the other's name, live or deleted; one owner to be assigned or not.
- `http_access` has every route and, called directly, requirements with each operator and
  with empty lists. A call reads and writes nothing of another call, so one is enough.
- `catalog_search`: three ids on pages of two give an empty list, a full and a
  half-full page, a page past the end and a second page; in one of the two orders the tie
  is between the last entry of the first page and the entry of the second. One call at a
  time, since it writes nothing; its caller may go on to the next page; entries change only between its two reads of the page and assignments only
  while it runs, for nothing else of them can reach the answer.
- Symmetry is used where all uses of the constants are symmetric; no liveness is
  checked under it.

### What the violation runs say

- `merge_crossed`: `mergeUserRoles` decides from two SELECTs made before its
  transaction which roles to move and which to delete as duplicates
  (user-role.service.ts:370-387). Let both users hold a role. The merge reads both lists
  and takes the role for a duplicate; a rollback of the pair, sent while the merge still
  runs, finds the role with the target and deletes the target's row, and its `save`
  inserts nothing, because the source still has its own. The merge deletes the source's
  row as a duplicate of the one that is going, and nobody holds the role any more. It
  makes no difference which of the two transactions commits first.
- `rollback_shared`: a role both users held is a duplicate for the merge, and the
  rollback then takes it from the target, against the comment at :461 that speaks of
  roles *added* to the target.
- `rollback_stale`: the roles the target has "at present" (:462) are those of a SELECT
  before the transaction. One revoked since is given to the source.
- `batch_route`: README.md:191 of the repository documents
  `POST /api/users/:userId/roles/batch`, but the controller declares
  `users/:userId/roles/:roleId` before it, and Express takes the first route that
  matches: "batch" becomes a role id. The same holds of DELETE and of the batch routes
  of the other two assignment controllers. No access is gained by it
  (`HandlersAreGuarded` passes), because the two routes demand the same.
- `visibility_fallback`: when the batch query of the visible roles fails, the filter
  called safe at authorization.service.ts:904 shows every by-role service to every
  user who has any role (the TODO at :933).

## 4. The proofs

All theorems hold for every value of the constants, under the named assumptions only:
`MergePairsAssumption` (pairs are pairs of users), `CatalogAssumption` (actions,
services and names are functions on permissions and roles), `QueriesAssumption`,
`OwnersAreRolesOrServices`, `NoneIsNoValue` (None is no name, column or row),
`GoalsAssumption` (permissions and roles are disjoint),
`SearchAssumption` (a page holds at least one row, and there is a first page),
`PlaceholdersAreNoServices` and `NoneIsNoAnswer` (the texts shown in place of a service
are no services, and "no answer yet" is no answer),
`RoutesAssumption` (no route demands an empty list) and `ShadowingAssumption` (a
route that takes another's requests demands the same). The last two are facts about the
one route table of `HttpRoutes`, which has no parameter; TLC evaluates them on every
run, and the proofs use them as they stand.

- **JoinTableProofs.** The invariant `TableInv` adds to the type invariant what
  connects the handler's progress with the history: the items an assignment has
  dropped from its list were held when it dropped them, a running request's history
  includes the table as it is now, and a finished one's reply is backed by `seen`. `LockInv`, a part of it, says that
  an open replacement holds its owner's whole range, that no two requests hold a key in
  common, and that the rows of the range are still those its DELETE found, which is why
  `ReplacementsWereExact` holds at the commit. The
  answers alone are not inductive, for they say nothing of a handler half way. The steps
  are proved for any step that leaves the requests alone or is one of a worker, so that
  they serve again in `UserRoleProofs`.
  `ImplementsTheStore`: every step of `JoinTable` is a step of `AssignmentStore` or a
  stutter under the mapping. The simulation needs `RefInv`, which is `TableInv` and what
  the mapping relies on (`Fresh`): a request has an answer exactly when it is done, and
  one that has not read yet means to write all it asked for.
- **UserRoleProofs.** Here the table also changes by merges and rollbacks. The
  invariant is the type invariant, `TableInv`, `MigLockInv` and `MigInv`. `MigLockInv`
  keeps the keys of an open rollback apart from those of open replacements. `MigInv` says what an
  *undisturbed* request's lists are: exactly the rows its users have now. Without it
  nothing is known of a list at commit time, which is the very hazard; with it,
  `UndisturbedMigrationsAreExact` is a computation on sets. `MergeOnlyMoves` needs
  only the types. `ImplementsTheAccounts` reuses the simulation of
  `JoinTableProofs` for the plain requests, which see merges only as a table that changes
  between their steps, and maps each statement of a migration: a SELECT to
  `NoticeHeld` or `NothingToMove`, the commit to `Merge` or `Rollback`, everything else to
  `RefuseMove`. `AccountInv` adds that a handler which has not read yet knows nothing
  (`Unread`). The transfer is the interesting step: the code takes from the source the
  unique roles it still has and the duplicates, the promise says all that was noticed,
  and these are the same rows. The theorem has no assumption on the pairs but that they
  are pairs of users, so that a merge of a user with itself is in it.
- **AuthorizationProofs.** `PathsAlwaysAgree` unfolds both paths on one snapshot.
  The other two theorems use `ReadInv`: every link a running call has read is in its
  window, the window contains the current tables, and for every chain complete
  throughout the call its part is in what has been read so far. `PromiseKept`, the
  refinement of `ReadPromise`, needs besides that only an ended call has failed
  (`FailsClosed`): a step that goes on is a stutter, one that ends the call is an answer
  because the invariant holds after it, a commit is a `LinksChange` because chains are
  monotone in the tables.
- **AvailableServicesProofs.** The same scheme with the two tables of that module.
- **AssignmentServicesProofs.** Each of the ten operations is a step of `JoinTable`, so
  that the answers, the wholeness of writes and the refinement carry over.
- **HttpAccessProofs.** The invariant `IInv` connects the progress of a call with its
  history: what has been granted is in `maybe`, a goal in `sure` is granted or still
  pending unless a read failed, the result of the permissions kept while the roles are asked
  says one or the other, and a request's call asks for what the route that serves it
  demands. The two properties of an answer follow from it because the operators are
  monotone in the set of goals; those of the handlers need besides that every list of a
  route is non-empty, which is the very hazard of an empty list under OR.
- **CatalogProofs.** `CallsSound` says what a handler half way relies on: the entity an
  update holds is live and is the row's content unless `moved` says it was overtaken, and
  a deletion about to write found nobody assigned unless `moved`. That nothing else writes
  an entry's row, and that a new id belongs to one creation (`CreatesDiffer`), makes it
  inductive. The proof first shows that every step either goes on to the next statement
  or ends the request with an answer and at most one row (`StepMoves`); the invariant is
  then proved for these two shapes and for a commit of the assignment table.
- **CatalogSearchProofs.** Every step moves one call, from the phase of its statement to
  the next or to a reply, and the invariant `IInv` is kept for these shapes. It says of a
  running call what its answers so far are (the page read, the total, the holders, the
  services), so that each of the four properties is a fact about one reply. `PagesFollowOneAnother`
  speaks of two calls: what the first leaves behind (`previous`) is a page of its list,
  and the second is one of the same list. Whatever comes first up to the end of a page
  ranks no higher than what comes after it; two pages may cut this order at different
  places only among entries that tie, so that an entry repeated or missed has another of
  its rank. `NextPageIsAnnounced` is arithmetic on cardinalities with the two bounds of
  an integer division (`DivBounds`).

Only model-checked: the liveness properties
(`EveryRequestEnds`, `OnlyPortalKeepsACallWaiting`, `OnlyOthersKeepACallWaiting`), which
with ENABLED are beyond TLAPS here, that the five violation properties fail, and
deadlock freedom. There is no recursive definition in the models.

## 5. What is not modelled

- In `Authorization` role and permission management are arbitrary commits. A
  permission's action and service and a role's name do not change during a call there.
- The test of the authorization controller whether the caller asks about himself or is an
  admin: `isAdminLevelRole` belongs to an external package, and is given role ids.
- The listings by service ids and by filter (`findByServiceIds`, `findByAnd` without
  filter, `findByOr`): one SELECT each, whose answer is passed on.
- Serialization, logging, CORS, environment parsing; Redis, which is provided and never
  called.
- What `deleteRole` leaves in `role_permission` and `service_visible_role`; nothing says
  what should become of these rows.
- MySQL's collation, by which two actions that differ in case are equal to the query and
  not to the comparison at authorization.service.ts:210.
- Services without an id, which the two filters treat differently.
- An assignment row that names a role or user that does not exist: the tables have no
  foreign keys and the code does not look, so owners and items are any ids.

## 6. Plan

Left, most valuable first:

1. `MergeSaga`: auth-server's protocol of merge and compensation around `AccountStore`.
2. An abstract specification of role and permission management, with the two races of
   the code in it, and `Catalog` shown to implement it.
3. The deletion of a role composed with `Authorization`, to say what the assignments it
   leaves can still grant.

## 7. Running it

    tlc -workers 2 -config MCUserRole.cfg MCUserRole
    tlapm UserRoleProofs.tla

The largest runs, `authorization` with 1.7 million states, `catalog_search` with 1.2
million, `user_role` with 450 thousand and `join_table` with 320 thousand, take between
one and four minutes.
