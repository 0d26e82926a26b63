SPECIFICATION Spec
CONSTANTS
  r1 = r1
  r2 = r2
  p1 = p1
  s1 = s1
  NoService = NoService
  Users = {u}
  Roles = {r1, r2}
  Permissions = {p1}
  Services = {s1}
  Goals = {"edit", "view"}
  ActionOf <- MCActionOf
  ServiceOf <- MCServiceOf
  NameOf <- MCNameOf
  Checks = {c}
  Queries <- MCQueries
INVARIANTS
  TypeOK
  PathsAgree
  AnswersAreWitnessed
  SteadyChainsAreAnswered
PROPERTIES
  KeepsPromise
