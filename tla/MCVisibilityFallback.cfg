SPECIFICATION Spec
CONSTANTS
  Users = {u}
  Roles = {r1, r2}
  Services = {s1, s2}
  Calls = {c}
SYMMETRY Symmetry
INVARIANT EveryAnswerFollowsVisibility
