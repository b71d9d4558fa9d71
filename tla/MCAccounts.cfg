CONSTANTS
  u1 = u1
  u2 = u2
  Users = {u1, u2}
  Browsers = {b1}
  Sids = {s1, s2}
  Reqs = {r1, r2}
  Names <- MCNames
  Admitted <- MCAdmitted
  Prefix <- MCPrefix
  Folded <- MCFolded
  None = None
SPECIFICATION AccountsSpec
SYMMETRY Symmetry
INVARIANTS AccountsTypeOK NamesClashOnlyByOverlap SignInHolds
