SPECIFICATION Spec
CONSTANTS
  Users = {u1, u2}
  Sessions = {s1, s2}
  MaxNid = 5
  Imports = TRUE
SYMMETRY UserAndSessionSymmetry
INVARIANT TypeOK
INVARIANT DefaultIsRecognised
INVARIANT MembershipsPaired
INVARIANT DefaultExists
CHECK_DEADLOCK FALSE
