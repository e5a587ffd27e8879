\* Two requests at a time, over and over, for one address next to the seeded one,
\* with two registrations.
SPECIFICATION Spec
CONSTANTS
  Call = {c1, c2}
  Email = {ann, root}
  Root = root
  NationalId = {id1}
  Otp = {o1, o2}
  Password = {p1, p2}
  Temporary = Temporary
  None = None
SYMMETRY Symmetry
CHECK_DEADLOCK FALSE
INVARIANTS
  MembersAreWhoTheySay LateRequestsAreRefused OwnersCanLogIn
  LostPasswordsAreReported
PROPERTY LogTellsTheStatus
