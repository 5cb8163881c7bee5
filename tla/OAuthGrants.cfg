\* Two calls rotate, revoke and switch two pairs of tokens of one connection.
SPECIFICATION Spec
CONSTANTS
    Grants = {g1}
    Orgs = {o1, o2}
    Calls = {c1, c2}
    MaxPairs = 2
    NoGrant = NoGrant
    NoOrg = NoOrg
INVARIANTS
    TypeOK
    RotatedTokensAreCurrent
PROPERTIES
    DeadTokensStayAsTheyDied
    ImplementsGrantLife
    RevocationsReachWhatTheySaw
SYMMETRY Interchangeable
\* When every request is denied, expired or its tokens are dead, nothing is left to do.
CHECK_DEADLOCK FALSE
