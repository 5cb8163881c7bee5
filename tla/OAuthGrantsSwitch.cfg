\* A rotation commits between the two updates of a switch.
SPECIFICATION Spec
CONSTANTS
    Grants = {g1}
    Orgs = {o1, o2}
    Calls = {c1, c2}
    MaxPairs = 2
    NoGrant = NoGrant
    NoOrg = NoOrg
INVARIANTS
    PairsStayTogether
\* When every request is denied, expired or its tokens are dead, nothing is left to do.
CHECK_DEADLOCK FALSE
