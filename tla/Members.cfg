\* Two requests manage two members and an invitation that two sign-ins may use.
SPECIFICATION Spec
CONSTANTS
    Users = {u1, u2}
    Changes = {q1, q2}
    SignIns = {s1, s2}
    Invitations = {i1}
    PlainRoles = {"member"}
    NoUser = NoUser
INVARIANTS
    TypeOK
    AcceptedInvitationsWereUsed
PROPERTIES
    OwnersAreLostOnlyToStaleReads
    RoleChangesAreAuthorized
    ClosedInvitationsStayClosed
SYMMETRY Interchangeable
\* An organization that has lost its last owner and admin has nothing left to do.
CHECK_DEADLOCK FALSE
