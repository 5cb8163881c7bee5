\* Two requests, each taking an owner away, count the owners before either writes.
SPECIFICATION Spec
CONSTANTS
    Users = {u1, u2}
    Changes = {q1, q2}
    SignIns = {s1}
    Invitations = {i1}
    PlainRoles = {"member"}
    NoUser = NoUser
INVARIANTS
    OrganizationKeepsAnOwner
