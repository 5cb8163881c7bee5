\* An owner and another user, one team, one link, two keys, two calls.
SPECIFICATION MCSpec
CONSTANTS
    first = first
    other = other
    Users = {first, other}
    Teams = {t}
    Keys = {k1, k2}
    Links = {l}
    Calls = {c1, c2}
    Levels = {0, 3}
    AskedRoles = {"viewer", "admin", "owner"}
    Recipients = {other}
    MaxChanges = 2
    Nobody = Nobody
    NoRole = NoRole
    NoKey = NoKey
    NoLink = NoLink
    Unset = Unset
SYMMETRY Symmetry
INVARIANTS
    TypeOK
    DenialsVeto
    NobodyExceedsTheirRole
    OnlyTheAudienceIsShown
    KeyChainsNeverGainRank
