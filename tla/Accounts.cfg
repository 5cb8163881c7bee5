\* Two people of one local part sign in, within and across an epoch.
SPECIFICATION MCSpec
CONSTANTS
    p = p
    q = q
    e = e
    f = f
    g = g
    x = x
    c1 = c1
    c2 = c2
    c3 = c3
    People = {p, q}
    Addresses = {e, f, g}
    AddressesOf <- Asserted
    Folded <- LowerCase
    LocalParts = {x}
    LocalPartOf <- OneLocalPart
    Calls = {c1, c2, c3}
    PersonOf <- Tabs
    OtherSlugs = {o}
    MaxUsers = 2
    MaxEpoch = 1
    MaxChanges = 1
    Nobody = Nobody
    NoAddress = NoAddress
    NoUser = NoUser
INVARIANTS
    TypeOK
    OnePersonalOrganizationEach
    AccountsAreOfOnesAddress
    EntrantsAreMembers
PROPERTIES
    LinksAreReplacedOnlyInRaces
    EveryoneUnblockedGetsIn
