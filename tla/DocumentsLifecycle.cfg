\* Three documents created, moved, deleted and restored over three paths, under a quota of one.
SPECIFICATION QuotaSpec
CONSTANTS
    c1 = c1  c2 = c2  a1 = a1  a2 = a2  s1 = s1
    Clients = {c1, c2}
    Actors = {a1, a2}
    ActorOf <- TwoActors
    Docs = {d1, d2, d3}
    Paths = {p1, p2, p3}
    Sections = {s1}
    Contents <- OneText
    MaxSections = 1
    MaxDocs = 1
    MaxVersions = 1
    NoDoc = NoDoc  NoPath = NoPath  NoActor = NoActor
INVARIANTS
    QuotaOverrunIsBounded
SYMMETRY DocsAndPaths
