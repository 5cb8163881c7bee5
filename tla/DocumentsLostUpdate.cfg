\* Two actors save the same document.
SPECIFICATION Spec
CONSTANTS
    c1 = c1  c2 = c2  a1 = a1  a2 = a2  s1 = s1  s2 = s2
    Clients = {c1, c2}
    Actors = {a1, a2}
    ActorOf <- TwoActors
    Docs = {d1}
    Paths = {p1}
    Sections = {s1, s2}
    Contents <- EditTexts
    MaxSections = 2
    MaxDocs = 1
    MaxVersions = 3
    NoDoc = NoDoc  NoPath = NoPath  NoActor = NoActor
PROPERTY NoLostUpdate
