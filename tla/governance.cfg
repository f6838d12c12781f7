SPECIFICATION FairSpec
CONSTANTS
    c1 = c1
    c2 = c2
    s1 = s1
    s2 = s2
    x1 = x1
    x2 = x2
    x3 = x3
    None = None
    Candidates = {c1, c2}
    Seeds = {s1, s2}
    Calls = {x1, x2, x3}
    CandidateOf <- MCCandidateOf
    Groups = {"g", "h"}
    Preferences = {"h"}
    Keys = {"k1", "k2", "k3", "k4"}
    ShortKeys = {"k1", "k3", "k4"}
    FullKeys = {}
    Shapes <- MCShapes
    SeedShape <- MCSeedShape
INVARIANTS
    TypeOK
    ContributionsAreKept
    ScopesStayApart
    HistoryIsComplete
    IndexesFollowMemories
    ReplacementsAreLinked
    DecisionsAreBacked
PROPERTIES
    DecisionsAreFinal
    ReplacedIsFinal
    KeepsLedger
    CallsEnd
CHECK_DEADLOCK FALSE
