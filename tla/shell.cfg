CONSTANTS
    None = None
    Unreadable = Unreadable
    Projects = {p1, p2}
    Tids = {t1, t2}
    Families = {v4, v6}
    Configs = {c1, c2}
    MaxFaults = 1
SYMMETRY Symmetry
SPECIFICATION Spec
INVARIANTS
    ListIsProject
    PromptIsTrue
    RuntimeFollowsProfile
PROPERTIES
    AnswersAreKept
