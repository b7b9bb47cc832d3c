CONSTANTS
    Client = {c1, c2}
    Tag = {t1, t2}
    None = None
    InactiveTagsInUse = TRUE
SPECIFICATION BanningSpec
SYMMETRY Symmetry
INVARIANT BanningFollowsVisibility
