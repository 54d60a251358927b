SPECIFICATION Spec
CONSTANTS
    a1 = a1
    a2 = a2
    q1 = q1
    Ad = Ad
    Authors = {a1, a2}
    AuthorOf <- OneOther
    Posts = {p1, p2, q1}
    Hydratable = {p1, p2, q1}
    Sources = {inNetwork}
    Tabs = {t1, t2}
    PageSize = 3
    MaxPostsPerAuthor = 1
    AdSlots = {1, 3}
    MaxExpiries = 1
    MaxFailures = 1
CONSTRAINT SeenStateAnswers
SYMMETRY TabAndPostSymmetry
INVARIANTS NotShownTwice BestOfEachAuthor AdsDisplaceNothing
