CONSTANTS
    Com1 = {a1, a2}
    Com2 = {b1, b2}
    Run = {r1, r2}
    Casts = {{a1, a2, b1, b2}, {r1, r2}}
    None = None
SPECIFICATION Spec
INVARIANTS TypeOK WakesNeedPosts
PROPERTIES OrphanForGood PostWakes
\* Programs end, or wait for a post that will not come.
CHECK_DEADLOCK FALSE
