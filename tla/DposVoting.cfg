SPECIFICATION Spec
CONSTANTS
    Arbiters = {a1, a2, a3, a4}
    Faulty = {a4}
    Slots = {s1, s2}
    Blocks = {b1, b2}
INVARIANTS  OneBlockPerView
CHECK_DEADLOCK FALSE
