\* Two contexts, bound and unbound at every cycle.
SPECIFICATION Spec
CONSTANTS
    N_CTX = 2
    FPP_TABLE <- Fpps
    FPP0 = 4
    SLOTS <- OneSlot
    SUBSEC_MAX = 12
    SECONDS = 1
    DIV = 8
    BEAT = 4
    BYTE_WRAP = 6
    WORD_WRAP = 4
    STALL = 2
    MAX_TRIES = 8
    BURST = 2
    REST = 4
INVARIANTS PhaseSound NoDueLost StampAndWindow
