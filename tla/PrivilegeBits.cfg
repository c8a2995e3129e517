SPECIFICATION Spec
CONSTANTS
    Bits = {2, 4, 8}
    FormBits = {2, 4}
    Groups = {"g"}
    Anonymous = FALSE
    None = None
    MaxEdits = 2
INVARIANT NegativesOnlyTakeAway
CHECK_DEADLOCK FALSE
