CONSTANTS
    Chars = {"a", "b"}
    MaxLen = 4
SPECIFICATION Spec
INVARIANTS
    DeliveredToEveryMatching
