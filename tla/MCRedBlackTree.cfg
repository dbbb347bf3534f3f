SPECIFICATION Spec
CONSTANTS
    Keys <- MCKeys
    Nil = Nil
    Fake = Fake
INVARIANTS
    RedBlack
    ReadersAgree
PROPERTIES
    ImplementsSet
