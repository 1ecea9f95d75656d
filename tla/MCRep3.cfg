SPECIFICATION Spec
CONSTANTS
    P = 29
    Draw <- MCDraw
    WIDTH = 8
    NARROW = 4
    Values = {0, 1, 2, 15, 28}
    Words = {0, 1, 127, 128, 255}
    Nibbles = {0, 1, 7, 15}
    Seeds = {0, 1009}
INVARIANTS
    ResultOpensToPlain
    ReplicasAgree
