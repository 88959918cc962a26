\* Three batches over two keys, in any order of their guards, one reader.
SPECIFICATION Spec
CONSTANTS
    k1 = k1
    k2 = k2
    w1 = w1
    w2 = w2
    w3 = w3
    r1 = r1
    NULL = NULL
    Torn = Torn
    Key = {k1, k2}
    Folded <- Apart
    Write = {w1, w2, w3}
    Reader = {r1}
    Guards = {1, 2, 3}
    Cuts = {2, 3}
    BatchSize = 1
SYMMETRY WriteSymmetry
INVARIANTS ReadWhole NothingLeftBehind
PROPERTIES ImplementsLWW AnswersTrue
CHECK_DEADLOCK FALSE
