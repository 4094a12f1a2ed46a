SPECIFICATION Spec
CONSTANTS
    Conversations = {c1, c2}
    Writers = {w1, w2}
    PageSizes = {1, 2}
    MaxMessages = 5
    None = None
INVARIANTS TypeOK ReadOnceInOrder
PROPERTIES NextCursorTells ReaderSpec
SYMMETRY Symmetry
CHECK_DEADLOCK FALSE
