SPECIFICATION Spec
CONSTANTS
    Users = {u1, u2}
    Projects = {p1, p2}
    Indexes = {i1, i2}
    Chats = {c1}
    MessageLimit = 1
    MaxMessages = 2
    None = None
SYMMETRY Symmetry
INVARIANTS
    TypeOK
    ShownIsOwn
PROPERTIES
    RestartsEnd
