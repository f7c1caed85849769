\* three applications, each with one Tty after the other, two terminals
CONSTANTS
    Apps = {a1, a2, a3}
    Vts = {v1, v2}
    a1 = a1
    a2 = a2
    a3 = a3
    v1 = v1
    v2 = v2
    None = None
SPECIFICATION Spec
INVARIANTS TypeOK Unlocked Drawn
CONSTRAINT Untangled
SYMMETRY Interchangeable
PROPERTIES ImplementsStack
