SPECIFICATION Spec
CONSTANTS
    Producers = {t1}
    Consumers = {c1}
    Items = {x1, x2, x3, x4}
    t1 = t1
    c1 = c1
    x1 = x1
    x2 = x2
    x3 = x3
    x4 = x4
    NULL = NULL
    Capacity = 2
    W = 5
INVARIANT NoOverwrite
PROPERTY ImplementsFifo
SYMMETRY Symm
