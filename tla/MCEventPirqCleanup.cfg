SPECIFICATION Spec
CONSTANTS
    Domains <- Shapes
    AllPirqs = {i1, i2, i3}
    AllCpus = {c1, c2}
    NoCpu = NoCpu
    NoPirq = NoPirq
SYMMETRY Symmetry
INVARIANT DeletedIsDefault
