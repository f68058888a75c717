\* Two requests with one key at the same time.
SPECIFICATION Spec
CONSTANTS
    None = None
    Jobs = {i1, i2, i3}
    Printers = {p1}
    Keys = {k1}
    Bodies = {b1}
    Handlers = {h1, h2}
    GlobalMax = 2
    PrinterMax = 2
    Quota = 0
    MaxReturns = 0
    MaxMishaps = 0
SYMMETRY Interchangeable
INVARIANT
    OneJobPerKey
