CONSTANTS
    a1 = a1
    a2 = a2
    i1 = i1
    i2 = i2
    i3 = i3
    p1 = p1
    None = None
    Jobs = {i1, i2, i3}
    Printers = {a1, a2}
    Keys = {p1}
    Bodies = {p1}
    Handlers = {a1, a2}
    GlobalMax = 2
    PrinterMax = 1
    Quota = 1
    MaxReturns = 1
    MaxMishaps = 1
    Micros = {0, 1}
    Writers = {a1, a2}
    MaxEntries = 4
    Unhashed = 1
    Retention = 1
    MaxMinute = 3
    Scheduled = {a1, a2}
    Minute = 2
    RetryBase = 1
    RetryMax = 3
    MaxAttempts = 3
    MaxSecond = 6
    Switchers = {a1, a2}
    MaxChildren = 2
    PrinterRows = {p1}
    MaxRestarts = 3
SPECIFICATION ServiceSpec
SYMMETRY Interchangeable
VIEW Moving
PROPERTY NotBefore
CHECK_DEADLOCK FALSE
