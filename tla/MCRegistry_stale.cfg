CONSTANTS
    h1 = h1
    h2 = h2
    Handlers = {h1, h2}
    MaxId = 5
    Kinds = {"escpos", "cups"}
    Queued = {"cups"}
    Names = {"front"}
    Imported = {"printers"}
    Printers0 = 2
    None = None
    MaxRequests = 3
SPECIFICATION Spec
SYMMETRY Interchangeable
PROPERTIES StaleWriteRefused
CHECK_DEADLOCK FALSE
