SPECIFICATION LogSpec
CONSTANTS
    Line = {a, b}
    Max = 4
    None = None
PROPERTY ImplementsBoundedLog
