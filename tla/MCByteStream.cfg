SPECIFICATION Spec
CONSTANTS
    Byte = {a, b}
    a = a
    b = b
    Capacity = 2
    MaxData = 3
    MaxWritten = 4
    WriterStopsAtEnd = TRUE
INVARIANTS
    Fifo
    Accounting
PROPERTIES
    ImplementsPipe
