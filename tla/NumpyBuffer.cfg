CONSTANTS
    ByteBits = 2
    F16Max = 24
    F32Max = 80
    Layouts <- MCLayouts
    Calls <- MCCalls
    Strays <- MCStrays
    NotUtf8 <- MCNotUtf8
    Batches <- MCBatches
    Views <- MCViews
    KeyField <- MCKeyField
SPECIFICATION Spec
INVARIANTS RoundTrip ReadsStayInBuffer KeysStayDistinct
PROPERTY WritesStayInTheirRow
CHECK_DEADLOCK FALSE
