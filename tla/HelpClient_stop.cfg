SPECIFICATION Spec
CONSTANTS
    h1 = h1
    d1 = d1
    p1 = p1
    v1 = v1
    m1 = m1
    r1 = r1
    r2 = r2
    Conns <- Connectors
    Hdmi <- OneHdmi
    NoConn = NoConn
    Props <- OneProp
    Values <- OneValue
    Unwanted = Unwanted
    Modes <- OneMode
    Rects <- TwoRects
    Sizes <- OneSize
    Blank = Blank
    RawCommands <- OneRawQuery
    MaxOptions = 1
PROPERTY StopReturns
CHECK_DEADLOCK FALSE
