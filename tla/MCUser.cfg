SPECIFICATION USpec
CONSTANTS
    Procs = {1, 2, 3, 4, 5, 6}
    NFILE = 5
    NOFILE = 4
    Pages = {g1, g2}
    NoPage = NoPage
    PIPESIZE = 2
    WRAP = 4
    ReadSizes = {2}
    WriteSizes = {3}
    MAXARGS = 3
    Lines <- MCLines
    HEAP = 8
    MINUNITS = 3
    Sizes = {1, 2, 4}
    MaxLine = 4
    MaxExpr = 4
    MaxText = 3
    MaxFile = 6
    Cap = 3
INVARIANTS ParserFollowsGrammar GrepFollowsExpression StringsAgree HeapPartitioned
PROPERTIES CommandEnds
CHECK_DEADLOCK FALSE
