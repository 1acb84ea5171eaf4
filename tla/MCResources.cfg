SPECIFICATION RSpec
CONSTANTS
    Procs = {p1, p2}
    NFILE = 2
    NOFILE = 2
    Pages = {g1}
    NoPage = NoPage
    PIPESIZE = 2
    WRAP = 4
    ReadSizes = {1}
    WriteSizes = {3}
SYMMETRY Symmetry
INVARIANTS  PipeOutlivesUsers StreamInOrder SleeperJustified PagesConserved 
CHECK_DEADLOCK FALSE
