SPECIFICATION StreamSpec
CONSTANTS
    Chunk = 3
    BufSize = 6
    ReqLens = {1, 2, 3, 4, 6, 7, 8}
    FileLens = {0, 1, 3, 5, 6, 7}
    ErrLen = 2
INVARIANT OkIsComplete
PROPERTY ShortRequestAnswered
CHECK_DEADLOCK FALSE
