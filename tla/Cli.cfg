\* One operation under runMain.  The program may wait for ever: for a child, a
\* stream, or an exit that Node will not report again.
SPECIFICATION MCSpec
CONSTANTS
    stdout = stdout
    stderr = stderr
    w1 = w1
    w2 = w2
    Streams = {stdout, stderr}
    MaxText <- Texting
    Bad = 0
    Worlds <- Prints
    Times = 2
    MaxAttempts = 2
    Retryable = {"createBookmark", "notify"}
    MaxChunks = 2
    Writers = {w1, w2}
    Chunks = 2
    Old = Old
    Readers = {"first", "second"}
    Current = "main_clone"
    Olds <- OldNames
    Codes = {1, 130}
INVARIANTS TypesOK ExitTells NothingLeftBehind StreamedIsWhole ProbeIsHonest ScanIsHonest AnswersAreTrue ReadsAreWhole SectionsStand SettingsAreTrue
PROPERTIES NoLateLine StreamEnds ProcessExits
CHECK_DEADLOCK FALSE
