\* A child handed over, which a signal may have killed before.
SPECIFICATION FairSpec
CONSTANTS
    stdout = stdout
    stderr = stderr
    Streams = {stdout, stderr}
    MaxText <- Texting
PROPERTY TerminationEnds
