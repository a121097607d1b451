\* Two readers; codes of 1 and 2 characters in a ring of 5 bytes.  With a
\* threshold of 80 percent the ring has to be full to the last byte.
CONSTANTS
    Readers = {r1, r2}
    Formats = {1, 2}
    Thresholds = {50, 80}
    CBUF_SIZE = 5
    MaxList = 1
    MaxUnits = 1
SPECIFICATION FairSpec
INVARIANTS
    ReaderWoken
    ReleaseClean
PROPERTIES
    ImplementsStream
    CodesServed
