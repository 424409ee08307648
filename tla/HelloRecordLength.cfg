SPECIFICATION Spec
CONSTANTS
    Bodies <- ShortBodies
    Extra = 20
    Chunks = {300, 4096, 16000}
    MaxClientHelloBytes = 16384
INVARIANTS ExactlyOneRecord
CHECK_DEADLOCK FALSE
