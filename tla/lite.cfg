SPECIFICATION FairSpec
CONSTANTS
    Sender = {1, 2}
    Streams = {"a", "b"}
    _stream_ids = {"a"}
    Lengths = {0, 4}
    PAYLOAD = 3
    SEQ_MOD = 8
    _receive_buffer_len = 2
    _receive_timeout = 1
    _msg_delay = 1
    RX_SIZE = 2
    MAX_MESSAGES = 2
    MAX_FAULTS = 2
INVARIANTS
    TypeOK
    BufferFits
    CompleteIsSent
    PiecesArePrefix
    ErrorsHaveCause
PROPERTIES
    EndsOnce
    ReceptionEnds
