SPECIFICATION Spec
CONSTANTS
    Sender = {1, 2}
    Streams = {"a", "b"}
    _stream_ids = {"a"}
    Lengths = {0, 5}
    PAYLOAD = 2
    SEQ_MOD = 8
    _receive_buffer_len = 3
    _receive_timeout = 2
    _msg_delay = 0
    RX_SIZE = 3
    MAX_MESSAGES = 2
    MAX_FAULTS = 1
INVARIANT
    IgnoredIsHarmless
