SPECIFICATION FairSpec
CONSTANTS
    Sender = {1, 2}
    Streams = {"a", "b"}
    _stream_ids = {"a", "b"}
    Messages <- MCMessages
    PAYLOAD = 2
    SEQ_MOD = 8
    _num_send_contexts = 2
    _num_receive_contexts = 2
    _receive_buffer_len = 3
    _use_crc = TRUE
    CrcSenders = {1}
    _receive_timeout = 2
    _msg_delay = 1
    RX_SIZE = 4
    MAX_MESSAGES = 2
    MAX_FAULTS = 1
    PROMPT = TRUE
INVARIANTS
    TypeOK
    CompleteIsSent
    StreamsIsolated
PROPERTIES
    EndsOnce
    ReceptionEnds
    MessagesArrive
