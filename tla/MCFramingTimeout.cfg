CONSTANTS
    Sent <- MCSent
    ReadBufSizeArg = 4
    MQTT_DEFAULT_BUF_SIZE = 1024
    Filler = 192
    ShortReads = TRUE
    ReadErrors = FALSE
    MinTotal <- MCMinTotal
SPECIFICATION Spec
INVARIANT
    StaysFramed
