CONSTANTS
    Sent <- MCSentLarge
    ReadBufSizeArg = 3
    MQTT_DEFAULT_BUF_SIZE = 1024
    Filler = 192
    ShortReads = FALSE
    ReadErrors = FALSE
    MinTotal <- MCMinTotal
SPECIFICATION Spec
INVARIANT
    NoReadBufOverflow
