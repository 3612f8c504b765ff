CONSTANTS
    Words <- SomeWords
    ConfigWords <- SomeConfigWords
    EnvWords <- SomeEnvWords
    EnvInt <- SomeEnvInts
    FlagInt <- SomeFlagInts
    Readable <- SomeReadable
    FileInt <- SomeFileInts
    MaxArgs = 4
SPECIFICATION Spec
INVARIANTS TypeOK ScanAgrees Precedence
CHECK_DEADLOCK FALSE
