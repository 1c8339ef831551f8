CONSTANTS
    Files = 2
    MaxKeys = 3
SPECIFICATION Spec
INVARIANTS
    TypeOK
    OneKeyEver
    ReleasedDurable
    TransferKeysAgree
