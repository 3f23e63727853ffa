SPECIFICATION Spec
CONSTANTS
    Byte = 4
    MaxLen = 5
INVARIANTS TypeOK FieldIsRight ReceiverAccepts
CHECK_DEADLOCK FALSE
