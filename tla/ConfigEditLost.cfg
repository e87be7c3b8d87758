SPECIFICATION Spec
CHECK_DEADLOCK FALSE
CONSTANTS
    MaxWrites = 2
PROPERTY EditReflected
