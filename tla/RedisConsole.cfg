SPECIFICATION Spec
CONSTANTS
    MaxCommands = 4
    Keep = 3
    NoCursor = NoCursor
PROPERTY OnlyClearThrows
