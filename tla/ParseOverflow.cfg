SPECIFICATION Spec
CONSTANTS
    Tools = {"read_file", "write_file"}
    MaxMembers = 1
INVARIANTS
    StrictReadersAccept
CHECK_DEADLOCK FALSE
