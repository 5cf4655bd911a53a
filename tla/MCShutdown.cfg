SPECIFICATION ShutdownSpec
CONSTANT Heeded = {"hup", "term"}
PROPERTY NoHostage
CHECK_DEADLOCK FALSE
