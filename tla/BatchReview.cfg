CONSTANT N = 2
SPECIFICATION Spec
PROPERTY ReviewWhenQuiet
CHECK_DEADLOCK FALSE
