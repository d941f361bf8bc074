SPECIFICATION Spec
CONSTANTS
    a = a  b = b  n = n  c1 = c1  c2 = c2
    Jobs = {a, b, n}
    NewJobs = {}
    Cmds = {c1}
    First = First
    NoDoc = NoDoc
PROPERTIES OnDisplayedOnly HandoffsEnd
