SPECIFICATION Spec
CONSTANTS
    p1 = p1  p2 = p2  i1 = i1  i2 = i2
    Public = {p1, p2}
    Internal = {i1, i2}
    Plain = {p2, i2}
    Limit <- MCLimit
    MaxQueued <- MCMaxQueued
INVARIANTS PermitsConserved PublicShare
PROPERTY RequestsEnd
