\* Three slots whose blocks have two fields of three values: every pattern of
\* agreement between three blocks occurs, in one field, the other, or both.
SPECIFICATION Spec
CONSTANTS
  Fields = {addr, arg0}
  Values = {u, v, w}
INVARIANTS
  VerdictIsMajority
PROPERTIES
  UpsetIsLocated
