\* Two workers, one address, two tokens, one code, two new passwords, a limit of one
\* account, one fault.
CONSTANTS
  None = None
  Worker = {w1, w2}
  Email = {ann}
  Token = {t1, t2}
  Code = {c1}
  MaxAccounts = 1
  Minutes <- MCMinutes
  MaxResets = 2
  MaxFaults = 1
SPECIFICATION Spec
SYMMETRY Symmetry
INVARIANTS
  TypeOK
  SignUpsBounded
  OldSessionsEnd
  
PROPERTIES
  CodesExpire
