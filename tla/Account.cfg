SPECIFICATION Spec
CONSTANTS
  Tokens = {t1, t2, t3}
  Codes = {k1, k2}
  Calls = {c1, c2}
  MaxPasswords = 2
  MaxLinks = 1
  None = None
INVARIANTS TypeOK RotatedOnce
PROPERTIES DeadPasswordStaysDead SpentCodeStaysSpent DisabledStaysShutOut
SYMMETRY AccountSymmetry
