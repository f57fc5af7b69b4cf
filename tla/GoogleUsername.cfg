SPECIFICATION Spec
CONSTANTS
  s1 = s1
  s2 = s2
  e1 = e1
  e2 = e2
  n1 = n1
  n2 = n2
  b1 = b1
  b2 = b2
  Nobody = Nobody
  Sub = {s1, s2}
  Email = {e1, e2}
  Name = {n1, n2}
  Browser = {b1, b2}
  MaxVisits = 3
  EmailsOf <- EmailsOfSub
  TrialsOf <- TrialsOfEmail
INVARIANTS
  TriesOtherNames
CHECK_DEADLOCK FALSE
