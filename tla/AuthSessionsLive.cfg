CONSTANTS
  t1 = t1  t2 = t2  t3 = t3  t4 = t4
  s1 = s1  s2 = s2
  phone = phone  laptop = laptop  none = none
  r1 = r1  r2 = r2  r3 = r3
  Token = {t1, t2, t3, t4}
  Session = {s1}
  Agent = {phone, none}
  Req = {r1, r2}
  Stored <- FitsColumn
  NoAgent = none
  Sent = {phone}
  NoToken = NoToken  NoSession = NoSession  Nobody = Nobody
SPECIFICATION FairSpec
PROPERTIES
  EveryRequestAnswered
  ImplementsFamily
