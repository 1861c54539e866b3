SPECIFICATION Spec
CONSTANTS
  Users = {u1, u2}
  Leavers = {u1}
  Previews = {c1}
  Mails <- AllMails
  Senders = {w1}
  Nobody = Nobody
  MaxFailures = 1
  MaxCopies = 1
  MaxMishaps = 0
PROPERTIES
  NobodyAgainstTheirWill
CHECK_DEADLOCK FALSE
