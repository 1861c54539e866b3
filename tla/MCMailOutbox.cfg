SPECIFICATION FairOutboxSpec
CONSTANTS
  Mails = {m1}
  Senders = {w1, w2}
  Nobody = Nobody
  MaxFailures = 3
  MaxCopies = 6
  MaxMishaps = 3
INVARIANTS
  OnlyLossesSendAgain
PROPERTIES
  MailSettles
CHECK_DEADLOCK FALSE
