SPECIFICATION FairSpec
CONSTANTS
  Tasks = {t1, t2}
  Accounts <- AllAccounts
INVARIANTS TypeOK NeverSendsExpired PasswordIsEnough RepeatIsRefusedOnlyIfDropped
PROPERTIES GetsInAgain
