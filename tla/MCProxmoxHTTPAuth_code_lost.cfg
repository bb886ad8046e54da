SPECIFICATION Spec
CONSTANTS
  Tasks = {t1, t2}
  Accounts <- TwoFactorAccount
SYMMETRY Symmetry
INVARIANTS ChallengeIsAnswered
