SPECIFICATION Spec
CONSTANTS
  Tasks = {t1, t2}
  Accounts <- PasswordOnlyAccount
SYMMETRY Symmetry
PROPERTIES A401LogsInAgain
