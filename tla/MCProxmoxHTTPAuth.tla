--------------------------- MODULE MCProxmoxHTTPAuth ---------------------------
(***************************************************************************)
(* Instances of ProxmoxHTTPAuth for TLC.                                   *)
(***************************************************************************)
EXTENDS ProxmoxHTTPAuth, TLC

Account(right, second, maker) ==
    [passwordRight |-> right, twoFactor |-> second, madeBy |-> maker]

\* A password that is enough, one with a second factor whose code the
\* authentication holds, and one that is wrong.
AllAccounts ==
    {Account(TRUE, FALSE, "ProxmoxVE"), Account(TRUE, TRUE, "caller"),
     Account(FALSE, FALSE, "ProxmoxVE")}
PasswordOnlyAccount == {Account(TRUE, FALSE, "ProxmoxVE")}
TwoFactorAccount == {Account(TRUE, TRUE, "ProxmoxVE")}

Symmetry == Permutations(Tasks)
===============================================================================
