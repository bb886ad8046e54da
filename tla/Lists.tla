--------------------------------- MODULE Lists ---------------------------------
(***************************************************************************)
(* Loops and comprehensions that build a list from a list, as functions    *)
(* over the length of what they have read: an operator that takes the test *)
(* as a parameter could be checked, but not reasoned about.                *)
(***************************************************************************)
EXTENDS Naturals, Sequences

\* What each pass of a loop adds, put together.
Flat(lists) ==
    LET upTo[n \in 0..Len(lists)] ==
            IF n = 0 THEN << >> ELSE upTo[n - 1] \o lists[n]
    IN upTo[Len(lists)]

\* The elements of s that are in S, in the order of s.
Only(s, S) == Flat([n \in 1..Len(s) |-> IF s[n] \in S THEN <<s[n]>> ELSE << >>])
===============================================================================
