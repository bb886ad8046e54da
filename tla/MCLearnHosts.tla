---------------------------- MODULE MCLearnHosts ----------------------------
(***************************************************************************)
(* LearnHosts for TLC: every list of up to MaxKnown hosts, every argument  *)
(* of up to MaxEntries entries, with repetitions and unusable entries.     *)
(***************************************************************************)
EXTENDS LearnHosts

CONSTANTS MaxKnown, MaxEntries

AllLists ==
    {s \in UNION {[1..n -> Hosts] : n \in 1..MaxKnown} : IsInjective(s)}

AllInputs == UNION {[1..n -> Entries] : n \in 0..MaxEntries}
===============================================================================
