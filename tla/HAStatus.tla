------------------------------- MODULE HAStatus -------------------------------
(***************************************************************************)
(* The HA stack as HAStatus (model/health.py) reads it, and the two        *)
(* commands that change it, arm_ha() and disarm_ha() (endpoints.py). The   *)
(* cluster resource manager (CRM) works on services and carries out what   *)
(* was queued; the API shows "ignore" for the state of a service while HA  *)
(* is disarmed with it. Its master stamps the time now and then, and may   *)
(* stop; a client fetches the stamp, keeps it, and judges it by a clock of *)
(* its own.                                                                *)
(***************************************************************************)
EXTENDS Integers, FiniteSets

CONSTANTS
    Services,
    Instants,    \* the times, in seconds, at which anything happens
    Skews        \* how far the client's clock may be ahead of the cluster's

ASSUME HAAssumption == Instants \subseteq Nat /\ Skews \subseteq Int

VARIABLES
    crm,      \* per service: its crm_state
    armed,    \* the armed-state the cluster reports
    mode,     \* the resource_mode, "none" while armed
    queued,   \* commands the CRM has not carried out: a mode, or "arm"
    now,
    seen,     \* when a master last stamped the time
    report,   \* what the client fetched last: the stamp, and when (history)
    skew      \* the client's clock less the cluster's

haVars == <<crm, armed, mode, queued>>
masterVars == <<now, seen, report, skew>>

CrmStates == {"started", "stopped", "fence", "recovery", "error"}
HAArmedStates == {"armed", "standby", "disarming", "disarmed"}
Modes == {"freeze", "ignore"}

\* What a caller may ask disarm_ha() for.
Asked == Modes \cup {"other"}

-------------------------------------------------------------------------------
(* What HAStatus.from_api() makes of the answer.                           *)

\* The verbose `state` of an entry, and the field that is read.
Shown(s) == IF mode = "ignore" THEN "ignore" ELSE crm[s]
StateOf(s) == crm[s]

ErrorStates == {"error", "fence", "recovery"}
ResourcesError == {s \in Services : StateOf(s) \in ErrorStates}

Unseen == -1   \* Python's None: no entry of a master, or no time in it
MasterDeadAfter == 30

\* mutant of Judged: by the age of the report, not of the stamp
JudgedByFetch(r, clock) ==
    IF r.last = Unseen THEN "unknown"
    ELSE IF clock - r.taken > MasterDeadAfter THEN "stale" ELSE "alive"

\* crm_master_stale(), asked of a report whenever the client likes.
Judged(r, clock) ==
    IF r.last = Unseen THEN "unknown"
    ELSE IF clock - r.last > MasterDeadAfter THEN "stale" ELSE "alive"

-------------------------------------------------------------------------------
(* Commands. They answer when they are queued, not when they are done.     *)

ArmHA ==
    /\ queued' = queued \cup {"arm"}
    /\ UNCHANGED <<crm, armed, mode>>

DisarmHAUnchecked ==   \* mutant of DisarmHA: whatever is asked for is sent
    /\ \E m \in Asked : queued' = queued \cup {m}
    /\ UNCHANGED <<crm, armed, mode>>

\* A mode that is neither is refused before it reaches the cluster.
DisarmHA ==
    /\ \E m \in Asked : m \in Modes /\ queued' = queued \cup {m}
    /\ UNCHANGED <<crm, armed, mode>>

-------------------------------------------------------------------------------
(* The CRM.                                                                *)

CarryOut ==
    /\ \E q \in queued :
          /\ queued' = queued \ {q}
          /\ armed' = IF q = "arm" THEN "armed"
                      ELSE IF armed \in {"armed", "standby"} THEN "disarming" ELSE armed
          /\ mode' = IF q = "arm" THEN "none" ELSE q
    /\ UNCHANGED <<crm>>

Disarmed ==
    /\ armed = "disarming"
    /\ armed' = "disarmed"
    /\ UNCHANGED <<crm, mode, queued>>

\* A service fails, and is fenced and recovered; or it ends in error, which
\* only a person clears. While HA is disarmed nothing is done about it.
ServiceMoves(s) ==
    /\ armed # "disarmed"
    /\ crm' \in {[crm EXCEPT ![s] = c] :
          c \in CASE crm[s] = "started"  -> {"stopped", "fence", "error"}
                  [] crm[s] = "stopped"  -> {"started"}
                  [] crm[s] = "fence"    -> {"recovery"}
                  [] crm[s] = "recovery" -> {"started", "error"}
                  [] crm[s] = "error"    -> {"stopped"}}
    /\ UNCHANGED <<armed, mode, queued>>

HAInit ==
    /\ crm = [s \in Services |-> "started"]
    /\ armed \in {"armed", "standby"} /\ mode = "none" /\ queued = {}

HANext ==
    \/ ArmHA \/ DisarmHA \/ CarryOut \/ Disarmed
    \/ \E s \in Services : ServiceMoves(s)

-------------------------------------------------------------------------------
(* The master's stamp, and what the client keeps of it.                    *)

\* Nothing is assumed of how often a master stamps.
Stamp ==
    /\ seen' = now
    /\ UNCHANGED <<now, report, skew>>

TimePasses ==
    /\ \E t \in Instants : t > now /\ now' = t
    /\ UNCHANGED <<seen, report, skew>>

\* The client's clock is set, or drifts.
ClockMoves ==
    /\ skew' \in Skews \ {skew}
    /\ UNCHANGED <<now, seen, report>>

FetchHAStatus ==
    /\ \E last \in {seen, Unseen} : report' = [last |-> last, taken |-> now]
    /\ UNCHANGED <<now, seen, skew>>

MasterInit ==
    /\ now \in Instants /\ seen = now /\ skew \in Skews
    /\ report = [last |-> Unseen, taken |-> now]

MasterNext == Stamp \/ TimePasses \/ ClockMoves \/ FetchHAStatus

-------------------------------------------------------------------------------
(* Properties.                                                             *)

HATypeOK ==
    /\ crm \in [Services -> CrmStates]
    /\ armed \in HAArmedStates /\ mode \in Modes \cup {"none"}
    /\ queued \subseteq Modes \cup {"arm"}

MasterTypeOK ==
    /\ now \in Instants /\ seen \in Instants /\ skew \in Skews
    /\ report \in [last : Instants \cup {Unseen}, taken : Instants]

\* "Read from crm_state (the raw CRM state) rather than state, which [...] the
\* API rewrites to ignore while HA is disarmed" (health.py): arming and
\* disarming neither hide an incident nor invent one; a service leaves the
\* list only when it itself has left fence, recovery and error.
DisarmingHidesNothing ==
    [][/\ crm' = crm => ResourcesError' = ResourcesError
       /\ \A s \in ResourcesError \ ResourcesError' : crm'[s] \in {"started", "stopped"}
      ]_haVars

\* "Whether the CRM master has not refreshed its status for 30 s"
\* (crm_master_stale), asked of a report of any age by a clock that may be
\* wrong: a master that has been silent for longer, by that clock, is never
\* called alive, however long ago the report was fetched; and one that has not
\* is called stale only where it has stamped since, so that to fetch again is
\* to know better.
MasterIsNotMisjudged ==
    LET verdict == Judged(report, now + skew)
        silent == now + skew - seen > MasterDeadAfter IN
    /\ verdict = "alive" => ~silent
    /\ verdict = "stale" => silent \/ seen >= report.taken

-------------------------------------------------------------------------------
(* A stronger property, which this code does not satisfy.                  *)

\* Stale means silent: it does not in a report that has been kept while the
\* master went on stamping.
StaleMeansSilent ==
    Judged(report, now + skew) = "stale" => now + skew - seen > MasterDeadAfter
===============================================================================
