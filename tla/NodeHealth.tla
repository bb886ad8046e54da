------------------------------- MODULE NodeHealth -------------------------------
(***************************************************************************)
(* Two figures a dashboard watches on a node: the SMART summary of a disk  *)
(* (model/disks.py), read from numbered attributes or from the lines of a  *)
(* text log, and the replication lag (ReplicationHealth, model/health.py), *)
(* while jobs run, fail and are switched off.                              *)
(***************************************************************************)
EXTENDS Integers, Sequences, SequencesExt, FiniteSetsExt, Lists

CONSTANTS
    Readings,     \* numbers a drive reports
    MaxLines,     \* bound on the attributes and lines of a report
    Jobs,
    LastMinute    \* bound on the time

ASSUME NodeHealthAssumption ==
    Readings \subseteq Nat /\ MaxLines \in Nat /\ LastMinute \in Nat \ {0}

VARIABLES
    smart,    \* [attributes, text], as disks/smart answers
    jobs,     \* per replication job: what nodes/{node}/replication says of it
    minute

replicationVars == <<jobs, minute>>

NoNumber == -1   \* Python's None, or a value that does not start with a number

-------------------------------------------------------------------------------
(* SMART.                                                                  *)

PowerHours == 9
PowerCycles == 12
PowerLoss == 174
TemperatureAir == 190
Temperature == 194
LifeLeft == 231

Wanted == {PowerHours, PowerCycles, PowerLoss, TemperatureAir, Temperature, LifeLeft}
Ids == Wanted \cup {5}   \* and one that is not read: reallocated sectors

\* Life left is read from the normalised value, the others from the raw one.
Source(a) == IF a.id = LifeLeft THEN a.value ELSE a.raw

Attributes == [id : Ids, raw : Readings \cup {NoNumber}, value : Readings \cup {NoNumber}]

\* The labels of the text log: those that are known, of NVMe and of SAS drives,
\* and two that only begin or end like them.
KnownLabels ==
    {"Temperature", "Power Cycles", "Power On Hours",
     "Current Drive Temperature", "Accumulated start-stop cycles",
     "Accumulated power on time, hours:minutes"}
OtherLabels == {"Temperature Sensor 1", "Warning Comp. Temperature Time"}

IdOf(label) ==
    CASE label \in {"Temperature", "Current Drive Temperature"} -> Temperature
      [] label \in {"Power Cycles", "Accumulated start-stop cycles"} -> PowerCycles
      [] OTHER -> PowerHours

Lines == [label : KnownLabels \cup OtherLabels, figure : Readings \cup {NoNumber}]
KnownLines == [label : KnownLabels, figure : Readings \cup {NoNumber}]

\* The attribute that smart_text_attributes() makes of a line it knows.
Reads(line) == [id |-> IdOf(line.label), raw |-> line.figure, value |-> NoNumber]

FromText(lines) ==
    LET known == Only(lines, KnownLines) IN [k \in 1..Len(known) |-> Reads(known[k])]

\* SmartSummary.from_attributes(): of each, the last that has a number.
Numbered(id) == {a \in Attributes : a.id = id /\ Source(a) # NoNumber}
Reading(found) == IF found = << >> THEN NoNumber ELSE Source(Last(found))
Summary(attributes) == [id \in Wanted |-> Reading(Only(attributes, Numbered(id)))]

\* DiskSmart.summary: the text only where there are no attributes.
SummaryOf(sm) ==
    Summary(IF sm.attributes # << >> THEN sm.attributes ELSE FromText(sm.text))

ReportAttribute ==
    /\ Len(smart.attributes) + Len(smart.text) < MaxLines
    /\ \E a \in Attributes : smart' = [smart EXCEPT !.attributes = Append(@, a)]

ReportLine ==
    /\ Len(smart.attributes) + Len(smart.text) < MaxLines
    /\ \E l \in Lines : smart' = [smart EXCEPT !.text = Append(@, l)]

SmartInit == smart = [attributes |-> << >>, text |-> << >>]
SmartNext == ReportAttribute \/ ReportLine

-------------------------------------------------------------------------------
(* Replication.                                                            *)

Job == [disabled : BOOLEAN, failed : BOOLEAN, lastSync : -1..LastMinute]

Active(js) == {j \in Jobs : ~js[j].disabled}
Syncs(js) == {js[j].lastSync : j \in Active(js)} \ {NoNumber}

NewestSync(js) == IF Syncs(js) = {} THEN NoNumber ELSE Max(Syncs(js))   \* mutant of OldestSync
OldestSync(js) == IF Syncs(js) = {} THEN NoNumber ELSE Min(Syncs(js))

FailingJobs(js) == {j \in Active(js) : js[j].failed}

JobSyncs(j) ==
    /\ ~jobs[j].disabled
    /\ jobs' = [jobs EXCEPT ![j].lastSync = minute, ![j].failed = FALSE]
    /\ UNCHANGED minute

JobFails(j) ==
    /\ ~jobs[j].disabled
    /\ jobs' = [jobs EXCEPT ![j].failed = TRUE]
    /\ UNCHANGED minute

JobSwitched(j) ==
    /\ jobs' = [jobs EXCEPT ![j].disabled = ~@]
    /\ UNCHANGED minute

Minute ==
    /\ minute < LastMinute
    /\ minute' = minute + 1
    /\ UNCHANGED jobs

\* A job that has never run reports no time of a sync, or 0, which is read as
\* one at the beginning of time.
ReplicationInit ==
    /\ jobs \in [Jobs -> [disabled : {FALSE}, failed : {FALSE}, lastSync : {NoNumber, 0}]]
    /\ minute = 1

ReplicationNext == Minute \/ \E j \in Jobs : JobSyncs(j) \/ JobFails(j) \/ JobSwitched(j)

-------------------------------------------------------------------------------
(* Properties.                                                             *)

NodeTypeOK ==
    /\ \A a \in Range(smart.attributes) : a \in Attributes
    /\ \A l \in Range(smart.text) : l \in Lines
    /\ jobs \in [Jobs -> Job] /\ minute \in 0..LastMinute

\* "a temperature reported as `-` is no reading", "so `Temperature Sensor 1`
\* does not pass for `Temperature`" (disks.py): what a drive adds to its report
\* changes the summary only if it is a number, under a name that is read, in
\* the half of the report that is read.
DriveNoiseChangesNothing ==
    [][LET a == Last(smart'.attributes)
           l == Last(smart'.text)
           lineAdded == smart'.attributes = smart.attributes
           noise == smart' # smart /\
                    IF lineAdded
                    THEN \/ smart.attributes # << >>
                         \/ l.figure = NoNumber \/ l.label \in OtherLabels
                    ELSE smart.attributes # << >> /\ (a.id \notin Wanted \/ Source(a) = NoNumber)
       IN noise => SummaryOf(smart') = SummaryOf(smart)
      ]_smart

\* "it says how far behind the furthest-behind target is, where the newest
\* would hide a job that stopped replicating" (ReplicationHealth): the figure
\* never runs ahead of a job that is switched on, it goes back only when a job
\* is switched on again, and a failing job stays listed until it succeeds or is
\* switched off.
LagIsNotHidden ==
    [][/\ \A j \in Jobs : ~jobs'[j].disabled /\ jobs'[j].lastSync # NoNumber =>
             OldestSync(jobs') \in 0..jobs'[j].lastSync
       /\ OldestSync(jobs') < OldestSync(jobs) =>
             \/ \E j \in Jobs : jobs[j].disabled /\ ~jobs'[j].disabled
             \/ OldestSync(jobs') = NoNumber
       /\ \A j \in FailingJobs(jobs) \ FailingJobs(jobs') :
             jobs'[j].disabled \/ jobs'[j].lastSync = minute
      ]_replicationVars
===============================================================================
