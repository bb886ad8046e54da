-------------------------------- MODULE BackupLog --------------------------------
(***************************************************************************)
(* The backups of a node, read from its task log: tasks() (endpoints.py)   *)
(* with its filters, LastBackup and RunningBackup (model/summary.py) over  *)
(* the lists it gives, while backups and other tasks begin, wait for the   *)
(* node's one vzdump lock, end, and give up waiting.                       *)
(*                                                                         *)
(* A task is its number in the order in which tasks were started.          *)
(***************************************************************************)
EXTENDS Naturals, Sequences, SequencesExt, Lists

CONSTANT MaxTasks   \* bound on the tasks of the log

ASSUME BackupLogAssumption == MaxTasks \in Nat

VARIABLES
    started,    \* the tasks: what they are, and the guests they are about
    finished,   \* those that have ended, in the order in which they did
    holder      \* the backup that holds the lock, or NoTask

logVars == <<started, finished, holder>>

NoTask == 0
TaskVerdicts == {"OK", "job errors"}
\* The id of a backup names its guests, and is empty where it covers them all.
LoggedTasks == [type : {"vzdump"}, id : {"", "100"}] \cup [type : {"other"}, id : {""}]

EndedTasks == {f.task : f \in Range(finished)}
InProgress == (1..Len(started)) \ EndedTasks
IsBackup(i) == started[i].type = "vzdump"
WaitingTasks == {i \in InProgress : IsBackup(i) /\ i # holder}

-------------------------------------------------------------------------------
(* The lists of a node's tasks, newest first.                              *)

TaskRow(i, status) == [task |-> i, type |-> started[i].type, id |-> started[i].id,
                   status |-> status]

ActiveRows ==
    LET newest == Only(Reverse([i \in 1..Len(started) |-> i]), InProgress) IN
    [k \in 1..Len(newest) |-> TaskRow(newest[k], "none")]
ArchiveRows ==
    LET ended == Reverse(finished) IN
    [k \in 1..Len(ended) |-> TaskRow(ended[k].task, ended[k].verdict)]

OfType(type) == [task : Nat, type : {type}, id : {"", "100"},
                 status : TaskVerdicts \cup {"none"}]

\* tasks(): the archive by default. A filter is applied before the limit.
TaskList(typefilter, limit, source) ==
    LET all == IF source = "active" THEN ActiveRows ELSE ArchiveRows
        rows == IF typefilter = "" THEN all ELSE Only(all, OfType(typefilter))
    IN IF Len(rows) <= limit THEN rows ELSE SubSeq(rows, 1, limit)

-------------------------------------------------------------------------------
(* What is made of them. A run over everything has no guests to name.      *)

NoBackupRun == [task |-> NoTask]

RunsOldest(list) == Reverse(Only(list, OfType("vzdump")))   \* mutant of Runs
Runs(list) == Only(list, OfType("vzdump"))

GuestsOf(row) == IF row.id = "" THEN "none" ELSE row.id

\* LastBackup.from_tasks(), with `ok`.
LastBackup(list) ==
    IF Runs(list) = << >> THEN NoBackupRun
    ELSE LET row == Head(Runs(list)) IN
         [task |-> row.task, guests |-> GuestsOf(row),
          ok |-> IF row.status = "none" THEN "none"
                 ELSE IF row.status = "OK" THEN "yes" ELSE "no"]

\* RunningBackup.from_tasks().
RunningBackup(list) ==
    IF Runs(list) = << >> THEN NoBackupRun
    ELSE LET row == Head(Runs(list)) IN [task |-> row.task, guests |-> GuestsOf(row)]

-------------------------------------------------------------------------------
(* The node.                                                               *)

BeginTask ==
    /\ Len(started) < MaxTasks
    /\ \E t \in LoggedTasks :
          /\ started' = Append(started, t)
          /\ holder' = IF t.type = "vzdump" /\ holder = NoTask THEN Len(started') ELSE holder
    /\ UNCHANGED finished

Ends(i) == \E v \in TaskVerdicts : finished' = Append(finished, [task |-> i, verdict |-> v])

\* Any of the backups that wait is next.
EndBackup ==
    /\ holder # NoTask
    /\ Ends(holder)
    /\ holder' \in IF WaitingTasks = {} THEN {NoTask} ELSE WaitingTasks
    /\ UNCHANGED started

EndOther ==
    /\ \E i \in InProgress : ~IsBackup(i) /\ Ends(i)
    /\ UNCHANGED <<started, holder>>

GiveUpWaiting ==
    /\ \E i \in WaitingTasks : finished' = Append(finished, [task |-> i, verdict |-> "job errors"])
    /\ UNCHANGED <<started, holder>>

BackupInit == started = << >> /\ finished = << >> /\ holder = NoTask

BackupNext == BeginTask \/ EndBackup \/ EndOther \/ GiveUpWaiting

-------------------------------------------------------------------------------
(* Properties.                                                             *)

BackupTypeOK ==
    /\ started \in Seq(LoggedTasks) /\ Len(started) <= MaxTasks
    /\ finished \in Seq([task : 1..Len(started), verdict : TaskVerdicts])
    /\ holder \in InProgress \cup {NoTask}

\* "A run still in progress is not in that list [...] reporting it would make
\* every backup look like a failure while it runs" (LastBackup): the backup
\* shown as last, and its verdict, change only when a backup ends, and then to
\* that one - with a filter or without, however backups queue for the lock,
\* overtake each other or give up; and one is shown as running exactly while
\* one holds the lock.
LastShown == LastBackup(TaskList("", MaxTasks, "archive"))
LastShownByFilter == LastBackup(TaskList("vzdump", 1, "archive"))
BackupShownIsTheLastOne ==
    [][LET f == Last(finished')
           ended == finished' # finished /\ started'[f.task].type = "vzdump" IN
       logVars' # logVars =>
       /\ IF ended THEN /\ LastShown'.task = f.task
                        /\ LastShown'.ok = IF f.verdict = "OK" THEN "yes" ELSE "no"
                   ELSE LastShown' = LastShown
       /\ LastShownByFilter' = LastShown'
       /\ (RunningBackup(TaskList("", MaxTasks, "active"))' = NoBackupRun) <=> holder' = NoTask
      ]_logVars

-------------------------------------------------------------------------------
(* Stronger properties, which this code does not satisfy.                  *)

\* "The vzdump run in progress on a node" (RunningBackup): it is the newest
\* one, which may be waiting for the lock while another one runs.
RunningBackupRuns ==
    holder # NoTask => RunningBackup(TaskList("", MaxTasks, "active")).task = holder

\* A list cut short before it is filtered still has the last backup in it.
LimitHidesNoBackup == LastBackup(TaskList("", 1, "archive")) = LastShown
===============================================================================
