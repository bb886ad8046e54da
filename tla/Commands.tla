-------------------------------- MODULE Commands --------------------------------
(***************************************************************************)
(* The endpoints that change the cluster: power actions on nodes and       *)
(* guests, hibernate, unlock, snapshot, vzdump, arm and disarm HA          *)
(* (endpoints.py), sent by ProxmoxVE.request() (__init__.py), which may    *)
(* send a command twice: after a 401, and after a lost answer, then to     *)
(* another host. A host forwards a command to the node it names, which     *)
(* answers with the id of the task it queued, or refuses. Which host is    *)
(* asked, and how another is found, is the matter of ProxmoxVE; here the   *)
(* client finds one or does not.                                           *)
(***************************************************************************)
EXTENDS Naturals, FiniteSets

CONSTANTS
    Callers,
    Places,        \* the nodes of the cluster
    Machines,      \* its guests
    MaxCalls,      \* bound on the calls made
    RetriesOn401   \* whether the authentication can log in again

ASSUME CommandsAssumption == MaxCalls \in Nat /\ RetriesOn401 \in BOOLEAN

VARIABLES
    location,  \* per guest: the node it is on
    tasks,     \* the tasks queued so far: [call, copy]
    calls,     \* how many calls have been made
    call       \* per caller: the call it is in, or the last it made

commandVars == <<location, tasks, calls, call>>

NoPlace == "no place"

-------------------------------------------------------------------------------
(* Calls, and what the endpoints make of them.                             *)

\* How vzdump() is called: guests named (or none given), or all of them.
Backups == [all : BOOLEAN, named : BOOLEAN, guests : SUBSET Machines,
            bareNotes : BOOLEAN]   \* a notes template without a storage

\* vzdump() raises before it sends anything. What it sends otherwise, `extra`
\* included, is data of the command.
VzdumpRefuses(b) ==
    \/ ~b.all /\ (~b.named \/ b.guests = {})
    \/ b.bareNotes

\* What a command names: a guest on a node, which may not be there, or a node
\* or the cluster, which is. Which node that is decides nothing.
Commands == [at : Places, guest : Machines] \cup {[at |-> NoPlace]}

Idle == "idle"
Stages == {Idle, "first", "relogin", "failover", "second"}
Answers == {"none", "task id", "error", "401"}
Verdicts == {"none", "task id", "error", "lost", "unreadable", "ProxmoxError", "TypeError"}

\* `got` is the answer on its way; `lost` (history) counts the answers that were
\* lost.
Records == [pc : Stages, id : Nat, command : Commands, got : Answers, lost : Nat,
            verdict : Verdicts]

NewCall(id, command) ==
    [pc |-> "first", id |-> id, command |-> command, got |-> "none", lost |-> 0,
     verdict |-> "none"]

Go(t, c) == call' = [call EXCEPT ![t] = c]
End(c, verdict) ==
    [c EXCEPT !.pc = Idle, !.command = [at |-> NoPlace], !.got = "none", !.verdict = verdict]

Send(t, command) ==
    /\ call[t].pc = Idle /\ calls < MaxCalls
    /\ calls' = calls + 1
    /\ Go(t, NewCall(calls + 1, command))
    /\ UNCHANGED <<location, tasks>>

RaiseAtOnce(t, error) ==
    /\ call[t].pc = Idle /\ calls < MaxCalls
    /\ calls' = calls + 1
    /\ Go(t, End(NewCall(calls + 1, [at |-> NoPlace]), error))
    /\ UNCHANGED <<location, tasks>>

\* start, stop, suspend and the others, hibernate() and unlock(), of a VM or a
\* container.
GuestAction(t) ==
    \E n \in Places, g \in Machines : Send(t, [at |-> n, guest |-> g])

NodeAction(t) == Send(t, [at |-> NoPlace])

\* arm_ha(), and disarm_ha() with a mode it knows or with another.
HAAction(t) == Send(t, [at |-> NoPlace]) \/ RaiseAtOnce(t, "ProxmoxError")

\* snapshot() hands request() an argument it does not have.
Snapshot(t) == RaiseAtOnce(t, "TypeError")

Vzdump(t) ==
    \E b \in Backups :
        /\ b.named \/ b.guests = {}
        /\ IF VzdumpRefuses(b) THEN RaiseAtOnce(t, "ProxmoxError")
           ELSE Send(t, [at |-> NoPlace])

-------------------------------------------------------------------------------
(* The pipeline.                                                           *)

Attempting(c) == c.pc \in {"first", "second"}

Received(t) ==
    /\ Attempting(call[t]) /\ call[t].got \in {"task id", "error"}
    /\ Go(t, End(call[t], call[t].got))
    /\ UNCHANGED <<location, tasks, calls>>

Received401(t) ==
    /\ Attempting(call[t]) /\ call[t].got = "401"
    /\ Go(t, IF call[t].pc = "first" /\ RetriesOn401
             THEN [call[t] EXCEPT !.pc = "relogin", !.got = "none"]
             ELSE End(call[t], "error"))
    /\ UNCHANGED <<location, tasks, calls>>

\* An answer whose body is not JSON: aiohttp.ContentTypeError, which is an
\* aiohttp.ClientError, but not one of the connection.
UnreadableRefused(t) ==   \* mutant of Unreadable: told apart from nothing
    /\ Attempting(call[t]) /\ call[t].got = "task id"
    /\ Go(t, End(call[t], "error"))
    /\ UNCHANGED <<location, tasks, calls>>

Unreadable(t) ==
    /\ Attempting(call[t]) /\ call[t].got = "task id"
    /\ Go(t, End(call[t], "unreadable"))
    /\ UNCHANGED <<location, tasks, calls>>

LostAgainRepeated(t) ==   \* mutant of Lost: as often as it takes
    /\ Attempting(call[t])
    /\ Go(t, [call[t] EXCEPT !.pc = "failover", !.got = "none", !.lost = @ + 1])
    /\ UNCHANGED <<location, tasks, calls>>

\* The connection fails, or the time is over, before or after the command was
\* carried out. Only the first attempt is followed by a failover.
Lost(t) ==
    /\ Attempting(call[t])
    /\ Go(t, IF call[t].pc = "first"
             THEN [call[t] EXCEPT !.pc = "failover", !.got = "none", !.lost = @ + 1]
             ELSE End([call[t] EXCEPT !.lost = @ + 1], "lost"))
    /\ UNCHANGED <<location, tasks, calls>>

LoggedIn(t) ==
    /\ call[t].pc = "relogin"
    /\ \/ Go(t, [call[t] EXCEPT !.pc = "second"])
       \/ Go(t, End(call[t], "error"))
       \/ Go(t, End(call[t], "lost"))
    /\ UNCHANGED <<location, tasks, calls>>

FailedOver(t) ==
    /\ call[t].pc = "failover"
    /\ \/ Go(t, [call[t] EXCEPT !.pc = "second"])
       \/ Go(t, End(call[t], "lost"))
    /\ UNCHANGED <<location, tasks, calls>>

-------------------------------------------------------------------------------
(* The cluster.                                                            *)

Awaiting(t) == Attempting(call[t]) /\ call[t].got = "none"

\* A command for a guest is queued on the node the guest is on, and refused
\* by any other.
MayQueue(c) == "guest" \in DOMAIN c => location[c.guest] = c.at

CopiesOf(ts, id) == {k \in ts : k.call = id}

Queue(t) ==
    /\ Awaiting(t) /\ MayQueue(call[t].command)
    /\ tasks' = tasks \cup {[call |-> call[t].id, copy |-> Cardinality(CopiesOf(tasks, call[t].id))]}
    /\ Go(t, [call[t] EXCEPT !.got = "task id"])
    /\ UNCHANGED <<location, calls>>

Refuse(t) ==
    /\ Awaiting(t)
    /\ Go(t, [call[t] EXCEPT !.got = "error"])
    /\ UNCHANGED <<location, tasks, calls>>

RefuseTicket(t) ==
    /\ Awaiting(t)
    /\ Go(t, [call[t] EXCEPT !.got = "401"])
    /\ UNCHANGED <<location, tasks, calls>>

Relocate ==
    /\ \E g \in Machines, n \in Places :
          location[g] # n /\ location' = [location EXCEPT ![g] = n]
    /\ UNCHANGED <<tasks, calls, call>>

CommandsInit ==
    /\ location \in [Machines -> Places]
    /\ tasks = {} /\ calls = 0
    /\ call = [t \in Callers |-> End(NewCall(0, [at |-> NoPlace]), "none")]

CommandsNext ==
    \/ \E t \in Callers :
          \/ GuestAction(t) \/ NodeAction(t) \/ HAAction(t) \/ Snapshot(t) \/ Vzdump(t)
          \/ Received(t) \/ Received401(t) \/ Unreadable(t) \/ Lost(t)
          \/ LoggedIn(t) \/ FailedOver(t)
          \/ Queue(t) \/ Refuse(t) \/ RefuseTicket(t)
    \/ Relocate

CommandsSpec == CommandsInit /\ [][CommandsNext]_commandVars

-------------------------------------------------------------------------------
(* Properties.                                                             *)

CommandsTypeOK ==
    /\ location \in [Machines -> Places] /\ calls \in 0..MaxCalls
    /\ \A k \in tasks : k.call \in 1..calls
    /\ \A t \in Callers : call[t] \in Records /\ call[t].id <= calls
    /\ DOMAIN call = Callers

\* "repeat once" (request): a command runs twice only where its first answer
\* was lost, and never three times, whoever refuses what in between.
TwiceOnlyAfterALoss ==
    \A t \in Callers :
        LET copies == Cardinality(CopiesOf(tasks, call[t].id)) IN
        copies <= 2 /\ copies <= 1 + call[t].lost

\* What the caller is told: a task id only for a command that was queued; an
\* error, where nothing was lost, only for one that was not.
VerdictIsHonest ==
    \A t \in Callers :
        LET ran == CopiesOf(tasks, call[t].id) # {} IN
        /\ call[t].verdict = "task id" => ran
        /\ call[t].verdict \in {"error", "ProxmoxError", "TypeError"} /\ call[t].lost = 0 => ~ran

-------------------------------------------------------------------------------
(* A stronger property, which this code does not satisfy.                  *)

\* An error means that nothing was done: it does not after a lost answer, when
\* the repeat is refused - a guest that has been migrated, a ticket - although
\* the first copy runs.
AnErrorMeansNothingRan ==
    \A t \in Callers : call[t].verdict = "error" => CopiesOf(tasks, call[t].id) = {}
===============================================================================
