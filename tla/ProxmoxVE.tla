------------------------------ MODULE ProxmoxVE ------------------------------
(***************************************************************************)
(* The request pipeline of class ProxmoxVE (src/aioproxmox/__init__.py):   *)
(* tasks of one event loop that share a client. Each sends requests,       *)
(* renews the ticket that has aged, logs in again after a 401 and, where   *)
(* the host in use stopped answering, moves the client to another node.    *)
(*                                                                         *)
(* A task runs without interruption from one await to the next, so a step  *)
(* of this specification is the code between two suspensions: the answer   *)
(* (or the silence) a task waited for and everything it does up to its     *)
(* next call or until its request is over.                                 *)
(*                                                                         *)
(* What a host answers is left open: any host that is up may grant or      *)
(* refuse a ticket and answer or refuse a request. A request may fail on   *)
(* the connection although the host is up, because the host forwards what  *)
(* names another node; ticket calls and `version` it answers itself.       *)
(***************************************************************************)
EXTENDS HostList

CONSTANTS
    Tasks,         \* concurrent requests through one client
    Configured,    \* the host the client was created with
    Password,      \* TRUE: ticket authentication; FALSE: an API token
    CancelAt,      \* the awaits at which a caller may cancel its task
    AddWhile,      \* when learn_hosts(...) may be called, and
    ReplaceWhile,  \* when learn_hosts(..., replace=True) may be called:
                   \* "settled" or "switching" (while a failover is under way)
    Learnable      \* the lists of entries a caller may hand to learn_hosts

Moments == {"settled", "switching"}

ASSUME ClientAssumption ==
    /\ Configured \in Hosts
    /\ Password \in BOOLEAN
    /\ AddWhile \subseteq Moments
    /\ ReplaceWhile \subseteq Moments
    /\ Learnable \subseteq Seq(Entries)

VARIABLES
    hosts,     \* _hosts
    index,     \* _host_index, from 0 as in the code
    baseUrl,   \* the host named in base_url (and in auth.base_url)
    old,       \* the ticket is renew_age old: check_and_refresh renews it
    lockQ,     \* _switch_lock: its holder, then the tasks waiting for it
    walk,      \* the local variables of the failover that holds the lock
    frame,     \* per task: where its request stands
    up,        \* the hosts that answer
    vouched    \* history: the host that last answered as a candidate

vars == <<hosts, index, baseUrl, old, lockQ, walk, frame, up, vouched>>

-------------------------------------------------------------------------------
(* Frames. `pc` says what the task waits for, `to` is the host that call   *)
(* was sent to (the failed one while it waits for the lock), `why` is the  *)
(* reason of its last failover, and `silent` (history) the hosts whose     *)
(* silence this failover has observed itself.                              *)

TicketCalls == {"signin", "renew", "login", "relogin"}
Requests == {"request", "again"}
Probes == {"verify", "walk"}
PCs == {"idle", "lock"} \cup TicketCalls \cup Requests \cup Probes

ASSUME CancelAssumption == CancelAt \subseteq PCs \ {"idle"}

Records == [pc : PCs, to : Entries, why : {"none", "renewal", "request"},
            silent : SUBSET Hosts]

Frames == {c \in Records : c.pc # "idle" => c.to \in Hosts}

Idle == [pc |-> "idle", to |-> NoHost, why |-> "none", silent |-> {}]

\* The locals of a failover: the index it started from, the offset of the
\* candidate it is asking (0 while it asks the current host) and the list
\* the length of which bounds its loop.
NoWalk == [start |-> 0, offset |-> 0, list |-> << >>]
Walks == [start : Nat, offset : Nat, list : Seq(Hosts)]

At(i) == hosts[i + 1]
InRange(i) == i < Len(hosts)

Resume(t, c) == frame' = [frame EXCEPT ![t] = c]

\* A call goes to the host base_url names when it is made.
Await(c, p) == [c EXCEPT !.pc = p, !.to = baseUrl, !.silent = {}]

Noted(c) == [c EXCEPT !.silent = @ \cup {c.to}]

\* request() past the ticket: `host_before = self.host` raises IndexError
\* where the index is out of range.
Send(c) == IF InRange(index) THEN Await(c, "request") ELSE Idle

\* check_and_refresh() first, where the ticket has aged.
Refresh(c) == IF old THEN Await(c, "renew") ELSE Send(c)

-------------------------------------------------------------------------------
(* failover(): the lock, the question to the current host, the walk.       *)

\* _use_host(i): the index is stored before the lookup that may raise.
UseHost(i) ==
    /\ index' = i
    /\ baseUrl' = IF InRange(i) THEN At(i) ELSE baseUrl

ReleaseForgotten(t) == UNCHANGED lockQ   \* mutant of Release
Release(t) == lockQ' = Tail(lockQ)

\* The head of the walk's loop: ask the candidate at offset k, or give up,
\* go back to the start and let the original error reach the caller.
CandidateFromStart(start, k) == (start + k - 1) % Len(hosts)   \* mutants of
CandidateAgain(start, k) == (start + 1) % Len(hosts)           \* Candidate
Candidate(start, k) == (start + k) % Len(hosts)

Ask(t, c, start, k, list) ==
    LET candidate == Candidate(start, k) IN
    /\ k < Len(list)
    /\ UseHost(candidate)
    /\ Resume(t, [c EXCEPT !.pc = "walk", !.to = At(candidate)])
    /\ walk' = [start |-> start, offset |-> k, list |-> list]

\* mutant of GiveUp: the last candidate stays in use
GiveUpThere(t, start, k, list) ==
    /\ k >= Len(list)
    /\ Resume(t, Idle)
    /\ walk' = NoWalk
    /\ UNCHANGED <<index, baseUrl>>

GiveUp(t, start, k, list) ==
    /\ k >= Len(list)
    /\ UseHost(start)
    /\ Resume(t, Idle)
    /\ walk' = NoWalk

\* The caller names the host its request failed on, and wants it asked first.
NamesHost(c) == c.why = "request"
Unasked(c) == FALSE   \* mutant of Verifies
Verifies(c) == c.why = "request"

\* Whether another request has moved the client since this one failed.
MovedUnchecked(c) == NamesHost(c) /\ InRange(index)   \* mutant of Moved
Moved(c) == NamesHost(c) /\ InRange(index) /\ c.to # At(index)

\* history: a ticket call that failed is proof, a request that failed is not.
Evidence(c) == IF c.why = "renewal" THEN Noted(c) ELSE c

\* What a task does once the lock is its own: `held` is the queue while it
\* keeps the lock, `released` the queue once it has let go of it.
Inside(t, c, held, released) ==
    \/ \* from_host is compared with self.host, which raises IndexError
       /\ NamesHost(c) /\ ~InRange(index)
       /\ Resume(t, Idle)
       /\ lockQ' = released
       /\ UNCHANGED <<index, baseUrl, walk>>
    \/ /\ Moved(c)
       /\ Resume(t, Await(c, "again"))
       /\ lockQ' = released
       /\ UNCHANGED <<index, baseUrl, walk>>
    \/ /\ NamesHost(c) => InRange(index) /\ ~Moved(c)
       /\ \/ /\ Verifies(c)
             /\ Resume(t, Await(c, "verify"))
             /\ lockQ' = held
             /\ walk' = [start |-> index, offset |-> 0, list |-> hosts]
             /\ UNCHANGED <<index, baseUrl>>
          \/ /\ ~Verifies(c)
             /\ \/ Ask(t, Evidence(c), index, 1, hosts) /\ lockQ' = held
                \/ GiveUp(t, index, 1, hosts) /\ lockQ' = released

\* `async with self._switch_lock`: a free lock is taken without suspending.
Enter(t, c) ==
    \/ lockQ = << >> /\ Inside(t, c, <<t>>, << >>)
    \/ /\ lockQ # << >>
       /\ lockQ' = Append(lockQ, t)
       /\ Resume(t, [c EXCEPT !.pc = "lock"])
       /\ UNCHANGED <<index, baseUrl, walk>>

\* A walk goes on with the next candidate, or ends without one.
NextCandidate(t, c, start, k, list) ==
    \/ Ask(t, c, start, k, list) /\ UNCHANGED lockQ
    \/ GiveUp(t, start, k, list) /\ Release(t)

\* More than one host is known: otherwise there is nowhere to go.
HasElsewhere == Len(hosts) >= 2

\* The first check_and_refresh() of a request may end in a failover.
MayFailOverRenewal(c) ==
    c.pc \in {"renew", "login"} /\ c.why = "none" /\ HasElsewhere

\* The queue once the task at position i is gone from it.
WithoutNone(q, i) == q   \* mutant of Without
Without(q, i) == SubSeq(q, 1, i - 1) \o SubSeq(q, i + 1, Len(q))

-------------------------------------------------------------------------------
(* The steps of a task.                                                    *)

\* connect(): the first login, when the client has a password.
Connect(t) ==
    /\ frame[t].pc = "idle"
    /\ Resume(t, IF Password THEN Await(Idle, "signin") ELSE Refresh(Idle))
    /\ UNCHANGED <<hosts, index, baseUrl, old, lockQ, walk, up, vouched>>

\* request() up to its first call.
StartRequest(t) ==
    /\ frame[t].pc = "idle"
    /\ Resume(t, Refresh(Idle))
    /\ UNCHANGED <<hosts, index, baseUrl, old, lockQ, walk, up, vouched>>

\* access/ticket answered with a ticket: it is fresh from now on.
TicketGranted(t) ==
    /\ frame[t].pc \in TicketCalls
    /\ frame[t].to \in up
    /\ old' = FALSE
    /\ Resume(t, IF frame[t].pc = "relogin" THEN Await(frame[t], "again")
                                            ELSE Send(frame[t]))
    /\ UNCHANGED <<hosts, index, baseUrl, lockQ, walk, up, vouched>>

\* access/ticket refused: a renewal is followed by a login with the
\* password, a login that is refused ends the request.
TicketRefused(t) ==
    /\ frame[t].pc \in TicketCalls
    /\ frame[t].to \in up
    /\ Resume(t, IF frame[t].pc = "renew" THEN Await(frame[t], "login") ELSE Idle)
    /\ UNCHANGED <<hosts, index, baseUrl, old, lockQ, walk, up, vouched>>

\* No answer to a ticket call. In the first check_and_refresh() of a request
\* that starts a failover which asks the host no more; in the second one,
\* in relogin() and in connect() the error reaches the caller.
TicketLost(t) ==
    /\ frame[t].pc \in TicketCalls
    /\ frame[t].to \notin up
    /\ \/ /\ MayFailOverRenewal(frame[t])
          /\ Enter(t, [frame[t] EXCEPT !.why = "renewal"])
       \/ /\ ~MayFailOverRenewal(frame[t])
          /\ Resume(t, Idle)
          /\ UNCHANGED <<index, baseUrl, lockQ, walk>>
    /\ UNCHANGED <<hosts, old, up, vouched>>

\* The request is answered, with data or an error request() passes on.
Answered(t) ==
    /\ frame[t].pc \in Requests
    /\ frame[t].to \in up
    /\ Resume(t, Idle)
    /\ UNCHANGED <<hosts, index, baseUrl, old, lockQ, walk, up, vouched>>

\* The first attempt is refused with 401: log in again, to repeat it.
Refused401(t) ==
    /\ frame[t].pc = "request" /\ Password
    /\ frame[t].to \in up
    /\ Resume(t, Await(frame[t], "relogin"))
    /\ UNCHANGED <<hosts, index, baseUrl, old, lockQ, walk, up, vouched>>

\* The connection of a request fails, on the host or behind it.
RequestLost(t) ==
    /\ frame[t].pc \in Requests
    /\ \/ /\ frame[t].pc = "request" /\ HasElsewhere
          /\ Enter(t, [frame[t] EXCEPT !.why = "request"])
       \/ /\ frame[t].pc = "again" \/ ~HasElsewhere
          /\ Resume(t, Idle)
          /\ UNCHANGED <<index, baseUrl, lockQ, walk>>
    /\ UNCHANGED <<hosts, old, up, vouched>>

\* The lock was released and this task waited for it longest.
Woken(t) ==
    /\ frame[t].pc = "lock"
    /\ Head(lockQ) = t
    /\ Inside(t, frame[t], lockQ, Tail(lockQ))
    /\ UNCHANGED <<hosts, old, up, vouched>>

\* The host in use answers `version`: stay, the original error is raised.
VerifyAnswered(t) ==
    /\ frame[t].pc = "verify"
    /\ frame[t].to \in up
    /\ Resume(t, Idle)
    /\ Release(t)
    /\ walk' = NoWalk
    /\ UNCHANGED <<hosts, index, baseUrl, old, up, vouched>>

VerifySilent(t) ==
    /\ frame[t].pc = "verify"
    /\ frame[t].to \notin up
    /\ NextCandidate(t, Noted(frame[t]), walk.start, 1, hosts)
    /\ UNCHANGED <<hosts, old, up, vouched>>

\* The candidate answers and is kept. The log line names `_hosts[start]`,
\* which raises IndexError where the list has shrunk below it; otherwise
\* the request goes on where its failover interrupted it.
CandidateAnswered(t) ==
    /\ frame[t].pc = "walk"
    /\ frame[t].to \in up
    /\ Resume(t, IF ~InRange(walk.start) THEN Idle
                 ELSE IF frame[t].why = "renewal" THEN Refresh(frame[t])
                 ELSE Await(frame[t], "again"))
    /\ Release(t)
    /\ walk' = NoWalk
    /\ vouched' = frame[t].to
    /\ UNCHANGED <<hosts, index, baseUrl, old, up>>

CandidateSilent(t) ==
    /\ frame[t].pc = "walk"
    /\ frame[t].to \notin up
    /\ NextCandidate(t, Noted(frame[t]), walk.start, walk.offset + 1, walk.list)
    /\ UNCHANGED <<hosts, old, up, vouched>>

\* The caller cancels a task at its await (or the answer raises what nothing
\* here catches): `async with` gives the lock back, nothing else is undone.
Interrupt(t) ==
    /\ frame[t].pc \in CancelAt
    /\ Resume(t, Idle)
    /\ \/ \E i \in 1..Len(lockQ) : lockQ[i] = t /\ lockQ' = Without(lockQ, i)
       \/ t \notin Range(lockQ) /\ UNCHANGED lockQ
    /\ walk' = IF frame[t].pc \in Probes THEN NoWalk ELSE walk
    /\ UNCHANGED <<hosts, index, baseUrl, old, up, vouched>>

-------------------------------------------------------------------------------
(* learn_hosts(), called by the client's owner between two steps.          *)

\* The list and the index once `new` is learned: what is kept of the list,
\* what is new in `new`, and the host in use even where neither names it.
Learn(new, replace) ==
    LET base == Base(hosts, replace) IN
    /\ InRange(index)
    /\ \E kept \in Orders(Known(base, new)) :
          /\ IsLearned(base, new, kept)
          /\ hosts' = WithCurrent(kept, At(index))
    /\ index' \in {i \in 0..(Len(hosts') - 1) : hosts'[i + 1] = At(index)}

Moment == IF walk = NoWalk THEN "settled" ELSE "switching"

MayLearn(replace) == Moment \in IF replace THEN ReplaceWhile ELSE AddWhile

LearnHosts ==
    /\ \E new \in Learnable, replace \in BOOLEAN :
          MayLearn(replace) /\ Learn(new, replace)
    /\ UNCHANGED <<baseUrl, old, lockQ, walk, frame, up, vouched>>

\* learn_hosts_from_cluster(): the answer of cluster/status is learned in
\* the step that receives it.
LearnFromCluster(t) ==
    /\ frame[t].pc \in Requests
    /\ frame[t].to \in up
    /\ MayLearn(FALSE)
    /\ \E new \in Learnable : Learn(new, FALSE)
    /\ Resume(t, Idle)
    /\ UNCHANGED <<baseUrl, old, lockQ, walk, up, vouched>>

\* An hour passes.
Age ==
    /\ Password /\ ~old
    /\ old' = TRUE
    /\ UNCHANGED <<hosts, index, baseUrl, lockQ, walk, frame, up, vouched>>

\* A host goes down or comes back.
Flap ==
    /\ \E h \in Hosts : up' = IF h \in up THEN up \ {h} ELSE up \cup {h}
    /\ UNCHANGED <<hosts, index, baseUrl, old, lockQ, walk, frame, vouched>>

-------------------------------------------------------------------------------
Init ==
    /\ hosts = <<Configured>>
    /\ index = 0
    /\ baseUrl = Configured
    /\ old \in IF Password THEN BOOLEAN ELSE {FALSE}
    /\ lockQ = << >>
    /\ walk = NoWalk
    /\ frame = [t \in Tasks |-> Idle]
    /\ up \in SUBSET Hosts
    /\ vouched = Configured

\* The end of a call a task waits for: each has a timeout of its own.
TaskStep(t) ==
    \/ TicketGranted(t) \/ TicketRefused(t) \/ TicketLost(t)
    \/ Answered(t) \/ LearnFromCluster(t) \/ Refused401(t) \/ RequestLost(t)
    \/ Woken(t)
    \/ VerifyAnswered(t) \/ VerifySilent(t)
    \/ CandidateAnswered(t) \/ CandidateSilent(t)

Next ==
    \/ \E t \in Tasks : Connect(t) \/ StartRequest(t) \/ TaskStep(t) \/ Interrupt(t)
    \/ LearnHosts
    \/ Age
    \/ Flap

Spec == Init /\ [][Next]_vars

\* Every call ends, answered or timed out, and the loop runs what is ready.
FairSpec == Spec /\ \A t \in Tasks : WF_vars(TaskStep(t))

-------------------------------------------------------------------------------
(* Properties.                                                             *)

\* Types; the one shallow property of this module, and the ground of its
\* proofs.
TypeOK ==
    /\ hosts \in Seq(Hosts) /\ hosts # << >>
    /\ index \in Nat
    /\ baseUrl \in Hosts
    /\ old \in BOOLEAN
    /\ lockQ \in Seq(Tasks)
    /\ walk \in Walks
    /\ frame \in [Tasks -> Frames]
    /\ up \subseteq Hosts
    /\ vouched \in Hosts

\* "Dropping it would leave the client pointing at a host it no longer admits
\* to knowing, and the index would move under the request in flight"
\* (tests/test_failover.py): the index names a host of the list, the one the
\* requests are sent to.
HostInUseListed == InRange(index) /\ baseUrl = At(index)

\* The host list under every interleaving of learning and switching
\* (learn_hosts, _use_host): the configured host stays first, no host is
\* listed twice, and the index names the host the requests are sent to.
HostListOK ==
    /\ hosts[1] = Configured
    /\ IsInjective(hosts)
    /\ HostInUseListed

\* _switch_lock: exactly the tasks inside failover() own or await it, the
\* one that probes is the owner, there is at most one, and no way out of
\* failover() - answer, silence, exception, cancellation - keeps the lock.
LockDiscipline ==
    /\ IsInjective(lockQ)
    /\ \A t \in Tasks : frame[t].pc \in Probes \cup {"lock"} <=> t \in Range(lockQ)
    /\ \A t \in Tasks : frame[t].pc \in Probes => lockQ[1] = t
    /\ walk # NoWalk <=> \E t \in Tasks : frame[t].pc \in Probes

Walking == \E t \in Tasks : frame[t].pc = "walk"

\* What a walk relies on across its awaits: the index it started from still
\* names a host of the list, and the index in use names its candidate.
WalkOK ==
    \A t \in Tasks : frame[t].pc = "walk" =>
        /\ InRange(walk.start)
        /\ walk.offset \in 1..(Len(walk.list) - 1)
        /\ frame[t].to = baseUrl
        /\ frame[t].to # At(walk.start)

\* "A candidate has to answer `version` before it counts": whenever no walk
\* is under way, the host in use is the configured one, or the last one that
\* answered as a candidate - also after a walk that found nobody.
InUseHasAnswered == Walking \/ baseUrl = vouched

\* The host the client has settled on: while a walk tries candidates, the
\* host it left and would go back to.
Settled == IF walk # NoWalk /\ InRange(walk.start) THEN At(walk.start) ELSE baseUrl

\* A switch is made by one task's walk, to a host that answered that walk.
\* After a failed request, the host left had itself been asked under the
\* lock and stayed silent: a burst of requests takes one step, not many.
SwitchIsProven ==
    [][Settled' # Settled =>
         \E t \in Tasks :
            /\ frame[t].pc = "walk" /\ frame'[t].pc # "walk"
            /\ Settled' = frame[t].to /\ Settled' \in up
            /\ frame[t].why = "request" => Settled \in frame[t].silent
      ]_vars

\* "the lock lets the first one switch, and the rest then find a host that
\* answers and leave it alone" (failover): nobody moves the client away from
\* a host that is up and whose silence the mover has not observed.
LeavesAnsweringHostAlone ==
    [][Settled' # Settled /\ Settled \in up =>
         \E t \in Tasks : frame[t].pc = "walk" /\ Settled \in frame[t].silent]_vars

\* "where no host answers, the original error is raised" (docs/failover.md):
\* a walk that gives up has had no answer from any other host that was known
\* when it began, unless the list has grown behind it (see PassesNobodyBy).
GivesUpOnlyOnSilence ==
    [][\A t \in Tasks :
         /\ frame[t].pc = "walk" /\ frame'[t].pc = "idle" /\ frame[t].to \notin up
         /\ hosts = walk.list
         => Range(walk.list) \ {walk.list[walk.start + 1]}
              \subseteq frame[t].silent \cup {frame[t].to}
      ]_vars

\* "the request repeated there": the second attempt after a failover goes to
\* a host that answered as a candidate, and never to the one that failed; nor
\* to any other that this walk has found silent, unless the list has grown
\* behind the walk, which then asks some of them twice.
RepeatIsElsewhere ==
    [][\A t \in Tasks :
         frame[t].pc \in {"request", "lock", "walk"} /\ frame'[t].pc = "again" =>
            /\ frame'[t].to = vouched'
            /\ frame[t].pc # "walk" => frame'[t].to # frame[t].to
            /\ frame[t].pc = "walk" =>
                  /\ frame'[t].to # At(walk.start)
                  /\ hosts = walk.list => frame'[t].to \notin frame[t].silent
      ]_vars

\* The abstract choice of a host (module HostChoice) is what the hosts, the
\* index and the walks of all tasks implement together.
Choice == INSTANCE HostChoice WITH known <- Range(hosts), inUse <- Settled

ImplementsHostChoice == Choice!Spec

\* Every request ends: answered or raised, however many tasks queue for the
\* lock and whatever the hosts do meanwhile.
RequestsEnd == \A t \in Tasks : frame[t].pc # "idle" ~> frame[t].pc = "idle"

\* Once the hosts stop failing and coming back, a client that is used again
\* and again settles on a host that answers, if it knows any.
Recovers ==
    <>[][UNCHANGED up]_up => <>[](Settled \in up \/ Range(hosts) \cap up = {})

\* The caller polls: it sends requests again and again, whatever else it
\* does. Strong fairness, because a caller that only ever repeats connect()
\* is none of this kind (connect() has no failover).
Polling == \A t \in Tasks : SF_vars(StartRequest(t))

PollingSpec == FairSpec /\ Polling

-------------------------------------------------------------------------------
(* Stronger properties, which this code does not satisfy.                  *)

\* "A candidate has to answer `version` before it counts" (failover): no task
\* sends a request or a ticket call to a candidate that is still being asked.
OnlyAnsweringHostsAreSent ==
    [][\A t \in Tasks :
         frame'[t].pc \in TicketCalls \cup Requests /\ frame'[t] # frame[t] =>
            frame'[t].to = vouched']_vars

\* "Move to the next node that answers" (failover): a walk that gives up has
\* passed by no host that was known when it began and would have answered.
PassesNobodyBy ==
    [][\A t \in Tasks :
         frame[t].pc = "walk" /\ frame'[t].pc = "idle" /\ frame[t].to \notin up =>
            (Range(walk.list) \cap up) \ {walk.list[walk.start + 1]}
              \subseteq frame[t].silent
      ]_vars
===============================================================================
