--------------------------- MODULE ProxmoxHTTPAuth ---------------------------
(***************************************************************************)
(* Ticket authentication (class ProxmoxHTTPAuth, src/aioproxmox/           *)
(* __init__.py) under the requests of concurrent tasks. One ticket, with   *)
(* its CSRF token, is shared by all: any task may renew it, log in again   *)
(* or be half-way through a login with two factors while the others send.  *)
(*                                                                         *)
(* Module ProxmoxVE follows the hosts and takes tickets for granted; here  *)
(* the hosts are one server that answers, refuses or stays silent, the     *)
(* tickets have an age and a kind, and a failover is one call that says    *)
(* whether it moved. The server handles a call in one step and its answer  *)
(* is received in a later one, so answers overtake each other.             *)
(***************************************************************************)
EXTENDS Naturals

CONSTANTS
    Tasks,    \* concurrent requests through one client
    Accounts  \* the accounts it may be used with

\* Whether the server accepts the stored password, whether it asks for a
\* second factor, and who made the authentication: a caller of its own, with
\* the one-time password, or ProxmoxVE, which was given it.
ASSUME AccountAssumption ==
    Accounts \subseteq [passwordRight : BOOLEAN, twoFactor : BOOLEAN,
                       madeBy : {"caller", "ProxmoxVE"}]

VARIABLES
    account, \* the account in use
    ticket,  \* pve_auth_ticket and csrf_prevention_token, stored together
    age,     \* how long ago birth_time is, in hours
    frame    \* per task: the call it awaits

vars == <<account, ticket, age, frame>>

-------------------------------------------------------------------------------
(* Time, in hours: 0 is less than one, 2 is two (a ticket's life) or more. *)

Ages == 0..2
Older(n) == IF n < 2 THEN n + 1 ELSE n

\* `half` is the challenge a login with two factors begins with. A ticket is
\* dead once the server has dropped it before its time.
Kinds == {"none", "half", "whole"}
Tickets == [kind : Kinds, age : Ages, dead : BOOLEAN]
NoTicket == [kind |-> "none", age |-> 0, dead |-> FALSE]
NewTicket(kind) == [kind |-> kind, age |-> 0, dead |-> FALSE]
Aged(k) == IF k.kind = "none" THEN k ELSE [k EXCEPT !.age = Older(@)]
Dropped(k) == IF k.kind = "none" THEN k ELSE [k EXCEPT !.dead = TRUE]
Valid(k) == k.kind = "whole" /\ k.age < 2 /\ ~k.dead

\* What a task awaits. A first factor is sent by signin (in connect), login
\* (after a refused renewal) and relogin (after a 401), the second by their
\* namesakes; `moved` is the repeat after a failover, `repeat` after relogin.
FirstFactor == {"signin", "login", "relogin"}
SecondOf == [signin |-> "signin2", login |-> "login2", relogin |-> "relogin2"]
SecondFactor == {"signin2", "login2", "relogin2"}
TicketCalls == {"renew"} \cup FirstFactor \cup SecondFactor
Requests == {"request", "repeat", "moved"}
Failovers == {"lost renewal", "lost request"}
PCs == {"idle"} \cup TicketCalls \cup Requests \cup Failovers

\* `sent` is the ticket the call carries, `reply` what the server has
\* answered, `got` the ticket in that answer, `again` whether this is the
\* second check_and_refresh() of the request, `late` whether an hour has
\* begun since the request did, and `last` (history) how the last one ended.
Replies == {"pending", "ok", "refused"}
Ends == {"none", "answered", "refused", "denied", "lost"}
Records == [pc : PCs, sent : Tickets, reply : Replies, got : Tickets,
            again : BOOLEAN, late : BOOLEAN, last : Ends]

\* A first factor is the password, and carries no ticket.
Frames == {f \in Records : f.pc \in FirstFactor => f.sent = NoTicket}

Ended(how) == [pc |-> "idle", sent |-> NoTicket, reply |-> "pending",
               got |-> NoTicket, again |-> FALSE, late |-> FALSE, last |-> how]

Begun == Ended("none")

Resume(t, f) == frame' = [frame EXCEPT ![t] = f]

Call(f, pc, sent) ==
    [f EXCEPT !.pc = pc, !.sent = sent, !.reply = "pending", !.got = NoTicket]

-------------------------------------------------------------------------------
(* check_and_refresh() and what follows it in request().                   *)

\* The ticket has reached renew_age.
DueLate(hours) == hours >= 2   \* mutant of Due
Due(hours) == hours >= 1

\* `k` and `hours` are the ticket and its age as the task now sees them.
Refresh(f, k, hours) ==
    IF Due(hours) THEN Call(f, "renew", k) ELSE Call(f, "request", k)

\* What answers the challenge. ProxmoxVE hands on bool(otp), which is then
\* formatted as a word.
Code == "the code"
Otp == IF account.madeBy = "ProxmoxVE" THEN "True" ELSE Code

\* The ticket the repeat after a relogin carries.
RepeatStale(f, k) == f.sent   \* mutant of RepeatWith
RepeatWith(f, k) == k

\* Where a task goes on with a whole ticket `k` just stored.
Resumed(f, k) ==
    IF f.pc \in {"relogin", "relogin2"} THEN Call(f, "repeat", RepeatWith(f, k))
    ELSE Call(f, "request", k)

-------------------------------------------------------------------------------
(* The steps of a task.                                                    *)

StartRequest(t) ==
    /\ frame[t].pc = "idle"
    /\ Resume(t, Refresh(Begun, ticket, age))
    /\ UNCHANGED <<ticket, age>>

Connect(t) ==
    /\ frame[t].pc = "idle"
    /\ Resume(t, Call(Begun, "signin", NoTicket))
    /\ UNCHANGED <<ticket, age>>

\* _get_new_tokens() is answered with a ticket. It is stored whatever its
\* kind; the answer to a challenge is the second factor.
Granted(t) ==
    LET f == frame[t] IN
    /\ f.pc \in TicketCalls /\ f.reply = "ok"
    /\ ticket' = f.got
    /\ age' = 0
    /\ Resume(t, IF f.got.kind = "half" THEN Call(f, SecondOf[f.pc], f.got)
                                        ELSE Resumed(f, f.got))

\* A renewal that is refused is followed by a login with the password; any
\* other refusal is ProxmoxAuthError.
DeniedAtOnce(t) ==   \* mutant of Denied
    /\ frame[t].pc \in TicketCalls /\ frame[t].reply = "refused"
    /\ Resume(t, Ended("denied"))
    /\ UNCHANGED <<ticket, age>>

DeniedAgain(t) ==   \* mutant of Denied: the login sends the ticket again
    /\ frame[t].pc \in TicketCalls /\ frame[t].reply = "refused"
    /\ Resume(t, IF frame[t].pc = "renew" THEN Call(frame[t], "login", frame[t].sent)
                                          ELSE Ended("denied"))
    /\ UNCHANGED <<ticket, age>>

Denied(t) ==
    /\ frame[t].pc \in TicketCalls /\ frame[t].reply = "refused"
    /\ Resume(t, IF frame[t].pc = "renew" THEN Call(frame[t], "login", NoTicket)
                                          ELSE Ended("denied"))
    /\ UNCHANGED <<ticket, age>>

Answered(t) ==
    /\ frame[t].pc \in Requests /\ frame[t].reply = "ok"
    /\ Resume(t, Ended("answered"))
    /\ UNCHANGED <<ticket, age>>

\* 401: the first attempt logs in again, a second one passes it on.
RefusedAtOnce(t) ==   \* mutant of Refused
    /\ frame[t].pc \in Requests /\ frame[t].reply = "refused"
    /\ Resume(t, Ended("refused"))
    /\ UNCHANGED <<ticket, age>>

Refused(t) ==
    /\ frame[t].pc \in Requests /\ frame[t].reply = "refused"
    /\ Resume(t, IF frame[t].pc = "request" THEN Call(frame[t], "relogin", NoTicket)
                                            ELSE Ended("refused"))
    /\ UNCHANGED <<ticket, age>>

\* The connection of a call fails, whether or not the server handled it. The
\* first check_and_refresh() and the first attempt then ask for a failover.
Lost(t) ==
    LET f == frame[t] IN
    /\ f.pc \in TicketCalls \cup Requests
    /\ \/ /\ f.pc \in {"renew", "login", "login2"} /\ ~f.again
          /\ Resume(t, Call(f, "lost renewal", NoTicket))
       \/ /\ f.pc = "request"
          /\ Resume(t, Call(f, "lost request", NoTicket))
       \/ /\ f.pc # "request" /\ (f.pc \in {"renew", "login", "login2"} => f.again)
          /\ Resume(t, Ended("lost"))
    /\ UNCHANGED <<ticket, age>>

\* The failover moved: check again whether the ticket is due - another task
\* may have renewed it meanwhile - or repeat the request with what there is.
Moved(t) ==
    LET f == frame[t] IN
    /\ f.pc \in Failovers
    /\ Resume(t, IF f.pc = "lost renewal"
                 THEN Refresh([f EXCEPT !.again = TRUE], ticket, age)
                 ELSE Call(f, "moved", ticket))
    /\ UNCHANGED <<ticket, age>>

\* It did not, or there was nowhere to go.
NotMoved(t) ==
    /\ frame[t].pc \in Failovers
    /\ Resume(t, Ended("lost"))
    /\ UNCHANGED <<ticket, age>>

-------------------------------------------------------------------------------
(* The server: which call it grants, and with what ticket.                 *)

Grants(f) ==
    CASE f.pc = "renew" -> IF Valid(f.sent) THEN {NewTicket("whole")} ELSE {}
      [] f.pc \in FirstFactor ->
            IF account.passwordRight
            THEN {NewTicket(IF account.twoFactor THEN "half" ELSE "whole")} ELSE {}
      [] f.pc \in SecondFactor ->
            IF Otp = Code /\ ~f.sent.dead THEN {NewTicket("whole")} ELSE {}

Serve(t) ==
    LET f == frame[t] IN
    /\ f.pc \in TicketCalls /\ f.reply = "pending"
    /\ \/ \E k \in Grants(f) : Resume(t, [f EXCEPT !.reply = "ok", !.got = k])
       \/ \* a one-time password may have been used up
          /\ f.pc \in SecondFactor \/ Grants(f) = {}
          /\ Resume(t, [f EXCEPT !.reply = "refused"])
    /\ UNCHANGED <<ticket, age>>

ServeRequest(t) ==
    LET f == frame[t] IN
    /\ f.pc \in Requests /\ f.reply = "pending"
    /\ Resume(t, [f EXCEPT !.reply = IF Valid(f.sent) THEN "ok" ELSE "refused"])
    /\ UNCHANGED <<ticket, age>>

\* The server drops every ticket it has given out.
Drop ==
    /\ ticket' = Dropped(ticket)
    /\ frame' = [t \in Tasks |-> [frame[t] EXCEPT !.sent = Dropped(@),
                                                  !.got = Dropped(@)]]
    /\ UNCHANGED age

\* An hour passes. A request with its timeouts and probes takes less than
\* that, so none sees two of them begin; and a ticket's hours are counted
\* from the moment it is received.
Hour ==
    /\ \A t \in Tasks : ~frame[t].late /\ frame[t].got.kind = "none"
    /\ ticket' = Aged(ticket)
    /\ age' = Older(age)
    /\ frame' = [t \in Tasks |->
                   IF frame[t].pc = "idle" THEN frame[t]
                   ELSE [frame[t] EXCEPT !.sent = Aged(@), !.late = TRUE]]

-------------------------------------------------------------------------------
\* birth_time is 0.0: on a clock that starts with the machine that is any age.
Init ==
    /\ account \in Accounts
    /\ ticket = NoTicket
    /\ age \in Ages
    /\ frame = [t \in Tasks |-> Ended("none")]

TaskStep(t) ==
    \/ Granted(t) \/ Denied(t) \/ Answered(t) \/ Refused(t)
    \/ Lost(t) \/ Moved(t) \/ NotMoved(t)
    \/ Serve(t) \/ ServeRequest(t)

Next ==
    /\ \/ \E t \in Tasks : StartRequest(t) \/ Connect(t) \/ TaskStep(t)
       \/ Drop
       \/ Hour
    /\ UNCHANGED account

Spec == Init /\ [][Next]_vars

\* Every task goes on asking, and every call it makes ends: what the server
\* does not answer is cut off by the client's timeout.
Fairness ==
    \A t \in Tasks :
        WF_vars((StartRequest(t) \/ Connect(t) \/ TaskStep(t)) /\ UNCHANGED account)
FairSpec == Spec /\ Fairness

-------------------------------------------------------------------------------
(* Properties.                                                             *)

TypeOK ==
    /\ account \in Accounts
    /\ ticket \in Tickets
    /\ age \in Ages
    /\ frame \in [Tasks -> Frames]

\* check_and_refresh(): whatever the tasks do with the ticket meanwhile -
\* renewals that overlap, logins half-way, a failover in between - none sends
\* a request with a ticket that may run out before it arrives.
NeverSendsExpired ==
    \A t \in Tasks :
        frame[t].pc \in Requests /\ frame[t].sent.kind = "whole" =>
            frame[t].sent.age < 2

\* "the password is still here, so log in again with it before giving up"
\* (check_and_refresh): where the server accepts the password and asks for
\* nothing else, no task ever meets ProxmoxAuthError - after any outage, with
\* any ticket dropped, however renewals and logins of other tasks fall in.
PasswordIsEnough ==
    account.passwordRight /\ ~account.twoFactor =>
        \A t \in Tasks : frame[t].last # "denied"

\* "log in again and repeat once" (request): the repeat is refused only
\* where the server has dropped the new ticket too. What other tasks store
\* between the 401 and the repeat - an older answer, a challenge - does not
\* reach it.
RepeatIsRefusedOnlyIfDropped ==
    \A t \in Tasks :
        frame[t].pc = "repeat" /\ frame[t].reply = "refused" => frame[t].sent.dead

\* "Drop the ticket and authenticate from the stored password" (relogin): once
\* the server drops no more tickets and no call is lost, requests fail no
\* more, and every task is answered again and again - whatever ticket, of
\* whatever age, alive or dead, the disturbances left behind, however often it
\* comes due, and however the other tasks' renewals and logins fall in.
Disturbed == Drop \/ \E t \in Tasks : Lost(t) \/ NotMoved(t)
GetsInAgain ==
    account.passwordRight /\ ~account.twoFactor /\ <>[][~Disturbed]_vars =>
        /\ <>[](\A t \in Tasks : frame[t].last \in {"none", "answered"})
        /\ \A t \in Tasks : []<>(frame[t].last = "answered")

\* "A 401 with password authentication means the ticket died while the host
\* was away: log in again and repeat once" (request): no 401 reaches the
\* caller of a request that has not logged in again.
A401LogsInAgain ==
    [][\A t \in Tasks :
         frame[t].pc \in Requests /\ frame'[t].last = "refused" =>
            frame[t].pc = "repeat"]_vars

\* "supporting TFA" (ProxmoxHTTPAuth): a login that answers the challenge of
\* the second factor answers with the code the caller gave.
ChallengeIsAnswered ==
    \A t \in Tasks : frame[t].pc \in SecondFactor => Otp = Code
===============================================================================
