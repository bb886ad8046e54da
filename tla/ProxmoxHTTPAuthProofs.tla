------------------------ MODULE ProxmoxHTTPAuthProofs ------------------------
(***************************************************************************)
(* Proofs about ProxmoxHTTPAuth, for any number of tasks and any account.  *)
(*                                                                         *)
(* The inductive invariant relates three clocks: the age of a ticket, the  *)
(* age the client thinks it has, and whether an hour has begun since a     *)
(* request did.                                                            *)
(***************************************************************************)
EXTENDS ProxmoxHTTPAuth, TLAPS

\* Hours that may have begun since the request of `f` did.
Span(f) == IF f.late THEN 1 ELSE 0

\* A request in one of these has found or made the ticket fresh.
PastRefresh == Requests \cup {"lost request", "relogin", "relogin2"}

\* The client never thinks its ticket younger than it is.
TicketNotOlder == ticket.kind = "whole" => ticket.age <= age

FrameInv(f) ==
    /\ \* an answer on its way has not aged, and comes with a ticket
       /\ f.got.kind # "none" => f.got.age = 0
       /\ f.pc \in TicketCalls /\ f.reply = "ok" => f.got.kind # "none"
       /\ f.got.kind = "half" => f.pc \in FirstFactor
    /\ \* what is sent past check_and_refresh() was fresh then
       f.pc \in Requests /\ f.sent.kind = "whole" => f.sent.age <= Span(f)
    /\ \* a repeat carries the whole ticket of its own login, and one that is
       \* refused was not valid
       /\ f.pc = "repeat" => f.sent.kind = "whole"
       /\ f.pc = "repeat" /\ f.reply = "refused" => ~Valid(f.sent)

\* The ticket's age as the client knows it, while a request is past its check.
ClockInv(f) == f.pc \in PastRefresh => age <= Span(f)

Inv ==
    /\ TypeOK
    /\ TicketNotOlder
    /\ \A t \in Tasks : FrameInv(frame[t]) /\ ClockInv(frame[t])

\* Where the password is all there is, no login is refused or half.
PasswordOnly(f) ==
    /\ f.got.kind # "half"
    /\ f.pc \notin SecondFactor
    /\ f.pc \in FirstFactor => f.reply # "refused"
    /\ f.last # "denied"

PasswordInv ==
    account.passwordRight /\ ~account.twoFactor =>
        \A t \in Tasks : PasswordOnly(frame[t])

USE DEF Resume

LEMMA AgingFacts ==
    ASSUME NEW k \in Tickets
    PROVE  /\ Aged(k) \in Tickets
           /\ Aged(k).kind = k.kind
           /\ Aged(k).dead = k.dead
           /\ k.age <= Aged(k).age /\ Aged(k).age <= k.age + 1
           /\ ~Valid(k) => ~Valid(Aged(k))
  <1>1. CASE k.kind = "none"
    BY <1>1 DEF Tickets, Aged, Valid, Ages
  <1>2. CASE k.kind # "none"
    <2>1. Aged(k) = [kind |-> k.kind, age |-> Older(k.age), dead |-> k.dead]
      BY <1>2 DEF Aged, Tickets
    <2>2. Older(k.age) \in Ages /\ k.age <= Older(k.age) /\ Older(k.age) <= k.age + 1
      BY DEF Tickets, Ages, Older
    <2> QED
      BY <2>1, <2>2 DEF Tickets, Valid, Ages
  <1> QED
    BY <1>1, <1>2

LEMMA DroppingFacts ==
    ASSUME NEW k \in Tickets
    PROVE  /\ Dropped(k) \in Tickets
           /\ Dropped(k).kind = k.kind
           /\ Dropped(k).age = k.age
           /\ ~Valid(k) => ~Valid(Dropped(k))
  <1>1. CASE k.kind = "none"
    BY <1>1 DEF Tickets, Dropped, Valid
  <1>2. CASE k.kind # "none"
    <2>1. Dropped(k) = [kind |-> k.kind, age |-> k.age, dead |-> TRUE]
      BY <1>2 DEF Dropped, Tickets
    <2> QED
      BY <2>1 DEF Tickets, Valid
  <1> QED
    BY <1>1, <1>2

LEMMA NoTicketFacts ==
    /\ NoTicket \in Tickets /\ NoTicket.kind = "none" /\ NoTicket.age = 0
    /\ Aged(NoTicket) = NoTicket /\ Dropped(NoTicket) = NoTicket
  BY DEF Tickets, NoTicket, Aged, Dropped, Kinds, Ages

LEMMA NewTicketFacts ==
    ASSUME NEW k \in {"half", "whole"}
    PROVE  /\ NewTicket(k) \in Tickets
           /\ NewTicket(k).kind = k /\ NewTicket(k).age = 0
  BY DEF Tickets, NewTicket, Kinds, Ages

\* Grants(f) are tickets as they come from the server.
LEMMA GrantFacts ==
    ASSUME NEW f \in Frames, f.pc \in TicketCalls, NEW k \in Grants(f),
           account \in Accounts
    PROVE  /\ k \in Tickets /\ k.age = 0 /\ k.kind \in {"half", "whole"}
           /\ k.kind = "half" => f.pc \in FirstFactor /\ account.twoFactor
  BY NewTicketFacts, AccountAssumption
     DEF Grants, TicketCalls, FirstFactor, SecondFactor

\* The right password of an account is granted a ticket.
LEMMA PasswordGrants ==
    ASSUME NEW f \in Frames, f.pc \in FirstFactor, account \in Accounts,
           account.passwordRight
    PROVE  Grants(f) # {}
  <1>1. Grants(f) = {NewTicket(IF account.twoFactor THEN "half" ELSE "whole")}
    <2>1. f.pc # "renew" /\ f.pc \notin SecondFactor
      BY DEF FirstFactor, SecondFactor
    <2> HIDE DEF NewTicket
    <2> QED
      BY <2>1 DEF Grants
  <1> QED
    BY <1>1

\* A call of a frame is a frame, and keeps all but the call.
LEMMA CallFacts ==
    ASSUME NEW f \in Frames, NEW pc \in PCs, NEW k \in Tickets,
           pc \in FirstFactor => k = NoTicket
    PROVE  /\ Call(f, pc, k) \in Frames
           /\ Call(f, pc, k).pc = pc
           /\ Call(f, pc, k).sent = k
           /\ Call(f, pc, k).reply = "pending"
           /\ Call(f, pc, k).got = NoTicket
           /\ Call(f, pc, k).late = f.late
           /\ Call(f, pc, k).last = f.last
  BY NoTicketFacts DEF Call, Frames, Records, Replies

LEMMA EndedFacts ==
    ASSUME NEW how \in Ends
    PROVE  /\ Ended(how) \in Frames
           /\ Ended(how).pc = "idle" /\ Ended(how).reply = "pending"
           /\ Ended(how).got = NoTicket /\ Ended(how).sent = NoTicket
           /\ Ended(how).late = FALSE /\ Ended(how).last = how
  BY NoTicketFacts DEF Ended, Frames, Records, Replies, PCs, FirstFactor

LEMMA CallInv ==
    ASSUME NEW f \in Frames, NEW pc \in PCs, NEW k \in Tickets,
           pc \in FirstFactor => k = NoTicket,
           pc \in Requests /\ k.kind = "whole" => k.age <= Span(f),
           pc = "repeat" => k.kind = "whole"
    PROVE  /\ FrameInv(Call(f, pc, k))
           /\ Span(Call(f, pc, k)) = Span(f)
  BY CallFacts, NoTicketFacts DEF FrameInv, Span

LEMMA EndedInv ==
    ASSUME NEW how \in Ends
    PROVE  FrameInv(Ended(how)) /\ Ended(how).pc \notin PastRefresh
  BY EndedFacts, NoTicketFacts
     DEF FrameInv, PastRefresh, Requests, TicketCalls, FirstFactor, SecondFactor

\* What check_and_refresh() starts is sound, for the ticket as it is.
LEMMA RefreshInv ==
    ASSUME TypeOK, TicketNotOlder, NEW f \in Frames
    PROVE  LET g == Refresh(f, ticket, age) IN
           /\ g \in Frames /\ FrameInv(g)
           /\ g.pc \in PastRefresh => age <= Span(g)
           /\ g.pc \in {"renew", "request"} /\ g.got = NoTicket /\ g.last = f.last
  <1> DEFINE g == Refresh(f, ticket, age)
  <1>0. ticket \in Tickets /\ age \in 0..2 /\ ticket.age \in 0..2
    BY DEF TypeOK, Ages, Tickets
  <1>1. CASE Due(age)
    <2>1. g = Call(f, "renew", ticket)
      BY <1>1 DEF Refresh
    <2>2. "renew" \in PCs /\ "renew" \notin FirstFactor /\ "renew" \notin PastRefresh
          /\ "renew" \notin Requests
      BY DEF PCs, TicketCalls, FirstFactor, SecondFactor, PastRefresh, Requests
    <2> QED
      BY <1>0, <2>1, <2>2, CallFacts, CallInv
  <1>2. CASE ~Due(age)
    <2>1. g = Call(f, "request", ticket)
      BY <1>2 DEF Refresh
    <2>2. age = 0
      BY <1>0, <1>2 DEF Due
    <2>3. "request" \in PCs /\ "request" \notin FirstFactor
      BY DEF PCs, Requests, FirstFactor
    <2>4. Span(f) \in {0, 1}
      BY DEF Span
    <2>5. ticket.kind = "whole" => ticket.age <= Span(f)
      BY <1>0, <2>2, <2>4 DEF TicketNotOlder
    <2> QED
      BY <1>0, <2>1, <2>2, <2>3, <2>4, <2>5, CallFacts, CallInv
  <1> QED
    BY <1>1, <1>2

\* A step of one task that leaves a sound frame, and a ticket no older than
\* it is said to be, keeps the invariant.
LEMMA TaskKeepsInv ==
    ASSUME Inv, NEW t \in Tasks, NEW g \in Frames,
           frame' = [frame EXCEPT ![t] = g], account' = account,
           ticket' \in Tickets, age' \in Ages, age' <= age,
           TicketNotOlder',
           FrameInv(g), g.pc \in PastRefresh => age' <= Span(g)
    PROVE  Inv'
  <1>1. TypeOK'
    BY DEF Inv, TypeOK
  <1>2. ASSUME NEW u \in Tasks PROVE FrameInv(frame'[u]) /\ ClockInv(frame[u])'
    <2>1. CASE u = t
      <3>1. frame'[u] = g
        BY <2>1 DEF Inv, TypeOK
      <3> QED
        BY <3>1 DEF ClockInv
    <2>2. CASE u # t
      <3>1. frame'[u] = frame[u]
        BY <2>2 DEF Inv, TypeOK
      <3>2. Span(frame[u]) \in {0, 1} /\ age \in 0..2 /\ age' \in 0..2
        BY DEF Span, Inv, TypeOK, Ages
      <3> QED
        BY <3>1, <3>2 DEF Inv, ClockInv
    <2> QED
      BY <2>1, <2>2
  <1> QED
    BY <1>1, <1>2 DEF Inv, FrameInv, Valid

\* The same where the step leaves the ticket alone.
LEMMA TaskKeepsInvQuietly ==
    ASSUME Inv, NEW t \in Tasks, NEW g \in Frames,
           frame' = [frame EXCEPT ![t] = g], UNCHANGED <<account, ticket, age>>,
           FrameInv(g), g.pc \in PastRefresh => age <= Span(g)
    PROVE  Inv'
  <1>1. ticket' \in Tickets /\ age' \in Ages /\ age' <= age /\ TicketNotOlder'
    BY DEF Inv, TypeOK, Ages, TicketNotOlder
  <1> QED
    BY <1>1, TaskKeepsInv

\* A call from a frame that is past its check, or one to which that is not
\* asked, with a ticket that is fresh enough.
LEMMA CallKeepsInv ==
    ASSUME Inv, NEW t \in Tasks, UNCHANGED <<account, ticket, age>>,
           NEW pc \in PCs, NEW k \in Tickets,
           frame' = [frame EXCEPT ![t] = Call(frame[t], pc, k)],
           pc \in FirstFactor => k = NoTicket,
           pc \in Requests /\ k.kind = "whole" => k.age <= Span(frame[t]),
           pc = "repeat" => k.kind = "whole",
           pc \in PastRefresh => frame[t].pc \in PastRefresh
    PROVE  Inv'
  <1>1. frame[t] \in Frames
    BY DEF Inv, TypeOK
  <1>2. frame[t].pc \in PastRefresh => age <= Span(frame[t])
    BY DEF Inv, ClockInv
  <1>3. /\ Call(frame[t], pc, k) \in Frames /\ FrameInv(Call(frame[t], pc, k))
        /\ Call(frame[t], pc, k).pc = pc
        /\ Span(Call(frame[t], pc, k)) = Span(frame[t])
    BY <1>1, CallFacts, CallInv
  <1>4. Call(frame[t], pc, k).pc \in PastRefresh => age <= Span(Call(frame[t], pc, k))
    BY <1>2, <1>3
  <1> QED
    BY <1>3, <1>4, TaskKeepsInvQuietly

LEMMA EndKeepsInv ==
    ASSUME Inv, NEW t \in Tasks, UNCHANGED <<account, ticket, age>>,
           NEW how \in Ends, frame' = [frame EXCEPT ![t] = Ended(how)]
    PROVE  Inv'
  BY EndedFacts, EndedInv, TaskKeepsInvQuietly

LEMMA InitInv == Init => Inv
  <1> SUFFICES ASSUME Init PROVE Inv
    OBVIOUS
  <1>1. "none" \in Ends
    BY DEF Ends
  <1>2. TypeOK
    BY <1>1, NoTicketFacts, EndedFacts DEF Init, TypeOK
  <1>3. TicketNotOlder
    BY NoTicketFacts DEF Init, TicketNotOlder
  <1>4. ASSUME NEW t \in Tasks PROVE FrameInv(frame[t]) /\ ClockInv(frame[t])
    BY <1>1, EndedInv DEF Init, ClockInv
  <1> QED
    BY <1>2, <1>3, <1>4 DEF Inv

\* The stored ticket of a login that is over is what the request goes on with.
LEMMA GrantedKeepsInv ==
    ASSUME Inv, NEW t \in Tasks, Granted(t), UNCHANGED account
    PROVE  Inv'
  <1> DEFINE f == frame[t]
  <1> DEFINE g == IF f.got.kind = "half" THEN Call(f, SecondOf[f.pc], f.got)
                                         ELSE Resumed(f, f.got)
  <1>1. f \in Frames /\ f.got \in Tickets /\ f.pc \in TicketCalls /\ f.reply = "ok"
    BY DEF Inv, TypeOK, Frames, Records, Granted
  <1>2. f.got.kind \in {"half", "whole"} /\ f.got.age = 0
    BY <1>1 DEF Inv, FrameInv, Tickets, Kinds
  <1>3. frame' = [frame EXCEPT ![t] = g] /\ ticket' = f.got /\ age' = 0
    BY DEF Granted
  <1>4. ticket' \in Tickets /\ age' \in Ages /\ age' <= age /\ TicketNotOlder'
    BY <1>1, <1>2, <1>3 DEF Ages, TicketNotOlder, Inv, TypeOK
  <1>5. Span(f) \in {0, 1}
    BY DEF Span
  <1>6. g \in Frames /\ FrameInv(g) /\ 0 <= Span(g)
    <2>1. CASE f.got.kind = "half"
      <3>1. f.pc \in FirstFactor
        BY <2>1 DEF Inv, FrameInv
      <3>2. SecondOf[f.pc] \in SecondFactor
        BY <3>1 DEF FirstFactor, SecondOf, SecondFactor
      <3>3. /\ SecondOf[f.pc] \in PCs /\ SecondOf[f.pc] \notin FirstFactor
            /\ SecondOf[f.pc] \notin Requests
        BY <3>2 DEF SecondFactor, PCs, FirstFactor, Requests, TicketCalls
      <3>4. g = Call(f, SecondOf[f.pc], f.got) /\ SecondOf[f.pc] # "repeat"
        BY <2>1, <3>3 DEF Requests
      <3> QED
        BY <1>1, <1>5, <3>3, <3>4, CallFacts, CallInv
    <2>2. CASE f.got.kind = "whole"
      <3>1. PICK pc \in {"request", "repeat"} : g = Call(f, pc, f.got)
        BY <2>2 DEF Resumed, RepeatWith
      <3>2. pc \in PCs /\ pc \notin FirstFactor
        BY <3>1 DEF PCs, Requests, FirstFactor
      <3> QED
        BY <1>1, <1>2, <1>5, <2>2, <3>1, <3>2, CallFacts, CallInv
    <2> QED
      BY <1>2, <2>1, <2>2
  <1> HIDE DEF g
  <1> QED
    BY <1>3, <1>4, <1>6, TaskKeepsInv

LEMMA RefusalsKeepInv ==
    ASSUME Inv, NEW t \in Tasks, Denied(t) \/ Refused(t), UNCHANGED account
    PROVE  Inv'
  <1> USE NoTicketFacts
  <1>1. CASE Denied(t) /\ frame[t].pc = "renew"
    <2>1. "login" \in PCs /\ "login" \notin PastRefresh /\ "login" \notin Requests
      BY DEF PCs, TicketCalls, FirstFactor, PastRefresh, Requests
    <2>2. frame' = [frame EXCEPT ![t] = Call(frame[t], "login", NoTicket)]
          /\ UNCHANGED <<ticket, age>>
      BY <1>1 DEF Denied
    <2> QED
      BY <2>1, <2>2, CallKeepsInv
  <1>2. CASE Refused(t) /\ frame[t].pc = "request"
    <2>1. "relogin" \in PCs /\ "relogin" \notin Requests /\ frame[t].pc \in PastRefresh
      BY <1>2 DEF PCs, TicketCalls, FirstFactor, PastRefresh, Requests
    <2>2. frame' = [frame EXCEPT ![t] = Call(frame[t], "relogin", NoTicket)]
          /\ UNCHANGED <<ticket, age>>
      BY <1>2 DEF Refused
    <2> QED
      BY <2>1, <2>2, CallKeepsInv
  <1>3. CASE Denied(t) /\ frame[t].pc # "renew"
    BY <1>3, EndKeepsInv DEF Denied, Ends
  <1>4. CASE Refused(t) /\ frame[t].pc # "request"
    BY <1>4, EndKeepsInv DEF Refused, Ends
  <1> QED
    BY <1>1, <1>2, <1>3, <1>4

LEMMA LossesKeepInv ==
    ASSUME Inv, NEW t \in Tasks, Lost(t) \/ NotMoved(t), UNCHANGED account
    PROVE  Inv'
  <1> USE NoTicketFacts
  <1>1. CASE frame' = [frame EXCEPT ![t] = Call(frame[t], "lost renewal", NoTicket)]
             /\ UNCHANGED <<ticket, age>>
    <2>1. /\ "lost renewal" \in PCs /\ "lost renewal" \notin PastRefresh
          /\ "lost renewal" \notin Requests
      BY DEF PCs, Failovers, PastRefresh, Requests
    <2> QED
      BY <1>1, <2>1, CallKeepsInv
  <1>2. CASE frame' = [frame EXCEPT ![t] = Call(frame[t], "lost request", NoTicket)]
             /\ UNCHANGED <<ticket, age>> /\ frame[t].pc = "request"
    <2>1. /\ "lost request" \in PCs /\ "lost request" \notin FirstFactor
          /\ "lost request" \notin Requests /\ frame[t].pc \in PastRefresh
      BY <1>2 DEF PCs, Failovers, PastRefresh, Requests, FirstFactor
    <2> QED
      BY <1>2, <2>1, CallKeepsInv
  <1>3. CASE frame' = [frame EXCEPT ![t] = Ended("lost")] /\ UNCHANGED <<ticket, age>>
    BY <1>3, EndKeepsInv DEF Ends
  <1> QED
    BY <1>1, <1>2, <1>3 DEF Lost, NotMoved

LEMMA MovedKeepsInv ==
    ASSUME Inv, NEW t \in Tasks, Moved(t), UNCHANGED account
    PROVE  Inv'
  <1>1. CASE frame[t].pc = "lost renewal"
    <2> DEFINE f == [frame[t] EXCEPT !.again = TRUE]
    <2>1. f \in Frames
      BY <1>1 DEF Inv, TypeOK, Frames, Records, FirstFactor
    <2>2. frame' = [frame EXCEPT ![t] = Refresh(f, ticket, age)]
          /\ UNCHANGED <<account, ticket, age>>
      BY <1>1 DEF Moved
    <2> HIDE DEF f
    <2> QED
      BY <2>1, <2>2, RefreshInv, TaskKeepsInvQuietly DEF Inv
  <1>2. CASE frame[t].pc = "lost request"
    <2>1. frame' = [frame EXCEPT ![t] = Call(frame[t], "moved", ticket)]
          /\ UNCHANGED <<account, ticket, age>>
      BY <1>2 DEF Moved
    <2>2. "moved" \in PCs /\ "moved" \notin FirstFactor /\ frame[t].pc \in PastRefresh
      BY <1>2 DEF PCs, Requests, FirstFactor, PastRefresh
    <2>3. ticket \in Tickets /\ (ticket.kind = "whole" => ticket.age <= Span(frame[t]))
      <3>1. age <= Span(frame[t])
        BY <2>2 DEF Inv, ClockInv
      <3>2. ticket \in Tickets /\ ticket.age \in 0..2 /\ age \in 0..2
            /\ Span(frame[t]) \in 0..1
        BY DEF Inv, TypeOK, Tickets, Ages, Span
      <3> QED
        BY <3>1, <3>2 DEF Inv, TicketNotOlder
    <2> QED
      BY <2>1, <2>2, <2>3, CallKeepsInv
  <1> QED
    BY <1>1, <1>2 DEF Moved, Failovers

LEMMA BeginningsKeepInv ==
    ASSUME Inv, NEW t \in Tasks, StartRequest(t) \/ Connect(t), UNCHANGED account
    PROVE  Inv'
  <1>0. "none" \in Ends
    BY DEF Ends
  <1>1. Begun \in Frames
    BY <1>0, EndedFacts DEF Begun
  <1>2. CASE StartRequest(t)
    <2>1. frame' = [frame EXCEPT ![t] = Refresh(Begun, ticket, age)]
          /\ UNCHANGED <<account, ticket, age>>
      BY <1>2 DEF StartRequest
    <2> QED
      BY <1>1, <2>1, RefreshInv, TaskKeepsInvQuietly DEF Inv
  <1>3. CASE Connect(t)
    <2>1. frame' = [frame EXCEPT ![t] = Call(Begun, "signin", NoTicket)]
          /\ UNCHANGED <<account, ticket, age>>
      BY <1>3 DEF Connect
    <2>2. "signin" \in PCs /\ "signin" \notin Requests /\ "signin" \notin PastRefresh
      BY DEF PCs, TicketCalls, FirstFactor, PastRefresh, Requests
    <2>3. Call(Begun, "signin", NoTicket) \in Frames
          /\ FrameInv(Call(Begun, "signin", NoTicket))
          /\ Call(Begun, "signin", NoTicket).pc = "signin"
      BY <1>1, <2>2, CallFacts, CallInv, NoTicketFacts
    <2> QED
      BY <2>1, <2>2, <2>3, TaskKeepsInvQuietly
  <1> QED
    BY <1>2, <1>3

LEMMA AnswersKeepInv ==
    ASSUME Inv, NEW t \in Tasks, Answered(t), UNCHANGED account
    PROVE  Inv'
  BY EndKeepsInv DEF Answered, Ends

\* What the server does with a call touches its reply only.
LEMMA ReplyKeepsInv ==
    ASSUME Inv, NEW t \in Tasks, UNCHANGED <<account, ticket, age>>,
           NEW g \in Frames, frame' = [frame EXCEPT ![t] = g],
           g.pc = frame[t].pc, g.sent = frame[t].sent, g.late = frame[t].late,
           FrameInv(g)
    PROVE  Inv'
  <1>1. g.pc \in PastRefresh => age <= Span(g)
    BY DEF Inv, ClockInv, Span
  <1> QED
    BY <1>1, TaskKeepsInvQuietly

LEMMA ServingKeepsInv ==
    ASSUME Inv, NEW t \in Tasks, Serve(t), UNCHANGED account
    PROVE  Inv'
  <1> DEFINE f == frame[t]
  <1>1. f \in Frames /\ f.pc \in TicketCalls /\ f.pc \notin Requests
    BY DEF Inv, TypeOK, Serve, TicketCalls, FirstFactor, SecondFactor, Requests
  <1>2. UNCHANGED <<account, ticket, age>> /\ account \in Accounts
    BY DEF Serve, Inv, TypeOK
  <1>3. ASSUME NEW k \in Grants(f), Resume(t, [f EXCEPT !.reply = "ok", !.got = k])
        PROVE  Inv'
    <2>1. /\ k \in Tickets /\ k.age = 0 /\ k.kind \in {"half", "whole"}
          /\ k.kind = "half" => f.pc \in FirstFactor
      BY <1>1, <1>2, GrantFacts
    <2> DEFINE g == [f EXCEPT !.reply = "ok", !.got = k]
    <2>2. /\ g \in Frames /\ g.pc = f.pc /\ g.sent = f.sent /\ g.late = f.late
          /\ g.reply = "ok" /\ g.got = k
      BY <1>1, <2>1 DEF Frames, Records, Replies
    <2>3. frame' = [frame EXCEPT ![t] = g]
      BY <1>3
    <2> HIDE DEF g
    <2>4. FrameInv(g)
      BY <1>1, <2>1, <2>2 DEF FrameInv, Requests
    <2> QED
      BY <1>2, <2>2, <2>3, <2>4, ReplyKeepsInv
  <1>4. CASE Resume(t, [f EXCEPT !.reply = "refused"])
    <2> DEFINE g == [f EXCEPT !.reply = "refused"]
    <2>1. /\ g \in Frames /\ g.pc = f.pc /\ g.sent = f.sent /\ g.late = f.late
          /\ g.reply = "refused" /\ g.got = f.got
      BY <1>1 DEF Frames, Records, Replies
    <2>2. frame' = [frame EXCEPT ![t] = g]
      BY <1>4
    <2> HIDE DEF g
    <2>3. FrameInv(f)
      BY DEF Inv
    <2>4. FrameInv(g)
      BY <1>1, <2>1, <2>3 DEF FrameInv, Requests
    <2> QED
      BY <1>2, <2>1, <2>2, <2>4, ReplyKeepsInv
  <1> QED
    BY <1>3, <1>4 DEF Serve

LEMMA ServingRequestKeepsInv ==
    ASSUME Inv, NEW t \in Tasks, ServeRequest(t), UNCHANGED account
    PROVE  Inv'
  <1> DEFINE f == frame[t]
  <1> DEFINE r == IF Valid(f.sent) THEN "ok" ELSE "refused"
  <1> DEFINE g == [f EXCEPT !.reply = r]
  <1>1. f \in Frames /\ f.pc \in Requests /\ f.pc \notin TicketCalls /\ FrameInv(f)
    BY DEF Inv, TypeOK, ServeRequest, TicketCalls, FirstFactor, SecondFactor, Requests
  <1>2. r \in Replies /\ (r = "refused" => ~Valid(f.sent))
    BY DEF Replies
  <1>3. frame' = [frame EXCEPT ![t] = g] /\ UNCHANGED <<account, ticket, age>>
    BY DEF ServeRequest
  <1> HIDE DEF r
  <1>4. /\ g \in Frames /\ g.pc = f.pc /\ g.sent = f.sent /\ g.late = f.late
        /\ g.reply = r /\ g.got = f.got
    BY <1>1, <1>2 DEF Frames, Records
  <1> HIDE DEF g
  <1>5. FrameInv(g)
    BY <1>1, <1>2, <1>4 DEF FrameInv, Span
  <1> QED
    BY <1>3, <1>4, <1>5, ReplyKeepsInv

\* A dropped ticket keeps its kind and its age.
LEMMA DropKeepsInv ==
    ASSUME Inv, Drop, UNCHANGED account
    PROVE  Inv'
  <1>1. ASSUME NEW t \in Tasks
        PROVE  /\ frame'[t] \in Frames
               /\ FrameInv(frame'[t])
               /\ frame'[t].pc \in PastRefresh => age <= Span(frame'[t])
    <2> DEFINE f == frame[t]
    <2> DEFINE g == [f EXCEPT !.sent = Dropped(@), !.got = Dropped(@)]
    <2>1. frame'[t] = g
      BY DEF Drop
    <2>2. f \in Frames /\ f.sent \in Tickets /\ f.got \in Tickets
      BY DEF Inv, TypeOK, Frames, Records
    <2>3. FrameInv(f) /\ ClockInv(f)
      BY DEF Inv
    <2>4. /\ Dropped(f.sent) \in Tickets /\ Dropped(f.got) \in Tickets
          /\ f.sent = NoTicket => Dropped(f.sent) = NoTicket
          /\ Dropped(f.sent).kind = f.sent.kind /\ Dropped(f.sent).age = f.sent.age
          /\ Dropped(f.got).kind = f.got.kind /\ Dropped(f.got).age = f.got.age
          /\ ~Valid(f.sent) => ~Valid(Dropped(f.sent))
      BY <2>2, DroppingFacts, NoTicketFacts
    <2>5. /\ g \in Records /\ g.pc = f.pc /\ g.reply = f.reply /\ g.late = f.late
          /\ g.sent = Dropped(f.sent) /\ g.got = Dropped(f.got)
      BY <2>2, <2>4 DEF Frames, Records
    <2> HIDE DEF g
    <2>6. g \in Frames
      BY <2>2, <2>4, <2>5 DEF Frames
    <2>7. FrameInv(g)
      BY <2>3, <2>4, <2>5 DEF FrameInv, Span
    <2>8. g.pc \in PastRefresh => age <= Span(g)
      BY <2>3, <2>5 DEF ClockInv, Span
    <2> QED
      BY <2>1, <2>6, <2>7, <2>8
  <1>2. frame' \in [Tasks -> Frames]
    BY <1>1 DEF Drop
  <1>3. ticket' \in Tickets /\ age' \in Ages /\ TicketNotOlder'
    BY DroppingFacts DEF Inv, TypeOK, Drop, TicketNotOlder
  <1>4. \A t \in Tasks : FrameInv(frame'[t]) /\ ClockInv(frame[t])'
    BY <1>1 DEF ClockInv, Drop
  <1> QED
    BY <1>2, <1>3, <1>4 DEF Inv, TypeOK, FrameInv, Valid

\* An hour ages the ticket, what is on its way and what the client thinks of
\* it alike, and no request sees a second one.
LEMMA HourKeepsInv ==
    ASSUME Inv, Hour, UNCHANGED account
    PROVE  Inv'
  <1>0. age \in 0..2 /\ age' \in 0..2 /\ age <= age' /\ age' <= age + 1
    <2>1. age \in 0..2
      BY DEF Inv, TypeOK, Ages
    <2>2. age' = Older(age)
      BY DEF Hour
    <2> QED
      BY <2>1, <2>2 DEF Older
  <1>1. ASSUME NEW t \in Tasks
        PROVE  /\ frame'[t] \in Frames
               /\ FrameInv(frame'[t])
               /\ frame'[t].pc \in PastRefresh => age' <= Span(frame'[t])
    <2> DEFINE f == frame[t]
    <2>2. f \in Frames /\ f.sent \in Tickets /\ f.got \in Tickets
      BY DEF Inv, TypeOK, Frames, Records
    <2>3. FrameInv(f) /\ ClockInv(f) /\ ~f.late /\ f.got.kind = "none"
      BY DEF Inv, Hour
    <2>4. CASE f.pc = "idle"
      <3>1. frame'[t] = f /\ "idle" \notin PastRefresh
        BY <2>4 DEF Hour, PastRefresh, Requests
      <3> QED
        BY <2>2, <2>3, <2>4, <3>1
    <2>5. CASE f.pc # "idle"
      <3> DEFINE g == [f EXCEPT !.sent = Aged(@), !.late = TRUE]
      <3>1. frame'[t] = g
        BY <2>5 DEF Hour
      <3>2. /\ Aged(f.sent) \in Tickets /\ Aged(f.sent).kind = f.sent.kind
            /\ f.sent = NoTicket => Aged(f.sent) = NoTicket
            /\ Aged(f.sent).age <= f.sent.age + 1
            /\ ~Valid(f.sent) => ~Valid(Aged(f.sent))
            /\ f.sent.age \in 0..2 /\ Aged(f.sent).age \in 0..2
        BY <2>2, AgingFacts, NoTicketFacts DEF Tickets, Ages
      <3>3. /\ g \in Records /\ g.pc = f.pc /\ g.reply = f.reply /\ g.late = TRUE
            /\ g.sent = Aged(f.sent) /\ g.got = f.got
        BY <2>2, <3>2 DEF Frames, Records
      <3> HIDE DEF g
      <3>4. g \in Frames
        BY <2>2, <3>2, <3>3 DEF Frames
      <3>5. Span(f) = 0 /\ Span(g) = 1
        BY <2>3, <3>3 DEF Span
      <3>6. FrameInv(g)
        BY <2>3, <3>2, <3>3, <3>5 DEF FrameInv
      <3>7. g.pc \in PastRefresh => age' <= Span(g)
        BY <1>0, <2>3, <3>3, <3>5 DEF ClockInv
      <3> QED
        BY <3>1, <3>4, <3>6, <3>7
    <2> QED
      BY <2>4, <2>5
  <1>2. frame' \in [Tasks -> Frames]
    BY <1>1 DEF Hour
  <1>3. ticket' \in Tickets /\ age' \in Ages
    BY <1>0, AgingFacts DEF Inv, TypeOK, Hour, Ages
  <1>4. TicketNotOlder'
    <2>1. ticket \in Tickets /\ ticket' = Aged(ticket) /\ age' = Older(age)
      BY DEF Inv, TypeOK, Hour
    <2>2. CASE ticket.kind = "whole"
      <3>1. ticket'.age = Older(ticket.age)
        BY <2>1, <2>2 DEF Aged, Tickets
      <3>2. ticket.age <= age /\ ticket.age \in 0..2
        BY <2>1, <2>2 DEF Inv, TicketNotOlder, Tickets, Ages
      <3> QED
        BY <1>0, <2>1, <3>1, <3>2 DEF TicketNotOlder, Older
    <2>3. CASE ticket.kind # "whole"
      BY <2>1, <2>3, AgingFacts DEF TicketNotOlder
    <2> QED
      BY <2>2, <2>3
  <1>5. \A t \in Tasks : FrameInv(frame'[t]) /\ ClockInv(frame[t])'
    BY <1>1 DEF ClockInv
  <1> QED
    BY <1>2, <1>3, <1>4, <1>5 DEF Inv, TypeOK, FrameInv, Valid

LEMMA NextInv == Inv /\ [Next]_vars => Inv'
  <1> SUFFICES ASSUME Inv, [Next]_vars PROVE Inv'
    OBVIOUS
  <1>1. CASE UNCHANGED vars
    BY <1>1 DEF vars, Inv, TypeOK, TicketNotOlder, ClockInv, FrameInv, Valid
  <1>2. ASSUME NEW t \in Tasks, StartRequest(t) \/ Connect(t) \/ TaskStep(t),
               UNCHANGED account
        PROVE  Inv'
    BY <1>2, BeginningsKeepInv, GrantedKeepsInv, RefusalsKeepInv, AnswersKeepInv,
       LossesKeepInv, MovedKeepsInv, ServingKeepsInv, ServingRequestKeepsInv
       DEF TaskStep
  <1> QED
    BY <1>1, <1>2, DropKeepsInv, HourKeepsInv DEF Next

LEMMA AlwaysInv == Spec => []Inv
  BY InitInv, NextInv, PTL DEF Spec

\* The client's state keeps its types for any number of tasks and any account.
THEOREM TicketsTypeCorrect == Spec => []TypeOK
  <1>1. Inv => TypeOK
    BY DEF Inv
  <1> QED
    BY <1>1, AlwaysInv, PTL

\* check_and_refresh(): no task sends a request with a ticket about to run
\* out, whatever other tasks renew, store or lose meanwhile.
THEOREM NeverExpired == Spec => []NeverSendsExpired
  <1>1. Inv => NeverSendsExpired
    BY DEF Inv, FrameInv, NeverSendsExpired, Span, TypeOK, Frames, Records,
           Tickets, Ages
  <1> QED
    BY <1>1, AlwaysInv, PTL

\* request(): the repeat after a login is refused only where the ticket of
\* that very login has been dropped.
THEOREM RepeatRefused == Spec => []RepeatIsRefusedOnlyIfDropped
  <1>1. ASSUME Inv, NEW t \in Tasks,
               frame[t].pc = "repeat", frame[t].reply = "refused"
        PROVE  frame[t].sent.dead
    <2> DEFINE f == frame[t]
    <2>1. FrameInv(f) /\ f.sent \in Tickets /\ f.sent.age \in 0..2
      BY <1>1 DEF Inv, TypeOK, Frames, Records, Tickets, Ages
    <2>2. f.sent.kind = "whole" /\ ~Valid(f.sent)
      BY <1>1, <2>1 DEF FrameInv
    <2>3. f.sent.age < 2
      BY <1>1, <2>1, <2>2 DEF FrameInv, Span, Requests
    <2> QED
      BY <2>2, <2>3 DEF Valid
  <1>2. Inv => RepeatIsRefusedOnlyIfDropped
    BY <1>1 DEF RepeatIsRefusedOnlyIfDropped
  <1> QED
    BY <1>2, AlwaysInv, PTL

-------------------------------------------------------------------------------
(* Where the password is all there is.                                     *)

\* A call that is no second factor starts with nothing against the password.
LEMMA CallPasswordOnly ==
    ASSUME NEW f \in Frames, PasswordOnly(f), NEW pc \in PCs, NEW k \in Tickets,
           pc \in FirstFactor => k = NoTicket, pc \notin SecondFactor
    PROVE  PasswordOnly(Call(f, pc, k))
  BY CallFacts, NoTicketFacts DEF PasswordOnly

LEMMA EndedPasswordOnly ==
    ASSUME NEW how \in Ends \ {"denied"}
    PROVE  PasswordOnly(Ended(how))
  BY EndedFacts, NoTicketFacts DEF PasswordOnly, SecondFactor, FirstFactor

LEMMA RefreshPasswordOnly ==
    ASSUME TypeOK, NEW f \in Frames, PasswordOnly(f)
    PROVE  PasswordOnly(Refresh(f, ticket, age))
  <1>1. PICK pc \in {"renew", "request"} : Refresh(f, ticket, age) = Call(f, pc, ticket)
    BY DEF Refresh
  <1>2. pc \in PCs /\ pc \notin FirstFactor /\ pc \notin SecondFactor
    BY DEF PCs, TicketCalls, Requests, FirstFactor, SecondFactor
  <1> QED
    BY <1>1, <1>2, CallPasswordOnly DEF TypeOK

\* No step of a task sets anything against the right password: a first factor
\* is granted a whole ticket, so none is refused and no second one is asked.
LEMMA TaskPasswordOnly ==
    ASSUME Inv, account.passwordRight, ~account.twoFactor, NEW t \in Tasks,
           StartRequest(t) \/ Connect(t) \/ TaskStep(t), PasswordOnly(frame[t])
    PROVE  \E g : frame' = [frame EXCEPT ![t] = g] /\ PasswordOnly(g)
  <1> DEFINE f == frame[t]
  <1> USE NoTicketFacts
  <1>1. /\ f \in Frames /\ f.sent \in Tickets /\ f.got \in Tickets /\ ticket \in Tickets
        /\ TypeOK /\ FrameInv(f) /\ account \in Accounts
    BY DEF Inv, TypeOK, Frames, Records
  <1>2. Begun \in Frames /\ PasswordOnly(Begun)
    BY EndedFacts, EndedPasswordOnly DEF Begun, Ends
  <1>3. ASSUME NEW pc \in {"signin", "login", "relogin", "request", "repeat", "moved",
                           "lost renewal", "lost request"}
        PROVE  pc \in PCs /\ pc \notin SecondFactor
               /\ (pc \in {"request", "repeat", "moved", "lost renewal", "lost request"}
                     => pc \notin FirstFactor)
    BY DEF PCs, TicketCalls, Requests, Failovers, FirstFactor, SecondFactor
  <1>4. CASE StartRequest(t)
    <2>1. frame' = [frame EXCEPT ![t] = Refresh(Begun, ticket, age)]
      BY <1>4 DEF StartRequest
    <2> QED
      BY <1>1, <1>2, <2>1, RefreshPasswordOnly
  <1>5. CASE Connect(t)
    <2>1. frame' = [frame EXCEPT ![t] = Call(Begun, "signin", NoTicket)]
      BY <1>5 DEF Connect
    <2> QED
      BY <1>2, <1>3, <2>1, CallPasswordOnly
  <1>6. CASE Granted(t)
    <2>1. frame' = [frame EXCEPT ![t] = Resumed(f, f.got)]
      BY <1>6 DEF Granted, PasswordOnly
    <2>2. PICK pc \in {"request", "repeat"} : Resumed(f, f.got) = Call(f, pc, f.got)
      BY DEF Resumed, RepeatWith
    <2> QED
      BY <1>1, <1>3, <2>1, <2>2, CallPasswordOnly
  <1>7. CASE Denied(t)
    <2>1. f.pc = "renew"
      BY <1>7 DEF Denied, PasswordOnly, TicketCalls
    <2>2. frame' = [frame EXCEPT ![t] = Call(f, "login", NoTicket)]
      BY <1>7, <2>1 DEF Denied
    <2> QED
      BY <1>1, <1>3, <2>2, CallPasswordOnly
  <1>8. CASE Answered(t)
    BY <1>8, EndedPasswordOnly DEF Answered, Ends
  <1>9. CASE Refused(t)
    <2>1. \/ frame' = [frame EXCEPT ![t] = Call(f, "relogin", NoTicket)]
          \/ frame' = [frame EXCEPT ![t] = Ended("refused")]
      BY <1>9 DEF Refused
    <2> QED
      BY <1>1, <1>3, <2>1, CallPasswordOnly, EndedPasswordOnly DEF Ends
  <1>10. CASE Lost(t) \/ NotMoved(t)
    <2>1. \/ frame' = [frame EXCEPT ![t] = Call(f, "lost renewal", NoTicket)]
          \/ frame' = [frame EXCEPT ![t] = Call(f, "lost request", NoTicket)]
          \/ frame' = [frame EXCEPT ![t] = Ended("lost")]
      BY <1>10 DEF Lost, NotMoved
    <2> QED
      BY <1>1, <1>3, <2>1, CallPasswordOnly, EndedPasswordOnly DEF Ends
  <1>11. CASE Moved(t) /\ f.pc = "lost renewal"
    <2> DEFINE h == [f EXCEPT !.again = TRUE]
    <2>1. h \in Frames /\ PasswordOnly(h)
      BY <1>1, <1>11 DEF Frames, Records, FirstFactor, PasswordOnly
    <2>2. frame' = [frame EXCEPT ![t] = Refresh(h, ticket, age)]
      BY <1>11 DEF Moved
    <2> HIDE DEF h
    <2> QED
      BY <1>1, <2>1, <2>2, RefreshPasswordOnly
  <1>12. CASE Moved(t) /\ f.pc # "lost renewal"
    <2>1. frame' = [frame EXCEPT ![t] = Call(f, "moved", ticket)]
      BY <1>12 DEF Moved
    <2> QED
      BY <1>1, <1>3, <2>1, CallPasswordOnly
  <1>13. CASE Serve(t)
    <2>1. f.pc \in TicketCalls /\ f.pc \notin SecondFactor
      BY <1>13 DEF Serve, PasswordOnly
    <2>2. ASSUME NEW k \in Grants(f), Resume(t, [f EXCEPT !.reply = "ok", !.got = k])
          PROVE  \E g : frame' = [frame EXCEPT ![t] = g] /\ PasswordOnly(g)
      <3> DEFINE g == [f EXCEPT !.reply = "ok", !.got = k]
      <3>1. k.kind # "half"
        BY <1>1, <2>1, GrantFacts
      <3>2. g.pc = f.pc /\ g.reply = "ok" /\ g.got = k /\ g.last = f.last
        BY <1>1 DEF Frames, Records
      <3>3. frame' = [frame EXCEPT ![t] = g]
        BY <2>2
      <3> HIDE DEF g
      <3> QED
        BY <3>1, <3>2, <3>3 DEF PasswordOnly
    <2>3. ASSUME Grants(f) = {}, Resume(t, [f EXCEPT !.reply = "refused"])
          PROVE  \E g : frame' = [frame EXCEPT ![t] = g] /\ PasswordOnly(g)
      <3> DEFINE g == [f EXCEPT !.reply = "refused"]
      <3>1. f.pc \notin FirstFactor
        BY <1>1, <2>3, PasswordGrants
      <3>2. g.pc = f.pc /\ g.got = f.got /\ g.last = f.last
        BY <1>1 DEF Frames, Records
      <3>3. frame' = [frame EXCEPT ![t] = g]
        BY <2>3
      <3> HIDE DEF g
      <3> QED
        BY <3>1, <3>2, <3>3 DEF PasswordOnly
    <2> QED
      BY <1>13, <2>1, <2>2, <2>3 DEF Serve
  <1>14. CASE ServeRequest(t)
    <2> DEFINE r == IF Valid(f.sent) THEN "ok" ELSE "refused"
    <2> DEFINE g == [f EXCEPT !.reply = r]
    <2>1. frame' = [frame EXCEPT ![t] = g] /\ f.pc \notin FirstFactor
      BY <1>14 DEF ServeRequest, Requests, FirstFactor
    <2> HIDE DEF r
    <2>2. g.pc = f.pc /\ g.got = f.got /\ g.last = f.last
      BY <1>1 DEF Frames, Records
    <2> HIDE DEF g
    <2> QED
      BY <2>1, <2>2 DEF PasswordOnly
  <1> QED
    BY <1>4, <1>5, <1>6, <1>7, <1>8, <1>9, <1>10, <1>11, <1>12, <1>13, <1>14
       DEF TaskStep

LEMMA PasswordInvInit == Init => PasswordInv
  <1>1. "none" \in Ends \ {"denied"}
    BY DEF Ends
  <1> QED
    BY <1>1, EndedPasswordOnly DEF Init, PasswordInv

LEMMA PasswordInvNext == Inv /\ PasswordInv /\ [Next]_vars => PasswordInv'
  <1> SUFFICES ASSUME Inv, PasswordInv, [Next]_vars,
                      account'.passwordRight, ~account'.twoFactor, NEW u \in Tasks
               PROVE  PasswordOnly(frame'[u])
    BY DEF PasswordInv, PasswordOnly
  <1>1. account.passwordRight /\ ~account.twoFactor
    BY DEF Next, vars
  <1>2. \A t \in Tasks : PasswordOnly(frame[t]) /\ frame[t] \in Frames
    BY <1>1 DEF PasswordInv, Inv, TypeOK
  <1>3. CASE UNCHANGED vars
    BY <1>2, <1>3 DEF vars
  <1>4. ASSUME NEW t \in Tasks, StartRequest(t) \/ Connect(t) \/ TaskStep(t)
        PROVE  PasswordOnly(frame'[u])
    <2>1. PICK g : frame' = [frame EXCEPT ![t] = g] /\ PasswordOnly(g)
      BY <1>1, <1>2, <1>4, TaskPasswordOnly
    <2> QED
      BY <1>2, <2>1 DEF Inv, TypeOK
  <1>5. CASE Drop
    <2> DEFINE g == [frame[u] EXCEPT !.sent = Dropped(@), !.got = Dropped(@)]
    <2>1. frame'[u] = g
      BY <1>5 DEF Drop
    <2>2. /\ g.pc = frame[u].pc /\ g.reply = frame[u].reply /\ g.last = frame[u].last
          /\ g.got = Dropped(frame[u].got) /\ frame[u].got \in Tickets
      BY <1>2 DEF Frames, Records
    <2> HIDE DEF g
    <2> QED
      BY <1>2, <2>1, <2>2, DroppingFacts DEF PasswordOnly
  <1>6. CASE Hour
    <2> DEFINE g == [frame[u] EXCEPT !.sent = Aged(@), !.late = TRUE]
    <2>1. frame'[u] \in {frame[u], g}
      BY <1>6 DEF Hour
    <2>2. /\ g.pc = frame[u].pc /\ g.reply = frame[u].reply /\ g.last = frame[u].last
          /\ g.got = frame[u].got
      BY <1>2 DEF Frames, Records
    <2> HIDE DEF g
    <2> QED
      BY <1>2, <2>1, <2>2 DEF PasswordOnly
  <1> QED
    BY <1>3, <1>4, <1>5, <1>6 DEF Next

\* check_and_refresh(), relogin(): where the server accepts the stored
\* password and asks for nothing else, ProxmoxAuthError is never raised, for
\* any number of tasks that renew and log in over each other, whatever is
\* lost, dropped or run out.
THEOREM PasswordGetsIn == Spec => []PasswordIsEnough
  <1>1. PasswordInv => PasswordIsEnough
    BY DEF PasswordInv, PasswordOnly, PasswordIsEnough
  <1> QED
    BY <1>1, AlwaysInv, PasswordInvInit, PasswordInvNext, PTL DEF Spec
===============================================================================
