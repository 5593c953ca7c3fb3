-------------------------- MODULE EscalationProofs --------------------------
(***************************************************************************)
(* For any number of askers, calls and pollers and any finite set of       *)
(* channels: Escalation keeps its types, its safety properties and         *)
(* OperatorPromise.                                                        *)
(*                                                                         *)
(* The argument is that a verdict stays justified while its call waits to  *)
(* write it: what the operator sent is never unsent, confirmed channels    *)
(* only add up, time does not run back.  The guard of the write (the       *)
(* status) takes care of the rest.                                         *)
(***************************************************************************)
EXTENDS EscalationProperties, FiniteSetTheorems, TLAPS

-----------------------------------------------------------------------------
\* How many channels an approval takes.
Quota == IF needsTwo THEN 2 ELSE 1

\* Every verdict that waits to be written is justified already.
VerdictsJustified ==
  \A h \in Handlers :
    LET call == inbound[h] IN
    /\ call.step # "idle" => status # "NONE"
    /\ call.step \in {"confirm", "approve"} => call.via \in consent \ capped
    /\ call.step = "approve" => Cardinality(confirmed \cup {call.via}) >= Quota
    /\ call.step = "expire" => clock > Deadline

\* What is confirmed was approved on that channel, unless it was a denial.
ConfirmedByConsent ==
  /\ status # "DENIED" => confirmed \subseteq consent \ capped
  /\ status = "APPROVED" => Cardinality(confirmed) >= Quota

\* A poll that is about to expire the row found it past its deadline.
PollsJustified == \A q \in Pollers : polling[q] = "expire" => status # "NONE" /\ clock > Deadline

IInv ==
  /\ TypeOK
  /\ status = "NONE" => owner = Nobody
  /\ VerdictsJustified
  /\ ConfirmedByConsent
  /\ PollsJustified
  /\ HeardMatchesRow

-----------------------------------------------------------------------------
\* Adding a channel never takes the number of them below what it was.
LEMMA MoreChannels ==
  ASSUME NEW S, NEW T, S \subseteq T, T \subseteq Channels
  PROVE  /\ Cardinality(S) \in Nat /\ Cardinality(T) \in Nat
         /\ Cardinality(S) <= Cardinality(T)
<1>1. IsFiniteSet(T)
  BY ChannelsAssumption, FS_Subset
<1> QED BY <1>1, FS_Subset, FS_CardinalityType

\* One channel is one.
LEMMA AtLeastOne ==
  ASSUME NEW S, S \subseteq Channels, NEW ch \in Channels
  PROVE  Cardinality(S \cup {ch}) \in Nat /\ Cardinality(S \cup {ch}) >= 1
<1>1. Cardinality({ch}) = 1
  BY FS_Singleton
<1>2. /\ {ch} \subseteq S \cup {ch}
      /\ S \cup {ch} \subseteq Channels
  OBVIOUS
<1> QED BY <1>1, <1>2, MoreChannels

\* The calls a handler can be in, by their steps.
LEMMA CallShape ==
  ASSUME NEW call \in Calls
  PROVE  /\ call.step \in {"idle", "expire", "deny", "confirm", "approve"}
         /\ call.step # "idle" => call.via \in Channels
         /\ call.step = "idle" => call = Idle
BY DEF Calls, Idle

\* A verdict is no verdict, or a call that waits to be written.
LEMMA VerdictShape ==
  ASSUME NEW m \in Messages, NEW late \in BOOLEAN
  PROVE  Verdict(m, late) \in {"idle", "expire", "deny", "confirm", "approve"}
BY DEF Verdict, Messages

\* A call that is answered or begins a step is a call again.
LEMMA InboundType ==
  ASSUME inbound \in [Handlers -> Calls], NEW h \in Handlers, NEW call \in Calls
  PROVE  [inbound EXCEPT ![h] = call] \in [Handlers -> Calls]
OBVIOUS

LEMMA IdleIsCall == Idle \in Calls
BY DEF Calls

\* Every write of a verdict writes a status and a channel of the row's types.
LEMMA ConcludeType ==
  ASSUME TypeOK, NEW h \in Handlers, NEW step, NEW to \in Open \cup Decided,
         NEW from, NEW channels \in SUBSET Channels,
         Conclude(h, step, to, from, channels)
  PROVE  TypeOK'
<1>1. inbound' \in [Handlers -> Calls]
  BY InboundType, IdleIsCall DEF Conclude, TypeOK
<1>2. /\ status' \in {"NONE"} \cup Open \cup Decided
      /\ confirmed' \subseteq Channels
  BY DEF Conclude, Transition, TypeOK
<1> QED BY <1>1, <1>2 DEF Conclude, Transition, askVars, pollVars, TypeOK

-----------------------------------------------------------------------------
\* No step writes a value of another type.
LEMMA TypeNext == TypeOK /\ [Next]_vars => TypeOK'
<1> SUFFICES ASSUME TypeOK, [Next]_vars PROVE TypeOK'
  OBVIOUS
<1>1. ASSUME NEW a \in Askers, FindPrior(a) PROVE TypeOK'
  BY <1>1 DEF FindPrior, rowVars, callVars, pollVars, TypeOK
<1>2. ASSUME NEW a \in Askers, Create(a) PROVE TypeOK'
  BY <1>2 DEF Create, callVars, pollVars, TypeOK, Open, Decided
<1>3. ASSUME NEW a \in Askers, EndFanOut(a) PROVE TypeOK'
  BY <1>3 DEF EndFanOut, Transition, rowVars, callVars, pollVars, TypeOK, Open, Decided
<1>4. ASSUME NEW a \in Askers, ScheduleTimeout(a) PROVE TypeOK'
  BY <1>4 DEF ScheduleTimeout, rowVars, callVars, pollVars, TypeOK
<1>5. ASSUME NEW a \in Askers, JobFires(a) PROVE TypeOK'
  BY <1>5 DEF JobFires, Expire, Transition, rowVars, callVars, pollVars, TypeOK, Open, Decided
<1>6. ASSUME NEW a \in Askers, NEW ch \in Reachable, Notify(a, ch) PROVE TypeOK'
  BY <1>6 DEF Notify, rowVars, callVars, pollVars, TypeOK
<1>7. ASSUME NEW h \in Handlers, NEW m \in Messages, NEW late \in BOOLEAN, Receive(h, m, late)
      PROVE  TypeOK'
  <2> DEFINE call == IF Verdict(m, late) = "idle" THEN Idle
                     ELSE [step |-> Verdict(m, late), via |-> m.via]
  <2>1. call \in Calls
    BY VerdictShape, IdleIsCall DEF Calls, Messages
  <2>2. inbound' \in [Handlers -> Calls]
    BY <1>7, <2>1, InboundType DEF Receive, TypeOK
  <2>3. consent' \subseteq Channels
    BY <1>7 DEF Receive, Messages, TypeOK
  <2> QED BY <1>7, <2>2, <2>3 DEF Receive, rowVars, askVars, pollVars, TypeOK
<1>8. ASSUME NEW h \in Handlers, ExpireLate(h) PROVE TypeOK'
  BY <1>8, ConcludeType DEF ExpireLate, Decided
<1>9. ASSUME NEW h \in Handlers, Deny(h) PROVE TypeOK'
  <2>1. {inbound[h].via} \subseteq Channels
    BY <1>9, CallShape DEF Deny, Conclude, TypeOK
  <2> QED BY <1>9, <2>1, ConcludeType DEF Deny, Decided
<1>10. ASSUME NEW h \in Handlers, Approve(h) PROVE TypeOK'
  <2>1. {inbound[h].via} \subseteq Channels
    BY <1>10, CallShape DEF Approve, Conclude, TypeOK
  <2> QED BY <1>10, <2>1, ConcludeType DEF Approve, Decided
<1>11. ASSUME NEW h \in Handlers, ConfirmFirst(h) PROVE TypeOK'
  <2>1. {inbound[h].via} \subseteq Channels
    BY <1>11, CallShape DEF ConfirmFirst, Conclude, TypeOK
  <2> QED BY <1>11, <2>1, ConcludeType DEF ConfirmFirst, Open
<1>12. ASSUME NEW q \in Pollers, Poll(q) PROVE TypeOK'
  BY <1>12 DEF Poll, Tell, Standing, Relay, View, rowVars, askVars, callVars, TypeOK,
     Open, Decided
<1>13. ASSUME NEW q \in Pollers, PollExpires(q) PROVE TypeOK'
  BY <1>13 DEF PollExpires, Transition, Tell, Relay, View, askVars, callVars, TypeOK,
     Open, Decided
<1>14. ASSUME JobsLost PROVE TypeOK'
  BY <1>14 DEF JobsLost, rowVars, callVars, pollVars, TypeOK
<1>15. ASSUME Sweep PROVE TypeOK'
  BY <1>15 DEF Sweep, Expire, Transition, askVars, callVars, pollVars, TypeOK, Open, Decided
<1>16. ASSUME Tick PROVE TypeOK'
  BY <1>16 DEF Tick, rowVars, askVars, callVars, pollVars, TypeOK
<1>17. ASSUME UNCHANGED vars PROVE TypeOK'
  BY <1>17 DEF vars, rowVars, askVars, callVars, pollVars, TypeOK
<1> QED
  BY <1>1, <1>2, <1>3, <1>4, <1>5, <1>6, <1>7, <1>8, <1>9, <1>10, <1>11, <1>12, <1>13,
     <1>14, <1>15, <1>16, <1>17 DEF Next

-----------------------------------------------------------------------------
\* What every step does to what the invariant speaks of: decided rows stay,
\* open ones may be decided, approvals add up, time goes on.
Growing ==
  /\ status' # status => status \notin Decided /\ status' # "NONE"
  /\ confirmed \subseteq confirmed' /\ consent \subseteq consent'
  /\ needsTwo' = needsTwo /\ capped' = capped
  /\ clock' >= clock

LEMMA StepGrows == TypeOK /\ [Next]_vars => Growing
<1> SUFFICES ASSUME TypeOK, [Next]_vars PROVE Growing
  OBVIOUS
<1> USE DEF Growing
<1>1. ASSUME NEW a \in Askers, FindPrior(a) \/ ScheduleTimeout(a) PROVE Growing
  BY <1>1 DEF FindPrior, ScheduleTimeout, rowVars, callVars, pollVars, TypeOK
<1>2. ASSUME NEW a \in Askers, Create(a) PROVE Growing
  BY <1>2 DEF Create, callVars, pollVars, TypeOK, Decided
<1>3. ASSUME NEW a \in Askers, EndFanOut(a) PROVE Growing
  BY <1>3 DEF EndFanOut, Transition, rowVars, callVars, pollVars, TypeOK, Decided
<1>4. ASSUME NEW a \in Askers, JobFires(a) PROVE Growing
  BY <1>4 DEF JobFires, Expire, Transition, rowVars, callVars, pollVars, TypeOK, Open, Decided
<1>5. ASSUME NEW a \in Askers, NEW ch \in Reachable, Notify(a, ch) PROVE Growing
  BY <1>5 DEF Notify, rowVars, callVars, pollVars, TypeOK
<1>6. ASSUME NEW h \in Handlers, NEW m \in Messages, NEW late \in BOOLEAN, Receive(h, m, late)
      PROVE  Growing
  BY <1>6 DEF Receive, rowVars, askVars, pollVars, TypeOK
<1>7. ASSUME NEW h \in Handlers, ExpireLate(h) \/ Deny(h) \/ Approve(h) \/ ConfirmFirst(h)
      PROVE  Growing
  BY <1>7 DEF ExpireLate, Deny, Approve, ConfirmFirst, Conclude, Transition, askVars,
     pollVars, TypeOK, Open, Decided
<1>8. ASSUME NEW q \in Pollers, Poll(q) PROVE Growing
  BY <1>8 DEF Poll, rowVars, askVars, callVars, TypeOK
<1>9. ASSUME NEW q \in Pollers, PollExpires(q) PROVE Growing
  BY <1>9 DEF PollExpires, Transition, askVars, callVars, TypeOK, Open, Decided
<1>10. ASSUME JobsLost \/ Tick \/ UNCHANGED vars PROVE Growing
  BY <1>10 DEF JobsLost, Tick, vars, rowVars, askVars, callVars, pollVars, TypeOK
<1>11. ASSUME Sweep PROVE Growing
  BY <1>11 DEF Sweep, Expire, Transition, askVars, callVars, pollVars, TypeOK, Open, Decided
<1> QED
  BY <1>1, <1>2, <1>3, <1>4, <1>5, <1>6, <1>7, <1>8, <1>9, <1>10, <1>11 DEF Next

-----------------------------------------------------------------------------
\* A justified call stays justified while others step.
Justified(call) ==
  /\ call.step # "idle" => status # "NONE"
  /\ call.step \in {"confirm", "approve"} => call.via \in consent \ capped
  /\ call.step = "approve" => Cardinality(confirmed \cup {call.via}) >= Quota
  /\ call.step = "expire" => clock > Deadline

LEMMA JustificationLasts ==
  ASSUME TypeOK, TypeOK', Growing, NEW call \in Calls, Justified(call)
  PROVE  Justified(call)'
<1>1. status # "NONE" => status' # "NONE"
  BY DEF Growing
<1>2. call.step \in {"confirm", "approve"} => call.via \in consent' \ capped'
  BY DEF Growing, Justified
<1>3. ASSUME call.step = "approve" PROVE Cardinality(confirmed' \cup {call.via}) >= Quota'
  <2>1. /\ confirmed \cup {call.via} \subseteq confirmed' \cup {call.via}
        /\ confirmed' \cup {call.via} \subseteq Channels
    BY <1>3, CallShape DEF TypeOK, Growing
  <2>2. /\ Cardinality(confirmed \cup {call.via}) \in Nat
        /\ Cardinality(confirmed' \cup {call.via}) \in Nat
        /\ Cardinality(confirmed \cup {call.via}) <= Cardinality(confirmed' \cup {call.via})
    BY <2>1, MoreChannels
  <2>3. Cardinality(confirmed \cup {call.via}) >= Quota
    BY <1>3 DEF Justified
  <2>4. Quota' = Quota /\ Quota \in Nat
    BY DEF Growing, Quota
  <2> QED BY <2>2, <2>3, <2>4
<1>4. call.step = "expire" => clock' > Deadline
  BY DEF Growing, Justified, TypeOK, Deadline
<1>5. call' = call
  OBVIOUS
<1> QED BY <1>1, <1>2, <1>3, <1>4 DEF Justified

\* What a call makes of the row it reads is justified by that row.
LEMMA VerdictIsJustified ==
  ASSUME TypeOK, TypeOK', NEW h \in Handlers, NEW m \in Messages, NEW late \in BOOLEAN,
         Receive(h, m, late), Verdict(m, late) # "idle",
         NEW call, call = [step |-> Verdict(m, late), via |-> m.via]
  PROVE  Justified(call)'
<1> USE DEF Justified
<1>1. /\ UNCHANGED <<status, confirmed, needsTwo, capped, clock>>
      /\ status \in Open
  BY DEF Receive, rowVars, Verdict, Answerable
<1>2. status' # "NONE"
  BY <1>1 DEF Open
<1>3. call.step \in {"confirm", "approve"} => m.via \in consent' \ capped'
  BY <1>1, <1>2 DEF Receive, Verdict, Admitted, Messages
<1>4. ASSUME call.step = "approve" PROVE Cardinality(confirmed' \cup {m.via}) >= Quota'
  <2>1. CASE needsTwo
    BY <1>1, <1>4, <2>1 DEF Verdict, SecondChannel, Quota
  <2>2. CASE ~needsTwo
    BY <1>1, <2>2, AtLeastOne DEF Quota, TypeOK, Messages
  <2> QED BY <2>1, <2>2 DEF TypeOK
<1>5. call.step = "expire" => clock' > Deadline
  BY <1>1 DEF Verdict, Receive
<1> QED BY <1>2, <1>3, <1>4, <1>5

\* Every call is idle, as it was, or the one that has just read the row.
LEMMA CallSteps ==
  ASSUME TypeOK, [Next]_vars, NEW h \in Handlers
  PROVE  \/ inbound'[h] = inbound[h]
         \/ inbound'[h] = Idle
         \/ \E m \in Messages, late \in BOOLEAN :
              /\ Receive(h, m, late) /\ Verdict(m, late) # "idle"
              /\ inbound'[h] = [step |-> Verdict(m, late), via |-> m.via]
<1>1. ASSUME NEW g \in Handlers, NEW m \in Messages, NEW late \in BOOLEAN, Receive(g, m, late)
      PROVE  \/ inbound'[h] = inbound[h]
             \/ inbound'[h] = Idle
             \/ /\ Receive(h, m, late) /\ Verdict(m, late) # "idle"
                /\ inbound'[h] = [step |-> Verdict(m, late), via |-> m.via]
  <2>1. CASE g = h
    <3>1. inbound'[h] = IF Verdict(m, late) = "idle" THEN Idle
                        ELSE [step |-> Verdict(m, late), via |-> m.via]
      BY <1>1, <2>1 DEF Receive, TypeOK
    <3> QED BY <1>1, <2>1, <3>1
  <2>2. CASE g # h
    BY <1>1, <2>2 DEF Receive, TypeOK
  <2> QED BY <2>1, <2>2
<1>2. ASSUME NEW g \in Handlers, ExpireLate(g) \/ Deny(g) \/ Approve(g) \/ ConfirmFirst(g)
      PROVE  inbound'[h] = inbound[h] \/ inbound'[h] = Idle
  BY <1>2 DEF ExpireLate, Deny, Approve, ConfirmFirst, Conclude, TypeOK
<1>3. ASSUME ~ \E g \in Handlers :
               \/ \E m \in Messages, late \in BOOLEAN : Receive(g, m, late)
               \/ ExpireLate(g) \/ Deny(g) \/ Approve(g) \/ ConfirmFirst(g)
      PROVE  inbound' = inbound
  BY <1>3 DEF Next, FindPrior, Create, EndFanOut, ScheduleTimeout, JobFires, Notify, Poll,
     PollExpires, JobsLost, Sweep, Tick, vars, callVars
<1> QED BY <1>1, <1>2, <1>3

LEMMA VerdictsNext ==
  ASSUME IInv, [Next]_vars, TypeOK', Growing
  PROVE  VerdictsJustified'
<1> SUFFICES ASSUME NEW h \in Handlers PROVE Justified(inbound[h])'
  BY DEF VerdictsJustified, Justified
<1>1. Justified(inbound[h]) /\ inbound[h] \in Calls
  BY DEF IInv, VerdictsJustified, Justified, TypeOK
<1>2. CASE inbound'[h] = inbound[h]
  <2> DEFINE call == inbound[h]
  <2>1. \A c \in Calls : Justified(c) => Justified(c)'
    BY JustificationLasts DEF IInv
  <2> QED BY <1>1, <1>2, <2>1 DEF Justified
<1>3. CASE inbound'[h] = Idle
  BY <1>3 DEF Justified, Idle
<1>4. ASSUME NEW m \in Messages, NEW late \in BOOLEAN,
             Receive(h, m, late), Verdict(m, late) # "idle",
             inbound'[h] = [step |-> Verdict(m, late), via |-> m.via]
      PROVE  Justified(inbound[h])'
  <2>1. PICK call : call = [step |-> Verdict(m, late), via |-> m.via]
    OBVIOUS
  <2>2. Justified(call)'
    BY <1>4, <2>1, VerdictIsJustified DEF IInv
  <2> QED BY <1>4, <2>1, <2>2 DEF Justified
<1> QED BY <1>2, <1>3, <1>4, CallSteps DEF IInv

-----------------------------------------------------------------------------
\* The row changes by its creation, by the end of a fan-out nobody received, by
\* its deadline, or by a call that writes its verdict.
LEMMA RowSteps ==
  ASSUME TypeOK, [Next]_vars
  PROVE  \/ status' = status /\ confirmed' = confirmed /\ owner' = owner
         \/ status = "NONE" /\ status' = "PENDING" /\ confirmed' = confirmed /\ owner' \in Askers
         \/ status = "PENDING" /\ status' = "NOTIFY_FAILED" /\ confirmed' = confirmed
            /\ owner' = owner
         \/ status \in Open /\ status' = "EXPIRED" /\ confirmed' = confirmed /\ owner' = owner
         \/ \E h \in Handlers :
              /\ \/ Deny(h) \/ Approve(h)
                 \/ ConfirmFirst(h) /\ status # "AWAITING_SECOND_CHANNEL"
              /\ status \in Open /\ owner' = owner
<1> DEFINE Steps ==
      \/ status' = status /\ confirmed' = confirmed /\ owner' = owner
      \/ status = "NONE" /\ status' = "PENDING" /\ confirmed' = confirmed /\ owner' \in Askers
      \/ status = "PENDING" /\ status' = "NOTIFY_FAILED" /\ confirmed' = confirmed
         /\ owner' = owner
      \/ status \in Open /\ status' = "EXPIRED" /\ confirmed' = confirmed /\ owner' = owner
<1>1. ASSUME NEW a \in Askers, Create(a) PROVE Steps
  BY <1>1 DEF Create
<1>2. ASSUME NEW a \in Askers, EndFanOut(a) PROVE Steps
  BY <1>2 DEF EndFanOut, Transition, rowVars, TypeOK
<1>3. ASSUME NEW a \in Askers, JobFires(a) PROVE Steps
  BY <1>3 DEF JobFires, Expire, Transition, rowVars, TypeOK
<1>4. ASSUME NEW q \in Pollers, PollExpires(q) PROVE Steps
  BY <1>4 DEF PollExpires, Transition, TypeOK
<1>5. ASSUME Sweep PROVE Steps
  BY <1>5 DEF Sweep, Expire, Transition, TypeOK
<1>6. ASSUME NEW h \in Handlers, ExpireLate(h) PROVE Steps
  BY <1>6 DEF ExpireLate, Conclude, Transition, TypeOK
<1>7. ASSUME NEW h \in Handlers, Deny(h) \/ Approve(h) \/ ConfirmFirst(h)
      PROVE  \/ Steps
             \/ /\ \/ Deny(h) \/ Approve(h)
                   \/ ConfirmFirst(h) /\ status # "AWAITING_SECOND_CHANNEL"
                /\ status \in Open /\ owner' = owner
  BY <1>7 DEF Deny, Approve, ConfirmFirst, Conclude, Transition, Open
<1>8. ASSUME ~ \/ \E a \in Askers : Create(a) \/ EndFanOut(a) \/ JobFires(a)
               \/ \E q \in Pollers : PollExpires(q)
               \/ Sweep
               \/ \E h \in Handlers : ExpireLate(h) \/ Deny(h) \/ Approve(h) \/ ConfirmFirst(h)
      PROVE  Steps
  BY <1>8 DEF Next, FindPrior, ScheduleTimeout, Notify, Receive, Poll, JobsLost, Tick,
     vars, rowVars
<1> QED BY <1>1, <1>2, <1>3, <1>4, <1>5, <1>6, <1>7, <1>8

LEMMA ConfirmedNext ==
  ASSUME IInv, [Next]_vars, TypeOK', Growing
  PROVE  ConfirmedByConsent'
<1>1. /\ TypeOK /\ ConfirmedByConsent
      /\ \A h \in Handlers : Justified(inbound[h])
  BY DEF IInv, VerdictsJustified, Justified
<1>2. consent \ capped \subseteq consent' \ capped' /\ Quota' = Quota
  BY DEF Growing, Quota
<1>3. CASE confirmed' = confirmed /\ (status' = status \/ status \notin Decided)
           /\ (status' = status \/ status' # "APPROVED")
  BY <1>1, <1>2, <1>3 DEF ConfirmedByConsent, Decided
<1>4. ASSUME NEW h \in Handlers, Deny(h), status \in Open PROVE ConfirmedByConsent'
  <2>1. status' = "DENIED"
    BY <1>4 DEF Deny, Conclude, Transition
  <2> QED BY <2>1 DEF ConfirmedByConsent
<1>5. ASSUME NEW h \in Handlers, Approve(h), status \in Open PROVE ConfirmedByConsent'
  <2>1. /\ status' = "APPROVED" /\ confirmed' = confirmed \cup {inbound[h].via}
        /\ inbound[h].step = "approve"
    BY <1>5 DEF Approve, Conclude, Transition
  <2>2. /\ inbound[h].via \in consent \ capped
        /\ Cardinality(confirmed \cup {inbound[h].via}) >= Quota
    BY <1>1, <2>1 DEF Justified
  <2>3. confirmed \subseteq consent \ capped
    BY <1>1, <1>5 DEF ConfirmedByConsent, Open
  <2>4. Cardinality(confirmed') >= Quota'
    BY <1>2, <2>1, <2>2
  <2>5. confirmed' \subseteq consent' \ capped'
    BY <1>2, <2>1, <2>2, <2>3
  <2> QED BY <2>4, <2>5 DEF ConfirmedByConsent
<1>6. ASSUME NEW h \in Handlers, ConfirmFirst(h), status \in Open,
             status # "AWAITING_SECOND_CHANNEL"
      PROVE  ConfirmedByConsent'
  <2>1. /\ status' = "AWAITING_SECOND_CHANNEL"
        /\ confirmed' = confirmed \cup {inbound[h].via}
        /\ inbound[h].step = "confirm"
    BY <1>6 DEF ConfirmFirst, Conclude, Transition, Open
  <2>2. inbound[h].via \in consent \ capped
    BY <1>1, <2>1 DEF Justified
  <2>3. confirmed \subseteq consent \ capped
    BY <1>1, <1>6 DEF ConfirmedByConsent, Open
  <2> QED BY <1>2, <2>1, <2>2, <2>3 DEF ConfirmedByConsent
<1>7. \/ confirmed' = confirmed /\ status' = status
      \/ confirmed' = confirmed /\ status' # "APPROVED" /\ status \notin Decided
      \/ \E h \in Handlers :
           /\ \/ Deny(h) \/ Approve(h)
              \/ ConfirmFirst(h) /\ status # "AWAITING_SECOND_CHANNEL"
           /\ status \in Open
  BY <1>1, RowSteps DEF Open, Decided
<1> QED BY <1>3, <1>4, <1>5, <1>6, <1>7

\* A poll that waits to expire the row, and what the guards were told.
LEMMA PollsNext ==
  ASSUME IInv, [Next]_vars, TypeOK', Growing
  PROVE  PollsJustified' /\ HeardMatchesRow'
<1> USE DEF IInv
<1>1. /\ status # "NONE" => status' # "NONE"
      /\ clock > Deadline => clock' > Deadline
      /\ status \in Decided => status' = status
  BY DEF Growing, TypeOK, Deadline
<1>2. ASSUME polling' = polling, heard' = heard PROVE PollsJustified' /\ HeardMatchesRow'
  BY <1>1, <1>2 DEF PollsJustified, HeardMatchesRow, Decided, Pollers
<1>3. ASSUME NEW q \in Pollers, Poll(q) PROVE PollsJustified' /\ HeardMatchesRow'
  <2>1. UNCHANGED <<status, clock>>
    BY <1>3 DEF Poll, rowVars
  <2>2. CASE status \in Open /\ clock > Deadline
    <3>1. polling' = [polling EXCEPT ![q] = "expire"] /\ heard' = heard
      BY <1>3, <2>2 DEF Poll
    <3>2. status # "NONE"
      BY <2>2 DEF Open
    <3>3. PollsJustified'
      BY <2>1, <2>2, <3>1, <3>2 DEF PollsJustified, TypeOK
    <3>4. HeardMatchesRow'
      BY <2>1, <3>1 DEF HeardMatchesRow
    <3> QED BY <3>3, <3>4
  <2>3. CASE ~(status \in Open /\ clock > Deadline)
    <3>1. polling' = polling /\ heard' \subseteq heard \cup ({Standing} \ {"PENDING"})
      BY <1>3, <2>3 DEF Poll, Tell
    <3>2. HeardMatchesRow'
      BY <2>1, <3>1 DEF HeardMatchesRow, Standing, Decided
    <3>3. PollsJustified'
      BY <2>1, <3>1 DEF PollsJustified
    <3> QED BY <3>2, <3>3
  <2> QED BY <2>2, <2>3
<1>4. ASSUME NEW q \in Pollers, PollExpires(q) PROVE PollsJustified' /\ HeardMatchesRow'
  <2>1. /\ polling' = [polling EXCEPT ![q] = "idle"]
        /\ heard' \subseteq heard \cup {"DENIED"}
        /\ polling[q] = "expire"
    BY <1>4 DEF PollExpires, Tell
  <2>2. clock > Deadline
    BY <2>1 DEF PollsJustified
  <2>3. PollsJustified'
    BY <1>1, <2>1 DEF PollsJustified, TypeOK
  <2>4. HeardMatchesRow'
    BY <1>1, <2>1, <2>2 DEF HeardMatchesRow, Decided
  <2> QED BY <2>3, <2>4
<1>5. ASSUME ~ \E q \in Pollers : Poll(q) \/ PollExpires(q)
      PROVE  polling' = polling /\ heard' = heard
  BY <1>5 DEF Next, FindPrior, Create, EndFanOut, ScheduleTimeout, JobFires, Notify, Receive,
     ExpireLate, Deny, Approve, ConfirmFirst, Conclude, JobsLost, Sweep, Tick, vars, pollVars
<1> QED BY <1>2, <1>3, <1>4, <1>5

-----------------------------------------------------------------------------
LEMMA InitIInv == Init => IInv
<1> SUFFICES ASSUME Init PROVE IInv
  OBVIOUS
<1>1. TypeOK
  BY IdleIsCall DEF Init, TypeOK
<1>2. VerdictsJustified /\ PollsJustified
  BY DEF Init, VerdictsJustified, PollsJustified, Idle
<1>3. ConfirmedByConsent /\ HeardMatchesRow
  BY DEF Init, ConfirmedByConsent, HeardMatchesRow
<1> QED BY <1>1, <1>2, <1>3 DEF IInv, Init

LEMMA NextIInv == IInv /\ [Next]_vars => IInv'
<1> SUFFICES ASSUME IInv, [Next]_vars PROVE IInv'
  OBVIOUS
<1>1. TypeOK' /\ Growing
  BY TypeNext, StepGrows DEF IInv
<1>2. status' = "NONE" => owner' = Nobody
  BY RowSteps, <1>1 DEF IInv, Growing
<1> QED BY <1>1, <1>2, VerdictsNext, ConfirmedNext, PollsNext DEF IInv

THEOREM Invariance == Spec => []IInv
BY InitIInv, NextIInv, PTL DEF Spec

\* The row, the calls and the polls keep the types of their columns and fields.
THEOREM Typed == Spec => []TypeOK
BY Invariance, PTL DEF IInv

\* Whatever races on the row, APPROVED was approved by the operator, on every
\* channel that counts and on as many as the amount needs (handleInbound).
THEOREM ApprovalsAreConsent == Spec => []ApprovedByConsent
<1>1. IInv => ApprovedByConsent
  BY DEF IInv, ConfirmedByConsent, ApprovedByConsent, Quota
<1> QED BY <1>1, Invariance, PTL

\* However late a poll is, an APPROVED it heard stands, and it hears no DENIED
\* while the operator has time and has not said no (getState).
THEOREM GuardsHearTheRow == Spec => []HeardMatchesRow
BY Invariance, PTL DEF IInv

\* However answers, jobs, sweeps, polls and fan-outs interleave, the row only
\* moves forward, and once decided not at all (transition).
THEOREM RowsMoveForward == Spec => OnlyForward
<1>1. ASSUME IInv, [Next]_vars
      PROVE  /\ status' # status => Rank[status'] > Rank[status]
             /\ status \in Decided => confirmed' = confirmed
             /\ owner # Nobody => owner' = owner
  <2>1. /\ status \in {"NONE"} \cup Open \cup Decided
        /\ status' \in {"NONE"} \cup Open \cup Decided
    BY <1>1, TypeNext DEF IInv, TypeOK
  <2>2. ASSUME NEW h \in Handlers, status \in Open,
               \/ Deny(h) \/ Approve(h)
               \/ ConfirmFirst(h) /\ status # "AWAITING_SECOND_CHANNEL"
        PROVE  \/ status' \in Decided
               \/ status # "AWAITING_SECOND_CHANNEL" /\ status' = "AWAITING_SECOND_CHANNEL"
    BY <2>2 DEF Deny, Approve, ConfirmFirst, Conclude, Transition, Open, Decided
  <2>3. status' # status => Rank[status'] > Rank[status]
    BY <1>1, <2>1, <2>2, RowSteps DEF IInv, Rank, Open, Decided
  <2>4. status \in Decided => confirmed' = confirmed
    BY <1>1, RowSteps DEF IInv, Open, Decided
  <2>5. owner # Nobody => owner' = owner
    BY <1>1, RowSteps DEF IInv
  <2> QED BY <2>3, <2>4, <2>5
<1> QED BY <1>1, Invariance, PTL DEF Spec, OnlyForward

\* The escalation service implements the operator that answers once.
THEOREM OperatorKept == Spec => KeepsOperatorPromise
<1>1. Init => Promise!Init
  BY DEF Init, Promise!Init, Operator
<1>2. ASSUME IInv, [Next]_vars PROVE [Promise!Ask \/ Promise!Answer]_Operator
  <2>1. ASSUME NEW h \in Handlers, status \in Open,
               \/ Deny(h) \/ Approve(h)
               \/ ConfirmFirst(h) /\ status # "AWAITING_SECOND_CHANNEL"
        PROVE  status' \in {"APPROVED", "DENIED", "AWAITING_SECOND_CHANNEL"}
    BY <2>1 DEF Deny, Approve, ConfirmFirst, Conclude, Transition, Open
  <2>2. \/ status' = status
        \/ status = "NONE" /\ status' = "PENDING"
        \/ status \in Open /\ status' \in Open \cup Decided
    BY <1>2, <2>1, RowSteps DEF IInv, Open, Decided
  <2> QED BY <2>2 DEF Operator, Promise!Ask, Promise!Answer, Open, Decided
<1> QED BY <1>1, <1>2, Invariance, PTL DEF Spec, KeepsOperatorPromise, Promise!Spec
=============================================================================
