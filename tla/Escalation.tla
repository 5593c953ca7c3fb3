----------------------------- MODULE Escalation -----------------------------
(***************************************************************************)
(* One escalation of @untch/escalation: service.ts (EscalationService)     *)
(* over repo-pg.ts, the timeout worker, and the two ways its decision is   *)
(* heard, getState for the guard and pollApproval for a consumer intent.   *)
(*                                                                         *)
(* An action is what one call does between two of its awaits.  Askers are  *)
(* calls of createEscalation with the same pollRef (a retried preflight),  *)
(* Handlers calls of handleInbound, Guards and Intents the pollers.  An    *)
(* asker stands for the id and the code it generates.                      *)
(***************************************************************************)
EXTENDS FiniteSets, Naturals

CONSTANTS
  Askers, Handlers, Guards, Intents,
  Channels,     \* what the policy authorises and the process has registered
  Reachable,    \* those of them the owner's operator is bound to
  Identity,     \* those that authorise by session, not by code (the dashboard)
  Caps          \* which of them have a cap the amount may exceed: sets of channels

ASSUME ChannelsAssumption ==
  /\ IsFiniteSet(Channels)
  /\ Reachable \subseteq Channels /\ Identity \subseteq Channels /\ Caps \subseteq SUBSET Channels
ASSUME PollersAssumption == Guards \cap Intents = {}

VARIABLES
  \* the row of the table escalations
  status, owner, confirmed,
  needsTwo,     \* the amount is above dualChannelAbove
  capped,       \* the channels whose cap it exceeds
  clock,        \* against code_expires_at: 0 before it, 1 at it, 2 past it
  ask, todo,    \* where a createEscalation stands, and whom it has yet to notify
  inbox,        \* the notifications delivered: channel and code
  jobs,         \* the delayed jobs in Redis
  inbound,      \* the handleInbound calls under way
  consent,      \* the channels on which the operator really approved this escalation
  polling,      \* where a poller stands
  heard,        \* what the guards were told, once decided
  relayed       \* what a consumer intent was told last

rowVars == <<status, owner, confirmed, needsTwo, capped>>
askVars == <<ask, todo, inbox, jobs>>
callVars == <<inbound, consent>>
pollVars == <<polling, heard, relayed>>
vars == <<rowVars, clock, askVars, callVars, pollVars>>

Nobody == "nobody"
Pollers == Guards \cup Intents
\* A faulty variant of Open: what the operator was never told of does not expire.
OpenIfNotified == {"PENDING", "AWAITING_SECOND_CHANNEL"}
Open == {"PENDING", "AWAITING_SECOND_CHANNEL", "NOTIFY_FAILED"}
Decided == {"APPROVED", "DENIED", "EXPIRED"}
Deadline == 1

\* The operator with the row's code, the operator's account with another one (a
\* guess, or what the loser of two concurrent creations sent out), or a stranger.
Senders == {"operator", "guesser", "stranger"}
Messages == [via : Channels, by : Senders, action : {"APPROVE", "DENY"}]
Idle == [step |-> "idle"]
Calls == {Idle} \cup [step : {"expire", "deny", "confirm", "approve"}, via : Channels]

TypeOK ==
  /\ status \in {"NONE"} \cup Open \cup Decided
  /\ owner \in Askers \cup {Nobody}
  /\ confirmed \subseteq Channels
  /\ needsTwo \in BOOLEAN /\ capped \in Caps
  /\ clock \in 0..2
  /\ ask \in [Askers -> {"idle", "create", "fanout", "schedule", "done"}]
  /\ todo \in [Askers -> SUBSET Reachable]
  /\ inbox \subseteq Reachable \X Askers
  /\ jobs \subseteq Askers
  /\ inbound \in [Handlers -> Calls]
  /\ consent \subseteq Channels
  /\ polling \in [Pollers -> {"idle", "expire"}]
  /\ heard \subseteq {"APPROVED", "DENIED"}
  /\ relayed \in {"NONE", "PENDING", "APPROVED", "DENIED"}

Init ==
  /\ status = "NONE" /\ owner = Nobody /\ confirmed = {}
  /\ needsTwo \in BOOLEAN /\ capped \in Caps
  /\ clock = 0
  /\ ask = [a \in Askers |-> "idle"] /\ todo = [a \in Askers |-> {}]
  /\ inbox = {} /\ jobs = {}
  /\ inbound = [h \in Handlers |-> Idle] /\ consent = {}
  /\ polling = [q \in Pollers |-> "idle"] /\ heard = {} /\ relayed = "NONE"

-----------------------------------------------------------------------------
\* FAULTY VARIANTS, for the properties to be tried against.

\* The second of two concurrent answers overwrites the first.
TransitionUnguarded(to, from, channels) ==
  /\ status' = to
  /\ confirmed' = confirmed \cup channels
  /\ UNCHANGED <<owner, needsTwo, capped>>

\* The channel that confirmed first counts as the second one, too.
SecondChannelSame(m) == confirmed \cup {m.via} # {}

\* The sweep takes everything it selected for expired.
SweepBlindly ==
  /\ status # "NONE"
  /\ clock >= Deadline
  /\ status' = "EXPIRED"
  /\ UNCHANGED <<owner, confirmed, needsTwo, capped, clock, askVars, callVars, pollVars>>

\* A poll takes an open escalation whose first channel confirmed for approved.
StandingEager == IF status \in Decided \cup {"AWAITING_SECOND_CHANNEL"}
                 THEN "APPROVED" ELSE "PENDING"

\* A poll hands the guard the row's status as it is.
StandingRaw == IF status \in {"NONE"} \cup Open THEN "PENDING" ELSE status

-----------------------------------------------------------------------------
\* The conditional UPDATE every status change goes through: one statement, so
\* whoever comes second finds the status outside its guard.
Transition(to, from, channels) ==
  /\ status' = IF status \in from THEN to ELSE status
  /\ confirmed' = IF status \in from THEN confirmed \cup channels ELSE confirmed
  /\ UNCHANGED <<owner, needsTwo, capped>>

-----------------------------------------------------------------------------
\* CREATE, FAN OUT, SCHEDULE

\* Idempotent by pollRef: an escalation that is there is returned as it is.
FindPrior(a) ==
  /\ ask[a] = "idle"
  /\ ask' = [ask EXCEPT ![a] = IF status = "NONE" THEN "create" ELSE "done"]
  /\ UNCHANGED <<rowVars, clock, todo, inbox, jobs, callVars, pollVars>>

\* INSERT ... ON CONFLICT (poll_ref): the loser of a race gets the winner's row,
\* and goes on with the id and the code it generated itself.
Create(a) ==
  /\ ask[a] = "create"
  /\ \/ /\ status = "NONE"
        /\ status' = "PENDING" /\ owner' = a
     \/ /\ status # "NONE"
        /\ UNCHANGED <<status, owner>>
  /\ ask' = [ask EXCEPT ![a] = "fanout"]
  /\ todo' = [todo EXCEPT ![a] = Reachable]
  /\ UNCHANGED <<confirmed, needsTwo, capped, clock, inbox, jobs, callVars, pollVars>>

\* One channel after the other; a channel may fail to deliver.
Notify(a, ch) ==
  /\ ask[a] = "fanout"
  /\ ch \in todo[a]
  /\ todo' = [todo EXCEPT ![a] = @ \ {ch}]
  /\ \/ inbox' = inbox \cup {<<ch, a>>}
     \/ UNCHANGED inbox
  /\ UNCHANGED <<rowVars, clock, ask, jobs, callVars, pollVars>>

Delivered(a) == \E ch \in Reachable : <<ch, a>> \in inbox

\* No channel said it delivered (one may have, and failed to say so): NOTIFY_FAILED,
\* and the clock runs on.  The UPDATE is by the asker's own id, which is no row's if
\* it lost the race.
EndFanOut(a) ==
  /\ ask[a] = "fanout"
  /\ todo[a] = {}
  /\ \E anyOk \in BOOLEAN :
       /\ anyOk => Delivered(a)
       /\ IF ~anyOk /\ owner = a
            THEN Transition("NOTIFY_FAILED", {"PENDING"}, {})
            ELSE UNCHANGED rowVars
  /\ ask' = [ask EXCEPT ![a] = "schedule"]
  /\ UNCHANGED <<clock, todo, inbox, jobs, callVars, pollVars>>

ScheduleTimeout(a) ==
  /\ ask[a] = "schedule"
  /\ jobs' = jobs \cup {a}
  /\ ask' = [ask EXCEPT ![a] = "done"]
  /\ UNCHANGED <<rowVars, clock, todo, inbox, callVars, pollVars>>

-----------------------------------------------------------------------------
\* INBOUND: the authority boundary

\* An undecided row may be answered ...
Answerable == status \in Open
\* ... if the operator answers: no stranger, and no guess where a code is asked for ...
Genuine(m) == m.by = "operator" \/ (m.by = "guesser" /\ m.via \in Identity)
\* ... for the first time on this channel ...
Admitted(m) == Genuine(m) /\ m.via \notin confirmed
\* ... which is one of two distinct ones, where two are needed.
SecondChannel(m) == Cardinality(confirmed \cup {m.via}) >= 2

\* What handleInbound makes of the row it read; what it ignores it only logs.
Verdict(m, late) ==
  IF ~Answerable THEN "idle"
  ELSE IF late THEN "expire"
  ELSE IF ~Admitted(m) THEN "idle"
  ELSE IF m.action = "DENY" THEN "deny"
  ELSE IF m.via \in capped THEN "idle"
  ELSE IF needsTwo /\ ~SecondChannel(m) THEN "confirm"
  ELSE "approve"

\* The call has the row now; whether it is late was settled by the clock it read
\* when it began.  Nobody has a code that was never delivered.
Receive(h, m, late) ==
  /\ inbound[h] = Idle
  /\ late => clock > Deadline
  /\ m.by = "operator" /\ m.via \notin Identity => status # "NONE" /\ Delivered(owner)
  /\ inbound' = [inbound EXCEPT ![h] =
                   IF Verdict(m, late) = "idle" THEN Idle
                   ELSE [step |-> Verdict(m, late), via |-> m.via]]
  /\ consent' = IF status # "NONE" /\ Genuine(m) /\ m.action = "APPROVE"
                  THEN consent \cup {m.via} ELSE consent
  /\ UNCHANGED <<rowVars, clock, askVars, pollVars>>

\* The write the verdict calls for, against whatever the row has become.
Conclude(h, step, to, from, channels) ==
  /\ inbound[h].step = step
  /\ Transition(to, from, channels)
  /\ inbound' = [inbound EXCEPT ![h] = Idle]
  /\ UNCHANGED <<clock, askVars, consent, pollVars>>

ExpireLate(h)   == Conclude(h, "expire", "EXPIRED", Open, {})
Deny(h)         == Conclude(h, "deny", "DENIED", Open, {inbound[h].via})
Approve(h)      == Conclude(h, "approve", "APPROVED", Open, {inbound[h].via})
ConfirmFirst(h) == Conclude(h, "confirm", "AWAITING_SECOND_CHANNEL",
                            {"PENDING", "NOTIFY_FAILED"}, {inbound[h].via})

-----------------------------------------------------------------------------
\* THE TIMEOUT: expire() reads the row, compares the clock, and updates; only the
\* status can change meanwhile, and the UPDATE guards it.

Expire ==
  /\ clock >= Deadline
  /\ Transition("EXPIRED", Open, {})

\* A job that comes early, or for an id that is no row's, is spent for nothing.
JobFires(a) ==
  /\ a \in jobs
  /\ jobs' = jobs \ {a}
  /\ IF owner = a /\ clock >= Deadline THEN Expire ELSE UNCHANGED rowVars
  /\ UNCHANGED <<clock, ask, todo, inbox, callVars, pollVars>>

\* Redis restarts without its delayed jobs.
JobsLost ==
  /\ jobs # {}
  /\ jobs' = {}
  /\ UNCHANGED <<rowVars, clock, ask, todo, inbox, callVars, pollVars>>

\* The sweep every thirty seconds, and the backstop of every lost job.
Sweep ==
  /\ status \in Open
  /\ Expire
  /\ UNCHANGED <<clock, askVars, callVars, pollVars>>

-----------------------------------------------------------------------------
\* POLLS

\* getState of a decided row.
Standing == IF status = "APPROVED" THEN "APPROVED"
            ELSE IF status \in Decided THEN "DENIED" ELSE "PENDING"

\* EscalationStatusView, which wraps the state, and what pollApproval reads of it.
View(answer) == [state |-> [status |-> answer], record |-> [status |-> status]]
Relay(view) == IF "status" \in DOMAIN view THEN view.status ELSE "PENDING"

Tell(q, answer) ==
  /\ heard' = IF q \in Guards THEN heard \cup ({answer} \ {"PENDING"}) ELSE heard
  /\ relayed' = IF q \in Intents THEN Relay(View(answer)) ELSE relayed

\* Open and past its deadline, the row is expired next, and the answer is no.
Poll(q) ==
  /\ polling[q] = "idle"
  /\ IF status \in Open /\ clock > Deadline
       THEN /\ polling' = [polling EXCEPT ![q] = "expire"]
            /\ UNCHANGED <<heard, relayed>>
       ELSE Tell(q, Standing) /\ UNCHANGED polling
  /\ UNCHANGED <<rowVars, clock, askVars, callVars>>

\* The answer does not depend on whether the update found the row still open.
PollExpires(q) ==
  /\ polling[q] = "expire"
  /\ Transition("EXPIRED", Open, {})
  /\ Tell(q, "DENIED")
  /\ polling' = [polling EXCEPT ![q] = "idle"]
  /\ UNCHANGED <<clock, askVars, callVars>>

-----------------------------------------------------------------------------
Tick ==
  /\ status # "NONE"
  /\ clock < 2
  /\ clock' = clock + 1
  /\ UNCHANGED <<rowVars, askVars, callVars, pollVars>>

Next ==
  \/ \E a \in Askers :
       \/ FindPrior(a) \/ Create(a) \/ EndFanOut(a) \/ ScheduleTimeout(a)
       \/ JobFires(a)
       \/ \E ch \in Reachable : Notify(a, ch)
  \/ \E h \in Handlers :
       \/ \E m \in Messages, late \in BOOLEAN : Receive(h, m, late)
       \/ ExpireLate(h) \/ Deny(h) \/ Approve(h) \/ ConfirmFirst(h)
  \/ \E q \in Pollers : Poll(q) \/ PollExpires(q)
  \/ JobsLost \/ Sweep \/ Tick

Spec == Init /\ [][Next]_vars

\* Time passes, the sweep runs every thirty seconds, a guard and a waiting
\* intent poll again.  Nobody has to answer, no job has to survive, and a call
\* whose process died takes no further step.
FairSpec ==
  /\ Spec
  /\ WF_vars(Tick) /\ WF_vars(Sweep)
  /\ \A q \in Pollers : WF_vars(Poll(q)) /\ WF_vars(PollExpires(q))
=============================================================================
