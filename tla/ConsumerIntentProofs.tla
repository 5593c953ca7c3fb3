------------------------ MODULE ConsumerIntentProofs ------------------------
(***************************************************************************)
(* For any number of requests, workers and sweepers, any number of deaths  *)
(* and any bound on charges and policy edits: ConsumerIntent keeps its     *)
(* types, its safety properties and PurchasePromise.                       *)
(*                                                                         *)
(* The argument is one inductive invariant, IInv: the states fall into     *)
(* branches no run leaves once it entered (committed, aborted), a run that *)
(* can still pay is alone and pays for a committed intent, and every       *)
(* ledger group belongs to the states of one branch.                       *)
(***************************************************************************)
EXTENDS ConsumerIntentProperties, SequenceTheorems, TLAPS

-----------------------------------------------------------------------------
\* The keys of TRANSITIONS, spelled out for the provers.
LEMMA StateNames ==
  States = {"CREATED", "DISCOVERING", "QUOTED", "POLICY_CHECKING", "BLOCKED",
            "AWAITING_APPROVAL", "APPROVED", "AWAITING_FUNDING", "FUNDED",
            "EXECUTION_QUEUED", "PROVIDER_PAYMENT_PENDING", "PROVIDER_PAID",
            "PROVIDER_ACKNOWLEDGED", "DELIVERY_PENDING", "DELIVERY_VERIFIED",
            "COMPLETED", "FAILED_BEFORE_PAYMENT", "FAILED_AFTER_PAYMENT",
            "REFUND_PENDING", "REFUNDED", "MANUAL_REVIEW", "EXPIRED", "CANCELLED"}
BY DEF States, Successors

\* A run that transitions from a state it read earlier can only have read an
\* early one: the edges it may ask for leave nothing that was funded, aborted or
\* committed (PublishOffer, BeginCheck, Expire).
LEMMA EdgesFromEarly ==
  ASSUME NEW from \in States, NEW to \in {"DISCOVERING", "QUOTED", "POLICY_CHECKING", "EXPIRED"},
         CanTransition(from, to)
  PROVE  /\ to # "EXPIRED" => from \in Undecided
         /\ from \notin Committed \cup Aborted \cup {"FUNDED", "EXECUTION_QUEUED"}
BY StateNames DEF CanTransition, Successors, Undecided, Committed, Aborted

\* The same of requestFunding, whose edge also leaves FUNDED, the one backward
\* edge of the map.
LEMMA EdgesToFunding ==
  ASSUME NEW from \in States, CanTransition(from, "AWAITING_FUNDING")
  PROVE  from \in {"APPROVED", "FUNDED"}
BY StateNames DEF CanTransition, Successors

\* An update by execution id changes one row at most and adds none.
LEMMA UpdateRowType ==
  ASSUME execs \in Seq(RowStates), NEW n \in Nat, NEW r \in RowStates, UpdateRow(n, r)
  PROVE  execs' \in Seq(RowStates) /\ Len(execs') = Len(execs)
<1>1. CASE n \in 1..Len(execs)
  <2>1. execs' = [execs EXCEPT ![n] = r]
    BY DEF UpdateRow
  <2>2. /\ [execs EXCEPT ![n] = r] \in Seq(RowStates)
        /\ Len([execs EXCEPT ![n] = r]) = Len(execs)
    BY <1>1, ExceptSeq, ZenonT(60)
  <2> QED BY <2>1, <2>2
<1>2. CASE n \notin 1..Len(execs)
  <2>1. execs' = execs
    BY <1>2 DEF UpdateRow
  <2> QED BY <2>1
<1> QED BY <1>1, <1>2

\* What a run remembers when it has just begun.
LEMMA BlankIsFrame == Blank \in Frames
BY StateNames, PolicyAssumption DEF Blank, Frames, Outcomes, Versions

\* What a run remembers when it has just read the state.
LEMMA SeenIsFrame ==
  ASSUME NEW from \in States
  PROVE  [Blank EXCEPT !.seen = from] \in Frames
BY BlankIsFrame DEF Frames

\* A run that remembers something else still remembers a frame.
LEMMA RecallType ==
  ASSUME local \in [Runs -> Frames], NEW p \in Runs, NEW frame \in Frames,
         Recall(p, frame)
  PROVE  local' \in [Runs -> Frames]
BY DEF Recall

-----------------------------------------------------------------------------
\* No step of any run writes a value of another type.
LEMMA TypeNext == TypeOK /\ [Next]_vars => TypeOK'
<1> SUFFICES ASSUME TypeOK, [Next]_vars
             PROVE  TypeOK'
  OBVIOUS
<1> USE DEF TypeOK, StoreTypeOK
<1>1. ASSUME NEW p \in Runs, NEW goal \in {"DISCOVERING", "QUOTED"}, BeginOffer(p, goal)
      PROVE  TypeOK'
  <2>1. pc' \in [Runs -> Labels]
    BY <1>1 DEF BeginOffer, Goto, Labels
  <2>2. [Blank EXCEPT !.seen = state, !.goal = goal] \in Frames
    BY SeenIsFrame, BlankIsFrame DEF Frames
  <2>3. local' \in [Runs -> Frames]
    BY <1>1, <2>2, RecallType DEF BeginOffer
  <2> QED
    BY <2>1, <2>3, <1>1 DEF BeginOffer, At, rowVars, clockVars, worldVars
<1>2. ASSUME NEW p \in Runs, PollApproval(p) PROVE TypeOK'
  <2>1. pc' \in [Runs -> Labels]
    BY <1>2 DEF PollApproval, Goto, Labels
  <2>2. operator \in Outcomes
    BY <1>2 DEF PollApproval, Outcomes
  <2>3. [Blank EXCEPT !.heard = operator] \in Frames
    BY <2>2, BlankIsFrame DEF Frames
  <2>4. local' \in [Runs -> Frames]
    BY <1>2, <2>3, RecallType DEF PollApproval
  <2> QED
    BY <2>1, <2>4, <1>2 DEF PollApproval, rowVars, clockVars, worldVars
<1>3. ASSUME NEW p \in Runs, BeginFunding(p) PROVE TypeOK'
  BY <1>3 DEF BeginFunding, At, Goto, rowVars, clockVars, worldVars, Labels
<1>4. ASSUME NEW p \in Runs, PriceFunding(p) PROVE TypeOK'
  BY <1>4 DEF PriceFunding, At, Goto, rowVars, clockVars, worldVars, Labels
<1>5. ASSUME NEW p \in Runs, BeginQueue(p) PROVE TypeOK'
  BY <1>5 DEF BeginQueue, At, Goto, rowVars, clockVars, worldVars, Labels
<1>6. ASSUME NEW p \in Runs, PayFunding(p) PROVE TypeOK'
  BY <1>6, BoundsAssumption, PolicyAssumption DEF PayFunding, At, Goto,
     rowVars, clockVars, Labels, Outcomes
<1>7. ASSUME NEW p \in Runs, BeginExecution(p) PROVE TypeOK'
  BY <1>7 DEF BeginExecution, At, Goto, rowVars, clockVars, worldVars, Labels
<1>8. ASSUME NEW p \in Runs, BeginVerify(p) PROVE TypeOK'
  BY <1>8 DEF BeginVerify, At, Goto, rowVars, clockVars, worldVars, Labels
<1>9. ASSUME NEW p \in Runs, FindExpirable(p) PROVE TypeOK'
  BY <1>9, BlankIsFrame DEF FindExpirable, At, Goto, Recall, rowVars,
     clockVars, worldVars, Labels, Frames
<1>10. ASSUME NEW p \in Runs, FindAmbiguous(p) PROVE TypeOK'
  <2>1. pc' \in [Runs -> Labels]
    BY <1>10 DEF FindAmbiguous, Goto, Labels
  <2>2. state \in States /\ \A n \in DOMAIN execs : n \in Nat
    BY DEF TypeOK, StoreTypeOK
  <2>3. \A n \in DOMAIN execs : [Blank EXCEPT !.seen = state, !.row = n] \in Frames
    BY <2>2, BlankIsFrame DEF Frames
  <2>4. local' \in [Runs -> Frames]
    BY <1>10, BlankIsFrame, <2>3 DEF FindAmbiguous, Recall
  <2> QED
    BY <2>1, <2>4, <1>10 DEF FindAmbiguous, At, rowVars, clockVars, worldVars
<1>11. ASSUME NEW p \in Runs, MintDiscovery(p) PROVE TypeOK'
  <2>1. pc' \in [Runs -> Labels]
    BY <1>11 DEF MintDiscovery, Goto, Labels
  <2>2. [local[p] EXCEPT !.holds = TRUE] \in Frames
    BY DEF Frames
  <2>3. local' \in [Runs -> Frames]
    BY <1>11, <2>2 DEF MintDiscovery, Recall
  <2> QED
    BY <2>1, <2>3, <1>11 DEF MintDiscovery, At, SlotTaken, MintCapability,
       clockVars, worldVars
<1>12. ASSUME NEW p \in Runs, ReceiveOffer(p) PROVE TypeOK'
  <2>1. pc' \in [Runs -> Labels]
    BY <1>12 DEF ReceiveOffer, Goto, Labels
  <2>2. [local[p] EXCEPT !.holds = FALSE] \in Frames
    BY DEF Frames
  <2>3. local' \in [Runs -> Frames]
    BY <1>12, <2>2, RecallType DEF ReceiveOffer, Release
  <2> QED
    BY <2>1, <2>3, <1>12 DEF ReceiveOffer, At, Release, clockVars, worldVars,
       Consume
<1>13. ASSUME NEW p \in Runs, OfferFails(p) PROVE TypeOK'
  BY <1>13, BlankIsFrame DEF OfferFails, At, Goto, Recall, Release, clockVars,
     worldVars, Consume, Labels, LeaveOffer
<1>14. ASSUME NEW p \in Runs, Terminalise(p) PROVE TypeOK'
  BY <1>14, BlankIsFrame, StateNames DEF Terminalise, At, Return, Transition,
     rowVars, clockVars, worldVars, Goto, Recall, Labels
<1>15. ASSUME NEW p \in Runs, PublishOffer(p) PROVE TypeOK'
  <2>1. pc' \in [Runs -> Labels]
    BY <1>15 DEF PublishOffer, Goto, Labels, LeaveOffer
  <2>2. local' \in [Runs -> Frames]
    BY <1>15, BlankIsFrame DEF PublishOffer, Recall
  <2>3. PICK from \in States, goal \in {"DISCOVERING", "QUOTED"} :
           Transition(from, goal) \/ TransitionThrows(from, goal)
    <3>1. local[p] \in Frames
      BY DEF TypeOK
    <3>2. local[p].seen \in States /\ local[p].goal \in {"DISCOVERING", "QUOTED"}
      BY <3>1 DEF Frames
    <3> QED BY <1>15, <3>2 DEF PublishOffer, LeaveOffer
  <2>4. state' \in States
    BY <2>3, StateNames DEF Transition, TransitionThrows
  <2> QED
    BY <2>1, <2>2, <2>4, <1>15 DEF PublishOffer, At, rowVars, worldVars
<1>16. ASSUME NEW p \in Runs, ReadPolicy(p) PROVE TypeOK'
  <2>1. pc' \in [Runs -> Labels]
    BY <1>16 DEF ReadPolicy, Goto, Return, Labels
  <2>2. state \in States /\ policyVersion \in Versions
    BY DEF TypeOK, StoreTypeOK
  <2>3. [Blank EXCEPT !.seen = state, !.version = policyVersion] \in Frames
    BY <2>2, BlankIsFrame DEF Frames
  <2>4. local' \in [Runs -> Frames]
    BY <1>16, BlankIsFrame, <2>3 DEF ReadPolicy, Recall, Return
  <2> QED
    BY <2>1, <2>4, <1>16 DEF ReadPolicy, At, rowVars, clockVars, worldVars,
       Versions
<1>17. ASSUME NEW p \in Runs, BeginCheck(p) PROVE TypeOK'
  BY <1>17, BlankIsFrame, StateNames DEF BeginCheck, At, Goto, Return,
     Transition, TransitionThrows, rowVars, clockVars, worldVars, Recall,
     Labels
<1>18. ASSUME NEW p \in Runs, Decide(p) PROVE TypeOK'
  <2>1. pc' \in [Runs -> Labels]
    BY <1>18 DEF Decide, Goto, Return, Labels
  <2>2. local' \in [Runs -> Frames]
    BY <1>18, BlankIsFrame DEF Decide, Recall, Return
  <2> QED
    BY <2>1, <2>2, <1>18, StateNames DEF Decide, At, Transition, clockVars,
       worldVars, Versions
<1>19. ASSUME NEW p \in Runs, InsertApproval(p) PROVE TypeOK'
  BY <1>19 DEF InsertApproval, At, Goto, UpsertApproval, clockVars, worldVars,
     Labels, Approvals, Outcomes, Frames, Versions
<1>20. ASSUME NEW p \in Runs, AskOperator(p) PROVE TypeOK'
  BY <1>20, BoundsAssumption, PolicyAssumption DEF AskOperator, At, Goto,
     rowVars, clockVars, Labels, Outcomes
<1>21. ASSUME NEW p \in Runs, RereadApproval(p) PROVE TypeOK'
  <2>1. pc' \in [Runs -> Labels]
    BY <1>21 DEF RereadApproval, Goto, Return, Labels
  <2>2. approval # NoApproval => [local[p] EXCEPT !.heard = approval.outcome] \in Frames
    BY DEF Approvals, Frames
  <2>3. local' \in [Runs -> Frames]
    BY <1>21, BlankIsFrame, <2>2 DEF RereadApproval, Recall, Return, Outcomes
  <2> QED
    BY <2>1, <2>3, <1>21 DEF RereadApproval, At, rowVars, clockVars,
       worldVars, Outcomes
<1>22. ASSUME NEW p \in Runs, RewriteApproval(p) PROVE TypeOK'
  BY <1>22, BlankIsFrame DEF RewriteApproval, At, Return, UpsertApproval,
     clockVars, worldVars, Goto, Recall, Labels, Approvals, Outcomes, Frames,
     Versions
<1>23. ASSUME NEW p \in Runs, StoreOutcome(p) PROVE TypeOK'
  <2>1. local[p].heard \in Outcomes
    BY DEF Frames
  <2>2. approval' \in Approvals
    BY <1>23, <2>1 DEF StoreOutcome, ResolveApproval, Approvals
  <2> QED BY <1>23, <2>2 DEF StoreOutcome, Goto, Labels, clockVars, worldVars
<1>24. ASSUME NEW p \in Runs, ApplyOutcome(p) PROVE TypeOK'
  BY <1>24, BlankIsFrame, StateNames DEF ApplyOutcome, At, Goto, Recall,
     Transition, TransitionThrows, rowVars, clockVars, worldVars, Labels,
     Outcomes
<1>25. ASSUME NEW p \in Runs, ReadForFunding(p) PROVE TypeOK'
  <2>1. pc' \in [Runs -> Labels]
    BY <1>25 DEF ReadForFunding, Goto, Return, Labels
  <2>2. local' \in [Runs -> Frames]
    <3>1. PICK frame \in {Blank, [Blank EXCEPT !.seen = state]} : Recall(p, frame)
      BY <1>25 DEF ReadForFunding, Return
    <3>2. frame \in Frames
      BY <3>1, BlankIsFrame, SeenIsFrame
    <3> QED BY <3>1, <3>2, RecallType
  <2> QED
    BY <2>1, <2>2, <1>25 DEF ReadForFunding, At, rowVars, clockVars, worldVars
<1>26. ASSUME NEW p \in Runs, RequestFunding(p) PROVE TypeOK'
  <2>1. pc' \in [Runs -> Labels]
    BY <1>26 DEF RequestFunding, Goto, Labels
  <2>2. local' \in [Runs -> Frames]
    BY <1>26, BlankIsFrame DEF RequestFunding, Recall
  <2>3. PICK from \in States, goal \in {"AWAITING_FUNDING"} :
           Transition(from, goal) \/ TransitionThrows(from, goal)
    <3>1. local[p] \in Frames
      BY DEF TypeOK
    <3>2. local[p].seen \in States /\ local[p].goal \in {"DISCOVERING", "QUOTED"}
      BY <3>1 DEF Frames
    <3> QED BY <1>26, <3>2 DEF RequestFunding
  <2>4. state' \in States
    BY <2>3, StateNames DEF Transition, TransitionThrows
  <2> QED
    BY <2>1, <2>2, <2>4, <1>26 DEF RequestFunding, At, rowVars, worldVars
<1>27. ASSUME NEW p \in Runs, RecordFunding(p) PROVE TypeOK'
  BY <1>27 DEF RecordFunding, At, Goto, RecordReceipt, clockVars, worldVars,
     Labels, GroupKinds
<1>28. ASSUME NEW p \in Runs, MarkFunded(p) PROVE TypeOK'
  BY <1>28, StateNames DEF MarkFunded, At, Goto, Transition, TransitionThrows,
     rowVars, clockVars, worldVars, Labels
<1>29. ASSUME NEW p \in Runs, QueueExecution(p) PROVE TypeOK'
  BY <1>29, BlankIsFrame, StateNames DEF QueueExecution, At, Return,
     Transition, TransitionThrows, rowVars, clockVars, worldVars, Goto,
     Recall, Labels
<1>30. ASSUME NEW p \in Runs, CheckApproval(p) PROVE TypeOK'
  BY <1>30 DEF CheckApproval, At, Goto, ApprovalBinds, rowVars, clockVars,
     worldVars, Labels
<1>31. ASSUME NEW p \in Runs, IssueCapability(p) PROVE TypeOK'
  <2>1. pc' \in [Runs -> Labels]
    BY <1>31 DEF IssueCapability, Goto, Labels
  <2>2. [Blank EXCEPT !.holds = TRUE] \in Frames
    BY BlankIsFrame DEF Frames
  <2>3. local' \in [Runs -> Frames]
    BY <1>31, BlankIsFrame, <2>2 DEF IssueCapability, Recall
  <2> QED
    BY <2>1, <2>3, <1>31 DEF IssueCapability, At, SlotTaken, MintCapability,
       clockVars, worldVars
<1>32. ASSUME NEW p \in Runs, CommitToPay(p) PROVE TypeOK'
  BY <1>32, BlankIsFrame, StateNames DEF CommitToPay, At, Goto, Return,
     Transition, TransitionThrows, rowVars, clockVars, worldVars, Recall,
     Labels
<1>33. ASSUME NEW p \in Runs, PrepareExecution(p) PROVE TypeOK'
  <2>1. pc' \in [Runs -> Labels]
    BY <1>33 DEF PrepareExecution, Goto, Labels
  <2>2. Len(execs) + 1 \in Nat /\ local[p] \in Frames
    BY DEF TypeOK, StoreTypeOK
  <2>3. [local[p] EXCEPT !.row = Len(execs) + 1] \in Frames
    BY <2>2 DEF Frames
  <2>4. local' \in [Runs -> Frames]
    BY <1>33, <2>3 DEF PrepareExecution, Recall
  <2> QED
    BY <2>1, <2>4, <1>33, AppendProperties DEF PrepareExecution, At,
       InsertRow, worldVars, RowStates
<1>34. ASSUME NEW p \in Runs, AdapterRefuses(p) PROVE TypeOK'
  BY <1>34 DEF AdapterRefuses, At, Goto, rowVars, clockVars, worldVars, Labels
<1>35. ASSUME NEW p \in Runs, RedeemCapability(p) PROVE TypeOK'
  <2>1. pc' \in [Runs -> Labels]
    BY <1>35 DEF RedeemCapability, Goto, Labels
  <2>2. [local[p] EXCEPT !.holds = FALSE] \in Frames
    BY DEF Frames
  <2>3. local' \in [Runs -> Frames]
    BY <1>35, <2>2, RecallType DEF RedeemCapability
  <2> QED
    BY <2>1, <2>3, <1>35 DEF RedeemCapability, At, Consume, clockVars,
       worldVars
<1>36. ASSUME NEW p \in Runs, RailPays(p) PROVE TypeOK'
  BY <1>36, BoundsAssumption, PolicyAssumption DEF RailPays, At, Goto,
     rowVars, clockVars, Labels, Outcomes
<1>37. ASSUME NEW p \in Runs, ProviderAnswers(p) PROVE TypeOK'
  BY <1>37 DEF ProviderAnswers, At, Goto, rowVars, clockVars, worldVars,
     Labels
<1>38. ASSUME NEW p \in Runs, RecordPaid(p) PROVE TypeOK'
  BY <1>38, UpdateRowType DEF RecordPaid, At, Goto, clockVars, worldVars,
     Labels, RowStates, Frames
<1>39. ASSUME NEW p \in Runs, BookSettlement(p) PROVE TypeOK'
  <2>1. pc' \in [Runs -> Labels]
    BY <1>39 DEF BookSettlement, Goto, Labels
  <2>2. local' \in [Runs -> Frames]
    BY <1>39 DEF BookSettlement
  <2> QED
    BY <2>1, <2>2, <1>39, UpdateRowType DEF BookSettlement, At, AlreadyBooked,
       AppendGroup, clockVars, worldVars, RowStates, GroupKinds, Frames
<1>40. ASSUME NEW p \in Runs, MarkPaid(p) PROVE TypeOK'
  BY <1>40, StateNames DEF MarkPaid, At, Goto, Transition, TransitionThrows,
     rowVars, clockVars, worldVars, Labels
<1>41. ASSUME NEW p \in Runs, MarkAcknowledged(p) PROVE TypeOK'
  BY <1>41, StateNames DEF MarkAcknowledged, At, Goto, Transition, rowVars,
     clockVars, worldVars, Labels
<1>42. ASSUME NEW p \in Runs, RecordEvidence(p) PROVE TypeOK'
  BY <1>42, BlankIsFrame DEF RecordEvidence, At, Goto, Return, rowVars,
     clockVars, worldVars, Recall, Labels
<1>43. ASSUME NEW p \in Runs, RecordFailure(p) PROVE TypeOK'
  <2>1. pc' \in [Runs -> Labels]
    BY <1>43 DEF RecordFailure, Goto, Labels
  <2>2. local' \in [Runs -> Frames]
    BY <1>43 DEF RecordFailure
  <2> QED
    BY <2>1, <2>2, <1>43, UpdateRowType DEF RecordFailure, At, clockVars,
       worldVars, RowStates, Frames
<1>44. ASSUME NEW p \in Runs, SendToReview(p) PROVE TypeOK'
  BY <1>44, BlankIsFrame, StateNames DEF SendToReview, At, Goto, Return,
     Transition, TransitionThrows, rowVars, clockVars, worldVars, Recall,
     Labels
<1>45. ASSUME NEW p \in Runs, BookSuspense(p) PROVE TypeOK'
  <2>1. pc' \in [Runs -> Labels]
    BY <1>45 DEF BookSuspense, Return, Goto, Labels
  <2>2. local' \in [Runs -> Frames]
    BY <1>45, BlankIsFrame, RecallType DEF BookSuspense, Return
  <2>3. ledger' \in SUBSET GroupKinds
    BY <1>45 DEF BookSuspense, AlreadyBooked, AppendGroup, GroupKinds
  <2> QED
    BY <2>1, <2>2, <2>3, <1>45 DEF BookSuspense, AlreadyBooked, AppendGroup,
       clockVars, worldVars
<1>46. ASSUME NEW p \in Runs, FailAfterPayment(p) PROVE TypeOK'
  BY <1>46, BlankIsFrame, StateNames DEF FailAfterPayment, At, Return,
     Transition, TransitionThrows, rowVars, clockVars, worldVars, Goto,
     Recall, Labels
<1>47. ASSUME NEW p \in Runs, FailBeforePayment(p) PROVE TypeOK'
  BY <1>47, StateNames DEF FailBeforePayment, At, Goto, Transition,
     TransitionThrows, rowVars, clockVars, worldVars, Labels
<1>48. ASSUME NEW p \in Runs, BookRefund(p) PROVE TypeOK'
  <2>1. pc' \in [Runs -> Labels]
    BY <1>48 DEF BookRefund, Goto, Labels
  <2>2. local' \in [Runs -> Frames]
    BY <1>48 DEF BookRefund
  <2> QED
    BY <2>1, <2>2, <1>48 DEF BookRefund, At, AlreadyBooked, AppendGroup,
       clockVars, worldVars, GroupKinds
<1>49. ASSUME NEW p \in Runs, MarkRefundPending(p) PROVE TypeOK'
  BY <1>49, StateNames DEF MarkRefundPending, At, Goto, Transition, rowVars,
     clockVars, worldVars, Labels
<1>50. ASSUME NEW p \in Runs, AwaitDelivery(p) PROVE TypeOK'
  BY <1>50, StateNames DEF AwaitDelivery, At, Goto, Transition,
     TransitionThrows, rowVars, clockVars, worldVars, Labels
<1>51. ASSUME NEW p \in Runs, VerifyDelivery(p) PROVE TypeOK'
  BY <1>51, StateNames DEF VerifyDelivery, At, Goto, Transition,
     TransitionThrows, rowVars, clockVars, worldVars, Labels
<1>52. ASSUME NEW p \in Runs, Recognise(p) PROVE TypeOK'
  <2>1. pc' \in [Runs -> Labels]
    BY <1>52 DEF Recognise, Goto, Labels
  <2>2. local' \in [Runs -> Frames]
    BY <1>52 DEF Recognise
  <2> QED
    BY <2>1, <2>2, <1>52 DEF Recognise, At, AlreadyBooked, AppendGroup,
       clockVars, worldVars, GroupKinds
<1>53. ASSUME NEW p \in Runs, Complete(p) PROVE TypeOK'
  BY <1>53, StateNames DEF Complete, At, Goto, Transition, rowVars, clockVars,
     worldVars, Labels
<1>54. ASSUME NEW p \in Runs, Expire(p) PROVE TypeOK'
  BY <1>54, BlankIsFrame, StateNames DEF Expire, At, Return, Transition,
     TransitionThrows, rowVars, clockVars, worldVars, Goto, Recall, Labels
<1>55. ASSUME NEW p \in Runs, AskProvider(p) PROVE TypeOK'
  BY <1>55, BlankIsFrame DEF AskProvider, At, Goto, Return, rowVars,
     clockVars, worldVars, Recall, Labels, LeaveToHuman
<1>56. ASSUME NEW p \in Runs, AcknowledgeRow(p) PROVE TypeOK'
  BY <1>56, BlankIsFrame, UpdateRowType DEF AcknowledgeRow, At, Return,
     clockVars, worldVars, Goto, Recall, Labels, RowStates, Frames
<1>57. ASSUME NEW p \in Runs, RunDies(p) PROVE TypeOK'
  BY <1>57, BlankIsFrame, BoundsAssumption, PolicyAssumption DEF RunDies, At,
     Return, rowVars, clockVars, Goto, Recall, Labels, Outcomes
<1>58. ASSUME NEW p \in Runs, StoreThrows(p) PROVE TypeOK'
  BY <1>58, BlankIsFrame, BoundsAssumption, PolicyAssumption DEF StoreThrows,
     Goto, rowVars, clockVars, Labels, Outcomes, LeaveToHuman, At, Return, Recall
<1>59. ASSUME WindowLapses PROVE TypeOK'
  BY <1>59 DEF WindowLapses, rowVars, worldVars, runVars
<1>60. ASSUME QuoteLapses PROVE TypeOK'
  BY <1>60 DEF QuoteLapses, rowVars, worldVars, runVars
<1>61. ASSUME CapabilityLapses PROVE TypeOK'
  BY <1>61 DEF CapabilityLapses, clockVars, worldVars, runVars
<1>62. ASSUME RowsAge PROVE TypeOK'
  BY <1>62 DEF RowsAge, rowVars, worldVars, runVars
<1>63. ASSUME EditPolicy PROVE TypeOK'
  BY <1>63, BoundsAssumption, PolicyAssumption DEF EditPolicy, rowVars,
     clockVars, runVars, Outcomes, Versions
<1>64. ASSUME OperatorAnswers PROVE TypeOK'
  BY <1>64, BoundsAssumption, PolicyAssumption DEF OperatorAnswers, rowVars,
     clockVars, runVars, Outcomes
<1>65. ASSUME UNCHANGED vars PROVE TypeOK'
  BY <1>65 DEF vars, rowVars, clockVars, worldVars, runVars
<1> QED
  BY <1>1, <1>2, <1>3, <1>4, <1>5, <1>6, <1>7, <1>8, <1>9, <1>10, <1>11,
     <1>12, <1>13, <1>14, <1>15, <1>16, <1>17, <1>18, <1>19, <1>20, <1>21,
     <1>22, <1>23, <1>24, <1>25, <1>26, <1>27, <1>28, <1>29, <1>30, <1>31,
     <1>32, <1>33, <1>34, <1>35, <1>36, <1>37, <1>38, <1>39, <1>40, <1>41,
     <1>42, <1>43, <1>44, <1>45, <1>46, <1>47, <1>48, <1>49, <1>50, <1>51,
     <1>52, <1>53, <1>54, <1>55, <1>56, <1>57, <1>58, <1>59, <1>60, <1>61,
     <1>62, <1>63, <1>64, <1>65 DEF Next, BeginRequest, Continue, World

\* A fresh intent and idle runs are well typed.
LEMMA TypeInit == Init => TypeOK
<1> SUFFICES ASSUME Init
             PROVE  TypeOK
  OBVIOUS
<1>1. StoreTypeOK
  <2>1. state \in States
    BY StateNames DEF Init, StoreInit
  <2>2. approval \in Approvals /\ execs \in Seq(RowStates)
    BY DEF Init, StoreInit, Approvals
  <2> QED BY <2>1, <2>2 DEF Init, StoreInit, StoreTypeOK
<1>2. pc \in [Runs -> Labels] /\ local \in [Runs -> Frames]
  BY BlankIsFrame DEF Init, Labels
<1>3. charges \in 0..MaxCharges /\ faults \in 0..MaxFaults
  BY BoundsAssumption DEF Init
<1> QED BY <1>1, <1>2, <1>3 DEF Init, TypeOK

\* Every variable keeps its type in every behaviour of the orchestrator.
THEOREM TypeCorrect == Spec => []TypeOK
<1> QED BY TypeInit, TypeNext, PTL DEF Spec

-----------------------------------------------------------------------------
\* No step breaks the invariant; the step that pays is the one with an argument.
LEMMA SafeNext == IInv /\ [Next]_vars => Safe'
<1> SUFFICES ASSUME IInv, [Next]_vars
             PROVE  Safe'
  OBVIOUS
<1> USE DEF IInv, TypeOK, StoreTypeOK, Safe, OneSpender, RowsMatch,
       LedgerMatchesState, PaidIsBooked, OperatorAgreed, Committed,
       Acknowledged, Aborted, Undecided, Agreed, Spending, Paying, Asking
<1>1. ASSUME NEW p \in Runs, NEW goal \in {"DISCOVERING", "QUOTED"}, BeginOffer(p, goal)
      PROVE  Safe'
  BY <1>1 DEF BeginOffer, At, Goto, Recall, rowVars, clockVars, worldVars
<1>2. ASSUME NEW p \in Runs, PollApproval(p) PROVE Safe'
  BY <1>2 DEF PollApproval, At, Goto, Recall, rowVars, clockVars, worldVars
<1>3. ASSUME NEW p \in Runs, BeginFunding(p) PROVE Safe'
  BY <1>3 DEF BeginFunding, At, Goto, rowVars, clockVars, worldVars
<1>4. ASSUME NEW p \in Runs, PriceFunding(p) PROVE Safe'
  BY <1>4 DEF PriceFunding, At, Goto, rowVars, clockVars, worldVars
<1>5. ASSUME NEW p \in Runs, BeginQueue(p) PROVE Safe'
  BY <1>5 DEF BeginQueue, At, Goto, rowVars, clockVars, worldVars
<1>6. ASSUME NEW p \in Runs, PayFunding(p) PROVE Safe'
  BY <1>6 DEF PayFunding, At, Goto, rowVars, clockVars
<1>7. ASSUME NEW p \in Runs, BeginExecution(p) PROVE Safe'
  BY <1>7 DEF BeginExecution, At, Goto, rowVars, clockVars, worldVars
<1>8. ASSUME NEW p \in Runs, BeginVerify(p) PROVE Safe'
  BY <1>8 DEF BeginVerify, At, Goto, rowVars, clockVars, worldVars
<1>9. ASSUME NEW p \in Runs, FindExpirable(p) PROVE Safe'
  BY <1>9 DEF FindExpirable, At, Goto, Recall, rowVars, clockVars, worldVars
<1>10. ASSUME NEW p \in Runs, FindAmbiguous(p) PROVE Safe'
  BY <1>10 DEF FindAmbiguous, At, Goto, Recall, rowVars, clockVars, worldVars
<1>11. ASSUME NEW p \in Runs, MintDiscovery(p) PROVE Safe'
  BY <1>11 DEF MintDiscovery, At, Goto, Recall, SlotTaken, MintCapability,
     clockVars, worldVars
<1>12. ASSUME NEW p \in Runs, ReceiveOffer(p) PROVE Safe'
  BY <1>12 DEF ReceiveOffer, At, Goto, Recall, Release, clockVars, worldVars,
     Consume
<1>13. ASSUME NEW p \in Runs, OfferFails(p) PROVE Safe'
  BY <1>13 DEF OfferFails, At, Goto, Recall, Release, clockVars, worldVars,
     Consume, LeaveOffer
<1>14. ASSUME NEW p \in Runs, Terminalise(p) PROVE Safe'
  BY <1>14 DEF Terminalise, At, Return, Transition, rowVars, clockVars,
     worldVars, Goto, Recall
<1>15. ASSUME NEW p \in Runs, PublishOffer(p) PROVE Safe'
  <2>1. CASE Transition(local[p].seen, local[p].goal)
    BY <1>15, <2>1, EdgesFromEarly DEF PublishOffer, At, Goto, Recall, Transition,
       TransitionThrows, rowVars, worldVars, Frames
  <2>2. CASE TransitionThrows(local[p].seen, local[p].goal)
    BY <1>15, <2>2 DEF PublishOffer, At, Goto, Recall, Transition,
       TransitionThrows, rowVars, worldVars, LeaveOffer
  <2> QED BY <1>15, <2>1, <2>2 DEF PublishOffer
<1>16. ASSUME NEW p \in Runs, ReadPolicy(p) PROVE Safe'
  BY <1>16 DEF ReadPolicy, At, Goto, Recall, Return, rowVars, clockVars,
     worldVars
<1>17. ASSUME NEW p \in Runs, BeginCheck(p) PROVE Safe'
  <2>1. OneSpender'
    BY <1>17, EdgesFromEarly DEF BeginCheck, At, Goto, Return, Transition,
       TransitionThrows, rowVars, clockVars, worldVars, Recall, Frames
  <2>2. RowsMatch'
    BY <1>17, EdgesFromEarly DEF BeginCheck, At, Goto, Return, Transition,
       TransitionThrows, rowVars, clockVars, worldVars, Recall, Frames
  <2>3. LedgerMatchesState'
    BY <1>17, EdgesFromEarly DEF BeginCheck, At, Goto, Return, Transition,
       TransitionThrows, rowVars, clockVars, worldVars, Recall, Frames
  <2>4. PaidIsBooked'
    BY <1>17, EdgesFromEarly DEF BeginCheck, At, Goto, Return, Transition,
       TransitionThrows, rowVars, clockVars, worldVars, Recall, Frames
  <2>5. OperatorAgreed'
    <3>1. local[p].seen \in States
      BY DEF Frames
    <3>2. CASE Transition(local[p].seen, "POLICY_CHECKING") /\ Goto(p, "decide")
               /\ UNCHANGED local
      <4>1. state \in Undecided /\ operator = "NONE"
        BY <3>1, <3>2, EdgesFromEarly DEF Transition
      <4> QED BY <1>17, <3>2, <4>1 DEF BeginCheck, At, Goto, Transition,
                rowVars, clockVars, worldVars
    <3>3. CASE TransitionThrows(local[p].seen, "POLICY_CHECKING") /\ Return(p)
      BY <1>17, <3>3 DEF BeginCheck, At, Goto, Return, Recall,
         TransitionThrows, rowVars, clockVars, worldVars
    <3> QED BY <1>17, <3>2, <3>3 DEF BeginCheck
  <2> QED BY <2>1, <2>2, <2>3, <2>4, <2>5 DEF Safe
<1>18. ASSUME NEW p \in Runs, Decide(p) PROVE Safe'
  BY <1>18 DEF Decide, At, Goto, Recall, Return, Transition, clockVars,
     worldVars
<1>19. ASSUME NEW p \in Runs, InsertApproval(p) PROVE Safe'
  BY <1>19 DEF InsertApproval, At, Goto, UpsertApproval, clockVars, worldVars
<1>20. ASSUME NEW p \in Runs, AskOperator(p) PROVE Safe'
  BY <1>20 DEF AskOperator, At, Goto, rowVars, clockVars
<1>21. ASSUME NEW p \in Runs, RereadApproval(p) PROVE Safe'
  BY <1>21 DEF RereadApproval, At, Goto, Recall, Return, rowVars, clockVars,
     worldVars
<1>22. ASSUME NEW p \in Runs, RewriteApproval(p) PROVE Safe'
  BY <1>22 DEF RewriteApproval, At, Return, UpsertApproval, clockVars,
     worldVars, Goto, Recall
<1>23. ASSUME NEW p \in Runs, StoreOutcome(p) PROVE Safe'
  BY <1>23 DEF StoreOutcome, At, Goto, ResolveApproval, clockVars, worldVars
<1>24. ASSUME NEW p \in Runs, ApplyOutcome(p) PROVE Safe'
  BY <1>24 DEF ApplyOutcome, At, Goto, Recall, Transition, TransitionThrows,
     rowVars, clockVars, worldVars
<1>25. ASSUME NEW p \in Runs, ReadForFunding(p) PROVE Safe'
  BY <1>25 DEF ReadForFunding, At, Goto, Recall, Return, rowVars, clockVars,
     worldVars
<1>26. ASSUME NEW p \in Runs, RequestFunding(p) PROVE Safe'
  <2>1. OneSpender'
    BY <1>26, EdgesToFunding DEF RequestFunding, At, Goto, Recall, Transition,
       TransitionThrows, rowVars, worldVars, Frames
  <2>2. RowsMatch'
    BY <1>26, EdgesToFunding DEF RequestFunding, At, Goto, Recall, Transition,
       TransitionThrows, rowVars, worldVars, Frames
  <2>3. LedgerMatchesState'
    BY <1>26, EdgesToFunding DEF RequestFunding, At, Goto, Recall, Transition,
       TransitionThrows, rowVars, worldVars, Frames
  <2>4. PaidIsBooked'
    BY <1>26, EdgesToFunding DEF RequestFunding, At, Goto, Recall, Transition,
       TransitionThrows, rowVars, worldVars, Frames
  <2>5. OperatorAgreed'
    BY <1>26, EdgesToFunding DEF RequestFunding, At, Goto, Recall, Transition,
       TransitionThrows, rowVars, worldVars, Frames
  <2> QED BY <2>1, <2>2, <2>3, <2>4, <2>5 DEF Safe
<1>27. ASSUME NEW p \in Runs, RecordFunding(p) PROVE Safe'
  BY <1>27 DEF RecordFunding, At, Goto, RecordReceipt, clockVars, worldVars
<1>28. ASSUME NEW p \in Runs, MarkFunded(p) PROVE Safe'
  BY <1>28 DEF MarkFunded, At, Goto, Transition, TransitionThrows, rowVars,
     clockVars, worldVars
<1>29. ASSUME NEW p \in Runs, QueueExecution(p) PROVE Safe'
  BY <1>29 DEF QueueExecution, At, Return, Transition, TransitionThrows,
     rowVars, clockVars, worldVars, Goto, Recall
<1>30. ASSUME NEW p \in Runs, CheckApproval(p) PROVE Safe'
  BY <1>30 DEF CheckApproval, At, Goto, ApprovalBinds, rowVars, clockVars,
     worldVars
<1>31. ASSUME NEW p \in Runs, IssueCapability(p) PROVE Safe'
  BY <1>31 DEF IssueCapability, At, Goto, Recall, SlotTaken, MintCapability,
     clockVars, worldVars
<1>32. ASSUME NEW p \in Runs, CommitToPay(p) PROVE Safe'
  <2>1. OneSpender'
    BY <1>32 DEF CommitToPay, At, Goto, Return, Transition, TransitionThrows,
       rowVars, clockVars, worldVars, Recall
  <2>2. RowsMatch'
    BY <1>32 DEF CommitToPay, At, Goto, Return, Transition, TransitionThrows,
       rowVars, clockVars, worldVars, Recall
  <2>3. LedgerMatchesState'
    BY <1>32 DEF CommitToPay, At, Goto, Return, Transition, TransitionThrows,
       rowVars, clockVars, worldVars, Recall
  <2>4. PaidIsBooked'
    BY <1>32 DEF CommitToPay, At, Goto, Return, Transition, TransitionThrows,
       rowVars, clockVars, worldVars, Recall
  <2>5. OperatorAgreed'
    BY <1>32 DEF CommitToPay, At, Goto, Return, Transition, TransitionThrows,
       rowVars, clockVars, worldVars, Recall
  <2> QED BY <2>1, <2>2, <2>3, <2>4, <2>5 DEF Safe
<1>33. ASSUME NEW p \in Runs, PrepareExecution(p) PROVE Safe'
  BY <1>33, AppendProperties DEF PrepareExecution, At, Goto, Recall,
     InsertRow, worldVars
<1>34. ASSUME NEW p \in Runs, AdapterRefuses(p) PROVE Safe'
  BY <1>34 DEF AdapterRefuses, At, Goto, rowVars, clockVars, worldVars
<1>35. ASSUME NEW p \in Runs, RedeemCapability(p) PROVE Safe'
  BY <1>35 DEF RedeemCapability, At, Goto, Recall, Consume, clockVars,
     worldVars
<1>36. ASSUME NEW p \in Runs, RailPays(p) PROVE Safe'
  <2>1. state \in Committed /\ paid = 0 /\ Len(execs) = 1
    BY <1>36 DEF RailPays, At
  <2>2. paid' \in {0, 1} /\ UNCHANGED <<state, execs, ledger, receipt, operator, needsApproval, local>>
    BY <1>36, <2>1 DEF RailPays, rowVars
  <2>3. PICK l \in {"answer", "caught_maybe", "caught_never"} :
           Goto(p, l) /\ (l = "answer" => paid' = 1)
    BY <1>36, <2>1 DEF RailPays
  <2>4. OneSpender'
    BY <1>36, <2>1, <2>2, <2>3 DEF RailPays, At, Goto
  <2>5. RowsMatch'
    BY <2>1, <2>2, <2>3 DEF Goto
  <2>6. LedgerMatchesState' /\ OperatorAgreed'
    BY <2>2, <2>3 DEF Goto
  <2>7. PaidIsBooked'
    <3>1. state \notin Acknowledged
      BY <2>1
    <3>2. \A q \in Runs : pc[q] \notin Paying
      BY <2>1
    <3> QED BY <2>2, <2>3, <3>1, <3>2 DEF Goto
  <2> QED BY <2>4, <2>5, <2>6, <2>7
<1>37. ASSUME NEW p \in Runs, ProviderAnswers(p) PROVE Safe'
  BY <1>37 DEF ProviderAnswers, At, Goto, rowVars, clockVars, worldVars
<1>38. ASSUME NEW p \in Runs, RecordPaid(p) PROVE Safe'
  BY <1>38 DEF RecordPaid, At, Goto, UpdateRow, clockVars, worldVars
<1>39. ASSUME NEW p \in Runs, BookSettlement(p) PROVE Safe'
  BY <1>39 DEF BookSettlement, At, Goto, AlreadyBooked, AppendGroup,
     UpdateRow, clockVars, worldVars
<1>40. ASSUME NEW p \in Runs, MarkPaid(p) PROVE Safe'
  BY <1>40 DEF MarkPaid, At, Goto, Transition, TransitionThrows, rowVars,
     clockVars, worldVars
<1>41. ASSUME NEW p \in Runs, MarkAcknowledged(p) PROVE Safe'
  BY <1>41 DEF MarkAcknowledged, At, Goto, Transition, rowVars, clockVars,
     worldVars
<1>42. ASSUME NEW p \in Runs, RecordEvidence(p) PROVE Safe'
  BY <1>42 DEF RecordEvidence, At, Goto, Return, rowVars, clockVars,
     worldVars, Recall
<1>43. ASSUME NEW p \in Runs, RecordFailure(p) PROVE Safe'
  BY <1>43 DEF RecordFailure, At, Goto, UpdateRow, clockVars, worldVars
<1>44. ASSUME NEW p \in Runs, SendToReview(p) PROVE Safe'
  BY <1>44 DEF SendToReview, At, Goto, Return, Transition, TransitionThrows,
     rowVars, clockVars, worldVars, Recall
<1>45. ASSUME NEW p \in Runs, BookSuspense(p) PROVE Safe'
  BY <1>45 DEF BookSuspense, At, Return, AlreadyBooked, AppendGroup,
     clockVars, worldVars, Goto, Recall
<1>46. ASSUME NEW p \in Runs, FailAfterPayment(p) PROVE Safe'
  BY <1>46 DEF FailAfterPayment, At, Return, Transition, TransitionThrows,
     rowVars, clockVars, worldVars, Goto, Recall
<1>47. ASSUME NEW p \in Runs, FailBeforePayment(p) PROVE Safe'
  BY <1>47 DEF FailBeforePayment, At, Goto, Transition, TransitionThrows,
     rowVars, clockVars, worldVars
<1>48. ASSUME NEW p \in Runs, BookRefund(p) PROVE Safe'
  BY <1>48 DEF BookRefund, At, Goto, AlreadyBooked, AppendGroup, clockVars,
     worldVars
<1>49. ASSUME NEW p \in Runs, MarkRefundPending(p) PROVE Safe'
  BY <1>49 DEF MarkRefundPending, At, Goto, Transition, rowVars, clockVars,
     worldVars
<1>50. ASSUME NEW p \in Runs, AwaitDelivery(p) PROVE Safe'
  BY <1>50 DEF AwaitDelivery, At, Goto, Transition, TransitionThrows, rowVars,
     clockVars, worldVars
<1>51. ASSUME NEW p \in Runs, VerifyDelivery(p) PROVE Safe'
  BY <1>51 DEF VerifyDelivery, At, Goto, Transition, TransitionThrows,
     rowVars, clockVars, worldVars
<1>52. ASSUME NEW p \in Runs, Recognise(p) PROVE Safe'
  BY <1>52 DEF Recognise, At, Goto, AlreadyBooked, AppendGroup, clockVars,
     worldVars
<1>53. ASSUME NEW p \in Runs, Complete(p) PROVE Safe'
  BY <1>53 DEF Complete, At, Goto, Transition, rowVars, clockVars, worldVars
<1>54. ASSUME NEW p \in Runs, Expire(p) PROVE Safe'
  BY <1>54, EdgesFromEarly DEF Expire, At, Return, Transition,
     TransitionThrows, rowVars, clockVars, worldVars, Goto, Recall, Frames
<1>55. ASSUME NEW p \in Runs, AskProvider(p) PROVE Safe'
  BY <1>55 DEF AskProvider, At, Goto, Return, rowVars, clockVars, worldVars,
     Recall, LeaveToHuman
<1>56. ASSUME NEW p \in Runs, AcknowledgeRow(p) PROVE Safe'
  BY <1>56 DEF AcknowledgeRow, At, Return, UpdateRow, clockVars, worldVars,
     Goto, Recall
<1>57. ASSUME NEW p \in Runs, RunDies(p) PROVE Safe'
  BY <1>57 DEF RunDies, At, Return, rowVars, clockVars, Goto, Recall
<1>58. ASSUME NEW p \in Runs, StoreThrows(p) PROVE Safe'
  BY <1>58 DEF StoreThrows, Goto, rowVars, clockVars, LeaveToHuman, At, Return,
     Recall
<1>59. ASSUME WindowLapses PROVE Safe'
  BY <1>59 DEF WindowLapses, rowVars, worldVars, runVars
<1>60. ASSUME QuoteLapses PROVE Safe'
  BY <1>60 DEF QuoteLapses, rowVars, worldVars, runVars
<1>61. ASSUME CapabilityLapses PROVE Safe'
  BY <1>61 DEF CapabilityLapses, clockVars, worldVars, runVars
<1>62. ASSUME RowsAge PROVE Safe'
  BY <1>62 DEF RowsAge, rowVars, worldVars, runVars
<1>63. ASSUME EditPolicy PROVE Safe'
  BY <1>63 DEF EditPolicy, rowVars, clockVars, runVars
<1>64. ASSUME OperatorAnswers PROVE Safe'
  BY <1>64 DEF OperatorAnswers, rowVars, clockVars, runVars
<1>65. ASSUME UNCHANGED vars PROVE Safe'
  BY <1>65 DEF vars, rowVars, clockVars, worldVars, runVars
<1> QED
  BY <1>1, <1>2, <1>3, <1>4, <1>5, <1>6, <1>7, <1>8, <1>9, <1>10, <1>11,
     <1>12, <1>13, <1>14, <1>15, <1>16, <1>17, <1>18, <1>19, <1>20, <1>21,
     <1>22, <1>23, <1>24, <1>25, <1>26, <1>27, <1>28, <1>29, <1>30, <1>31,
     <1>32, <1>33, <1>34, <1>35, <1>36, <1>37, <1>38, <1>39, <1>40, <1>41,
     <1>42, <1>43, <1>44, <1>45, <1>46, <1>47, <1>48, <1>49, <1>50, <1>51,
     <1>52, <1>53, <1>54, <1>55, <1>56, <1>57, <1>58, <1>59, <1>60, <1>61,
     <1>62, <1>63, <1>64, <1>65 DEF Next, BeginRequest, Continue, World

\* The invariant behind everything below.
THEOREM Invariance == Spec => []IInv
<1>1. Init => IInv
  <2>1. Init => Safe
    BY SMT DEF Init, StoreInit, Safe, OneSpender, RowsMatch, LedgerMatchesState,
           PaidIsBooked, OperatorAgreed, Committed, Aborted, Acknowledged, Undecided,
           Agreed, Spending, Paying, Asking
  <2> QED BY <2>1, TypeInit DEF IInv
<1>2. IInv /\ [Next]_vars => IInv'
  BY TypeNext, SafeNext DEF IInv
<1> QED BY <1>1, <1>2, PTL DEF Spec

\* However ticks overlap and die, the provider is paid at most once.
THEOREM PaysOnce == Spec => []PaidAtMostOnce
<1>1. IInv => PaidAtMostOnce
  BY DEF IInv, Safe, OneSpender, PaidAtMostOnce
<1> QED BY <1>1, Invariance, PTL

\* No payment without its row, and no second row.
THEOREM PaysOnRecord == Spec => []PaymentOnRecord
<1>1. IInv => PaymentOnRecord
  BY DEF IInv, Safe, RowsMatch, PaymentOnRecord
<1> QED BY <1>1, Invariance, PTL

\* No payment before the caller's money is booked.
THEOREM PaysFromFunding == Spec => []PaymentFunded
<1>1. IInv => PaymentFunded
  BY DEF IInv, TypeOK, Safe, OneSpender, LedgerMatchesState, PaymentFunded
<1> QED BY <1>1, Invariance, PTL

\* A payment and a refund, or a state that denies the payment, exclude each other.
THEOREM NeverPaidAndRefunded == Spec => []PaidNeverRefunded
<1>1. IInv => PaidNeverRefunded
  BY DEF IInv, TypeOK, Safe, OneSpender, LedgerMatchesState, Committed, Aborted,
         PaidNeverRefunded
<1> QED BY <1>1, Invariance, PTL

\* The obligation to the caller is discharged at most once, and never unfunded.
THEOREM DischargesOnce == Spec => []DischargedOnce
<1>1. IInv => DischargedOnce
  <2> SUFFICES ASSUME IInv PROVE DischargedOnce
    OBVIOUS
  <2>1. \A k1, k2 \in Discharges : k1 \in ledger /\ k2 \in ledger => k1 = k2
    BY DEF IInv, Safe, LedgerMatchesState, Discharges, Aborted
  <2>2. \A k \in Discharges : k \in ledger => "FUNDING" \in ledger
    BY DEF IInv, Safe, LedgerMatchesState, Discharges, Committed
  <2> QED BY <2>1, <2>2 DEF DischargedOnce, Obligation, Discharges
<1> QED BY <1>1, Invariance, PTL

\* A completed intent owes nothing and has its settlement booked.
THEOREM CompletesSettled == Spec => []CompletedIsSettled
<1>1. IInv => CompletedIsSettled
  BY DEF IInv, Safe, LedgerMatchesState, PaidIsBooked, Committed, Aborted,
         Acknowledged, CompletedIsSettled, Obligation
<1> QED BY <1>1, Invariance, PTL

\* An escalated purchase is paid for only after the operator's yes.
THEOREM PaysAsApproved == Spec => []NoPaymentWithoutApproval
<1>1. IInv => NoPaymentWithoutApproval
  BY DEF IInv, TypeOK, Safe, OneSpender, OperatorAgreed, Agreed, NoPaymentWithoutApproval
<1> QED BY <1>1, Invariance, PTL

-----------------------------------------------------------------------------
\* Every step of the orchestrator is a step of PurchasePromise under the
\* refinement mapping, or leaves money, payments and verdict as they are.
LEMMA StepRefines == IInv /\ [Next]_vars => [Promise!Next]_(Promise!vars)
<1> SUFFICES ASSUME IInv, [Next]_vars
             PROVE  [Promise!Next]_(Promise!vars)
  OBVIOUS
<1> USE DEF IInv, TypeOK, StoreTypeOK
<1>1. ASSUME NEW p \in Runs, NEW goal \in {"DISCOVERING", "QUOTED"}, BeginOffer(p, goal)
      PROVE  [Promise!Next]_(Promise!vars)
  BY <1>1 DEF BeginOffer, At, Goto, Recall, rowVars, clockVars, worldVars,
     Money, Verdict, Promise!vars
<1>2. ASSUME NEW p \in Runs, PollApproval(p) PROVE [Promise!Next]_(Promise!vars)
  BY <1>2 DEF PollApproval, At, Goto, Recall, rowVars, clockVars, worldVars,
     Money, Verdict, Promise!vars
<1>3. ASSUME NEW p \in Runs, BeginFunding(p) PROVE [Promise!Next]_(Promise!vars)
  BY <1>3 DEF BeginFunding, At, Goto, rowVars, clockVars, worldVars, Money,
     Verdict, Promise!vars
<1>4. ASSUME NEW p \in Runs, PriceFunding(p) PROVE [Promise!Next]_(Promise!vars)
  BY <1>4 DEF PriceFunding, At, Goto, rowVars, clockVars, worldVars, Money,
     Verdict, Promise!vars
<1>5. ASSUME NEW p \in Runs, BeginQueue(p) PROVE [Promise!Next]_(Promise!vars)
  BY <1>5 DEF BeginQueue, At, Goto, rowVars, clockVars, worldVars, Money,
     Verdict, Promise!vars
<1>6. ASSUME NEW p \in Runs, PayFunding(p) PROVE [Promise!Next]_(Promise!vars)
  BY <1>6 DEF PayFunding, At, Goto, rowVars, clockVars, Money, Verdict,
     Promise!vars
<1>7. ASSUME NEW p \in Runs, BeginExecution(p)
      PROVE  [Promise!Next]_(Promise!vars)
  BY <1>7 DEF BeginExecution, At, Goto, rowVars, clockVars, worldVars, Money,
     Verdict, Promise!vars
<1>8. ASSUME NEW p \in Runs, BeginVerify(p) PROVE [Promise!Next]_(Promise!vars)
  BY <1>8 DEF BeginVerify, At, Goto, rowVars, clockVars, worldVars, Money,
     Verdict, Promise!vars
<1>9. ASSUME NEW p \in Runs, FindExpirable(p)
      PROVE  [Promise!Next]_(Promise!vars)
  BY <1>9 DEF FindExpirable, At, Goto, Recall, rowVars, clockVars, worldVars,
     Money, Verdict, Promise!vars
<1>10. ASSUME NEW p \in Runs, FindAmbiguous(p)
      PROVE  [Promise!Next]_(Promise!vars)
  BY <1>10 DEF FindAmbiguous, At, Goto, Recall, rowVars, clockVars, worldVars,
     Money, Verdict, Promise!vars
<1>11. ASSUME NEW p \in Runs, MintDiscovery(p)
      PROVE  [Promise!Next]_(Promise!vars)
  BY <1>11 DEF MintDiscovery, At, Goto, Recall, SlotTaken, MintCapability,
     clockVars, worldVars, Money, Verdict, Promise!vars
<1>12. ASSUME NEW p \in Runs, ReceiveOffer(p)
      PROVE  [Promise!Next]_(Promise!vars)
  BY <1>12 DEF ReceiveOffer, At, Goto, Recall, Release, clockVars, worldVars,
     Consume, Money, Verdict, Promise!vars
<1>13. ASSUME NEW p \in Runs, OfferFails(p) PROVE [Promise!Next]_(Promise!vars)
  BY <1>13 DEF OfferFails, At, Goto, Recall, Release, clockVars, worldVars,
     Consume, Money, Verdict, Promise!vars, LeaveOffer
<1>14. ASSUME NEW p \in Runs, Terminalise(p) PROVE [Promise!Next]_(Promise!vars)
  BY <1>14 DEF Terminalise, At, Return, Transition, rowVars, clockVars,
     worldVars, Goto, Recall, Money, Verdict, Promise!vars, Promise!Next,
     Promise!Abort, Safe, OneSpender, LedgerMatchesState, PaidIsBooked,
     Committed, Aborted, Acknowledged
<1>15. ASSUME NEW p \in Runs, PublishOffer(p)
      PROVE  [Promise!Next]_(Promise!vars)
  BY <1>15, EdgesFromEarly DEF PublishOffer, At, Goto, Recall, Transition,
     TransitionThrows, rowVars, worldVars, Frames, Committed, Aborted, Money,
     Verdict, Promise!vars, LeaveOffer
<1>16. ASSUME NEW p \in Runs, ReadPolicy(p) PROVE [Promise!Next]_(Promise!vars)
  BY <1>16 DEF ReadPolicy, At, Goto, Recall, Return, rowVars, clockVars,
     worldVars, Money, Verdict, Promise!vars
<1>17. ASSUME NEW p \in Runs, BeginCheck(p) PROVE [Promise!Next]_(Promise!vars)
  BY <1>17, EdgesFromEarly DEF BeginCheck, At, Goto, Return, Transition,
     TransitionThrows, rowVars, clockVars, worldVars, Recall, Frames,
     Committed, Aborted, Money, Verdict, Promise!vars
<1>18. ASSUME NEW p \in Runs, Decide(p) PROVE [Promise!Next]_(Promise!vars)
  BY <1>18 DEF Decide, At, Goto, Recall, Return, Transition, clockVars,
     worldVars, Money, Verdict, Promise!vars
<1>19. ASSUME NEW p \in Runs, InsertApproval(p)
      PROVE  [Promise!Next]_(Promise!vars)
  BY <1>19 DEF InsertApproval, At, Goto, UpsertApproval, clockVars, worldVars,
     Money, Verdict, Promise!vars
<1>20. ASSUME NEW p \in Runs, AskOperator(p) PROVE [Promise!Next]_(Promise!vars)
  BY <1>20 DEF AskOperator, At, Goto, rowVars, clockVars, Money, Verdict,
     Promise!vars
<1>21. ASSUME NEW p \in Runs, RereadApproval(p)
      PROVE  [Promise!Next]_(Promise!vars)
  BY <1>21 DEF RereadApproval, At, Goto, Recall, Return, rowVars, clockVars,
     worldVars, Money, Verdict, Promise!vars
<1>22. ASSUME NEW p \in Runs, RewriteApproval(p)
      PROVE  [Promise!Next]_(Promise!vars)
  BY <1>22 DEF RewriteApproval, At, Return, UpsertApproval, clockVars,
     worldVars, Goto, Recall, Money, Verdict, Promise!vars
<1>23. ASSUME NEW p \in Runs, StoreOutcome(p)
      PROVE  [Promise!Next]_(Promise!vars)
  BY <1>23 DEF StoreOutcome, At, Goto, ResolveApproval, clockVars, worldVars,
     Money, Verdict, Promise!vars
<1>24. ASSUME NEW p \in Runs, ApplyOutcome(p)
      PROVE  [Promise!Next]_(Promise!vars)
  BY <1>24 DEF ApplyOutcome, At, Goto, Recall, Transition, TransitionThrows,
     rowVars, clockVars, worldVars, Money, Verdict, Promise!vars
<1>25. ASSUME NEW p \in Runs, ReadForFunding(p)
      PROVE  [Promise!Next]_(Promise!vars)
  BY <1>25 DEF ReadForFunding, At, Goto, Recall, Return, rowVars, clockVars,
     worldVars, Money, Verdict, Promise!vars
<1>26. ASSUME NEW p \in Runs, RequestFunding(p)
      PROVE  [Promise!Next]_(Promise!vars)
  BY <1>26, EdgesToFunding DEF RequestFunding, At, Goto, Recall, Transition,
     TransitionThrows, rowVars, worldVars, Frames, Committed, Aborted, Money,
     Verdict, Promise!vars
<1>27. ASSUME NEW p \in Runs, RecordFunding(p)
      PROVE  [Promise!Next]_(Promise!vars)
  BY <1>27 DEF RecordFunding, At, Goto, RecordReceipt, clockVars, worldVars,
     Money, Verdict, Promise!vars, Promise!Next, Promise!Fund, Safe,
     OneSpender, LedgerMatchesState, PaidIsBooked, Committed, Aborted,
     Acknowledged
<1>28. ASSUME NEW p \in Runs, MarkFunded(p) PROVE [Promise!Next]_(Promise!vars)
  BY <1>28 DEF MarkFunded, At, Goto, Transition, TransitionThrows, rowVars,
     clockVars, worldVars, Money, Verdict, Promise!vars
<1>29. ASSUME NEW p \in Runs, QueueExecution(p)
      PROVE  [Promise!Next]_(Promise!vars)
  BY <1>29 DEF QueueExecution, At, Return, Transition, TransitionThrows,
     rowVars, clockVars, worldVars, Goto, Recall, Money, Verdict, Promise!vars
<1>30. ASSUME NEW p \in Runs, CheckApproval(p)
      PROVE  [Promise!Next]_(Promise!vars)
  BY <1>30 DEF CheckApproval, At, Goto, ApprovalBinds, rowVars, clockVars,
     worldVars, Money, Verdict, Promise!vars
<1>31. ASSUME NEW p \in Runs, IssueCapability(p)
      PROVE  [Promise!Next]_(Promise!vars)
  BY <1>31 DEF IssueCapability, At, Goto, Recall, SlotTaken, MintCapability,
     clockVars, worldVars, Money, Verdict, Promise!vars
<1>32. ASSUME NEW p \in Runs, CommitToPay(p) PROVE [Promise!Next]_(Promise!vars)
  BY <1>32 DEF CommitToPay, At, Goto, Return, Transition, TransitionThrows,
     rowVars, clockVars, worldVars, Recall, Money, Verdict, Promise!vars
<1>33. ASSUME NEW p \in Runs, PrepareExecution(p)
      PROVE  [Promise!Next]_(Promise!vars)
  BY <1>33 DEF PrepareExecution, At, Goto, Recall, InsertRow, worldVars,
     Money, Verdict, Promise!vars
<1>34. ASSUME NEW p \in Runs, AdapterRefuses(p)
      PROVE  [Promise!Next]_(Promise!vars)
  BY <1>34 DEF AdapterRefuses, At, Goto, rowVars, clockVars, worldVars, Money,
     Verdict, Promise!vars
<1>35. ASSUME NEW p \in Runs, RedeemCapability(p)
      PROVE  [Promise!Next]_(Promise!vars)
  BY <1>35 DEF RedeemCapability, At, Goto, Recall, Consume, clockVars,
     worldVars, Money, Verdict, Promise!vars
<1>36. ASSUME NEW p \in Runs, RailPays(p) PROVE [Promise!Next]_(Promise!vars)
  <2>1. state \in Committed /\ paid = 0 /\ UNCHANGED <<state, ledger>>
    BY <1>36 DEF RailPays, At, rowVars, Safe, OneSpender, Spending
  <2>2. UNCHANGED <<Money, Verdict>>
    BY <2>1 DEF Money, Verdict
  <2>3. CASE paid' = paid
    BY <2>2, <2>3 DEF Promise!vars
  <2>4. CASE paid' = paid + 1
    <3>1. state \notin Acknowledged
      BY <2>1 DEF Safe, PaidIsBooked
    <3>2. /\ "FUNDING" \in ledger
          /\ "REFUND" \notin ledger
          /\ "RECOGNITION" \notin ledger
      BY <2>1, <3>1 DEF Safe, LedgerMatchesState, Committed, Aborted, Acknowledged
    <3>3. Money \in {"held", "parked"}
      BY <3>2 DEF Money
    <3>4. Verdict \in {"open", "review"}
      BY <2>1, <3>1 DEF Verdict, Committed, Acknowledged
    <3> QED BY <2>1, <2>2, <2>4, <3>3, <3>4 DEF Promise!Next, Promise!Pay
  <2> QED BY <1>36, <2>3, <2>4 DEF RailPays
<1>37. ASSUME NEW p \in Runs, ProviderAnswers(p)
      PROVE  [Promise!Next]_(Promise!vars)
  BY <1>37 DEF ProviderAnswers, At, Goto, rowVars, clockVars, worldVars,
     Money, Verdict, Promise!vars
<1>38. ASSUME NEW p \in Runs, RecordPaid(p) PROVE [Promise!Next]_(Promise!vars)
  BY <1>38 DEF RecordPaid, At, Goto, UpdateRow, clockVars, worldVars, Money,
     Verdict, Promise!vars
<1>39. ASSUME NEW p \in Runs, BookSettlement(p)
      PROVE  [Promise!Next]_(Promise!vars)
  BY <1>39 DEF BookSettlement, At, Goto, AlreadyBooked, AppendGroup,
     UpdateRow, clockVars, worldVars, Money, Verdict, Promise!vars
<1>40. ASSUME NEW p \in Runs, MarkPaid(p) PROVE [Promise!Next]_(Promise!vars)
  BY <1>40 DEF MarkPaid, At, Goto, Transition, TransitionThrows, rowVars,
     clockVars, worldVars, Money, Verdict, Promise!vars
<1>41. ASSUME NEW p \in Runs, MarkAcknowledged(p)
      PROVE  [Promise!Next]_(Promise!vars)
  BY <1>41 DEF MarkAcknowledged, At, Goto, Transition, rowVars, clockVars,
     worldVars, Money, Verdict, Promise!vars
<1>42. ASSUME NEW p \in Runs, RecordEvidence(p)
      PROVE  [Promise!Next]_(Promise!vars)
  BY <1>42 DEF RecordEvidence, At, Goto, Return, rowVars, clockVars,
     worldVars, Recall, Money, Verdict, Promise!vars
<1>43. ASSUME NEW p \in Runs, RecordFailure(p)
      PROVE  [Promise!Next]_(Promise!vars)
  BY <1>43 DEF RecordFailure, At, Goto, UpdateRow, clockVars, worldVars,
     Money, Verdict, Promise!vars
<1>44. ASSUME NEW p \in Runs, SendToReview(p)
      PROVE  [Promise!Next]_(Promise!vars)
  BY <1>44 DEF SendToReview, At, Goto, Return, Transition, TransitionThrows,
     rowVars, clockVars, worldVars, Recall, Money, Verdict, Promise!vars,
     Promise!Next, Promise!Escalate, Safe, OneSpender, LedgerMatchesState,
     PaidIsBooked, Committed, Aborted, Acknowledged
<1>45. ASSUME NEW p \in Runs, BookSuspense(p)
      PROVE  [Promise!Next]_(Promise!vars)
  BY <1>45 DEF BookSuspense, At, Return, AlreadyBooked, AppendGroup,
     clockVars, worldVars, Goto, Recall, Money, Verdict, Promise!vars,
     Promise!Next, Promise!Park, Safe, OneSpender, LedgerMatchesState,
     PaidIsBooked, Committed, Aborted, Acknowledged
<1>46. ASSUME NEW p \in Runs, FailAfterPayment(p)
      PROVE  [Promise!Next]_(Promise!vars)
  BY <1>46 DEF FailAfterPayment, At, Return, Transition, TransitionThrows,
     rowVars, clockVars, worldVars, Goto, Recall, Money, Verdict, Promise!vars
<1>47. ASSUME NEW p \in Runs, FailBeforePayment(p)
      PROVE  [Promise!Next]_(Promise!vars)
  BY <1>47 DEF FailBeforePayment, At, Goto, Transition, TransitionThrows,
     rowVars, clockVars, worldVars, Money, Verdict, Promise!vars,
     Promise!Next, Promise!Abort, Safe, OneSpender, LedgerMatchesState,
     PaidIsBooked, Committed, Aborted, Acknowledged
<1>48. ASSUME NEW p \in Runs, BookRefund(p) PROVE [Promise!Next]_(Promise!vars)
  BY <1>48 DEF BookRefund, At, Goto, AlreadyBooked, AppendGroup, clockVars,
     worldVars, Money, Verdict, Promise!vars, Promise!Next, Promise!Refund,
     Safe, OneSpender, LedgerMatchesState, PaidIsBooked, Committed, Aborted,
     Acknowledged
<1>49. ASSUME NEW p \in Runs, MarkRefundPending(p)
      PROVE  [Promise!Next]_(Promise!vars)
  BY <1>49 DEF MarkRefundPending, At, Goto, Transition, rowVars, clockVars,
     worldVars, Money, Verdict, Promise!vars
<1>50. ASSUME NEW p \in Runs, AwaitDelivery(p)
      PROVE  [Promise!Next]_(Promise!vars)
  BY <1>50 DEF AwaitDelivery, At, Goto, Transition, TransitionThrows, rowVars,
     clockVars, worldVars, Money, Verdict, Promise!vars
<1>51. ASSUME NEW p \in Runs, VerifyDelivery(p)
      PROVE  [Promise!Next]_(Promise!vars)
  BY <1>51 DEF VerifyDelivery, At, Goto, Transition, TransitionThrows,
     rowVars, clockVars, worldVars, Money, Verdict, Promise!vars
<1>52. ASSUME NEW p \in Runs, Recognise(p) PROVE [Promise!Next]_(Promise!vars)
  BY <1>52 DEF Recognise, At, Goto, AlreadyBooked, AppendGroup, clockVars,
     worldVars, Money, Verdict, Promise!vars, Promise!Next, Promise!Recognise,
     Safe, OneSpender, LedgerMatchesState, PaidIsBooked, Committed, Aborted,
     Acknowledged
<1>53. ASSUME NEW p \in Runs, Complete(p) PROVE [Promise!Next]_(Promise!vars)
  BY <1>53 DEF Complete, At, Goto, Transition, rowVars, clockVars, worldVars,
     Money, Verdict, Promise!vars, Promise!Next, Promise!Complete, Safe,
     OneSpender, LedgerMatchesState, PaidIsBooked, Committed, Aborted,
     Acknowledged
<1>54. ASSUME NEW p \in Runs, Expire(p) PROVE [Promise!Next]_(Promise!vars)
  BY <1>54, EdgesFromEarly DEF Expire, At, Return, Transition,
     TransitionThrows, rowVars, clockVars, worldVars, Goto, Recall, Frames,
     Committed, Aborted, Money, Verdict, Promise!vars
<1>55. ASSUME NEW p \in Runs, AskProvider(p) PROVE [Promise!Next]_(Promise!vars)
  BY <1>55 DEF AskProvider, At, Goto, Return, rowVars, clockVars, worldVars,
     Recall, Money, Verdict, Promise!vars, LeaveToHuman
<1>56. ASSUME NEW p \in Runs, AcknowledgeRow(p)
      PROVE  [Promise!Next]_(Promise!vars)
  BY <1>56 DEF AcknowledgeRow, At, Return, UpdateRow, clockVars, worldVars,
     Goto, Recall, Money, Verdict, Promise!vars
<1>57. ASSUME NEW p \in Runs, RunDies(p) PROVE [Promise!Next]_(Promise!vars)
  BY <1>57 DEF RunDies, At, Return, rowVars, clockVars, Goto, Recall, Money,
     Verdict, Promise!vars
<1>58. ASSUME NEW p \in Runs, StoreThrows(p) PROVE [Promise!Next]_(Promise!vars)
  BY <1>58 DEF StoreThrows, Goto, rowVars, clockVars, Money, Verdict,
     Promise!vars, LeaveToHuman, At, Return, Recall
<1>59. ASSUME WindowLapses PROVE [Promise!Next]_(Promise!vars)
  BY <1>59 DEF WindowLapses, rowVars, worldVars, runVars, Money, Verdict,
     Promise!vars
<1>60. ASSUME QuoteLapses PROVE [Promise!Next]_(Promise!vars)
  BY <1>60 DEF QuoteLapses, rowVars, worldVars, runVars, Money, Verdict,
     Promise!vars
<1>61. ASSUME CapabilityLapses PROVE [Promise!Next]_(Promise!vars)
  BY <1>61 DEF CapabilityLapses, clockVars, worldVars, runVars, Money,
     Verdict, Promise!vars
<1>62. ASSUME RowsAge PROVE [Promise!Next]_(Promise!vars)
  BY <1>62 DEF RowsAge, rowVars, worldVars, runVars, Money, Verdict,
     Promise!vars
<1>63. ASSUME EditPolicy PROVE [Promise!Next]_(Promise!vars)
  BY <1>63 DEF EditPolicy, rowVars, clockVars, runVars, Money, Verdict,
     Promise!vars
<1>64. ASSUME OperatorAnswers PROVE [Promise!Next]_(Promise!vars)
  BY <1>64 DEF OperatorAnswers, rowVars, clockVars, runVars, Money, Verdict,
     Promise!vars
<1>65. ASSUME UNCHANGED vars PROVE [Promise!Next]_(Promise!vars)
  BY <1>65 DEF vars, rowVars, clockVars, worldVars, runVars, Money, Verdict,
     Promise!vars
<1> QED
  BY <1>1, <1>2, <1>3, <1>4, <1>5, <1>6, <1>7, <1>8, <1>9, <1>10, <1>11,
     <1>12, <1>13, <1>14, <1>15, <1>16, <1>17, <1>18, <1>19, <1>20, <1>21,
     <1>22, <1>23, <1>24, <1>25, <1>26, <1>27, <1>28, <1>29, <1>30, <1>31,
     <1>32, <1>33, <1>34, <1>35, <1>36, <1>37, <1>38, <1>39, <1>40, <1>41,
     <1>42, <1>43, <1>44, <1>45, <1>46, <1>47, <1>48, <1>49, <1>50, <1>51,
     <1>52, <1>53, <1>54, <1>55, <1>56, <1>57, <1>58, <1>59, <1>60, <1>61,
     <1>62, <1>63, <1>64, <1>65 DEF Next, BeginRequest, Continue, World

\* The orchestrator implements the promise.
THEOREM PromiseKept == Spec => KeepsPromise
<1>1. Init => Promise!Init
  BY DEF Init, StoreInit, Promise!Init, Money, Verdict
<1>2. Spec => Promise!Init /\ [][Promise!Next]_(Promise!vars)
  BY <1>1, StepRefines, Invariance, PTL DEF Spec
<1> QED BY <1>2 DEF KeepsPromise, Promise!Spec
=============================================================================
