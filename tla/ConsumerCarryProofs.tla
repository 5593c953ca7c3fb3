------------------------ MODULE ConsumerCarryProofs ------------------------
(***************************************************************************)
(* For any number of runs and any bounds: as long as no run is cut short   *)
(* and no store call throws, an intent in a state that no tick lists is    *)
(* being carried out of it (OnlyFaultsStrand); and, whatever dies, the     *)
(* operator is asked once and answers once (AsksOnce).  Last, an intent    *)
(* that failed before payment or went to review is booked so, or about to  *)
(* be, unless a fault came between the two transactions (EndsAreBooked).   *)
(*                                                                         *)
(* The first argument follows the run that brought the intent into such a  *)
(* state: each of its next steps keeps it among the labels that lead out,  *)
(* and it gives up only when its compare-and-set finds the intent gone.    *)
(* At "recognise" it also gives up when the RECOGNITION group exists; that *)
(* this never happens first is what Closers adds to IInv.                  *)
(***************************************************************************)
EXTENDS ConsumerIntentProofs

Unlisted == {"PROVIDER_PAYMENT_PENDING", "PROVIDER_PAID", "DELIVERY_VERIFIED"}
Rescuing == Carrying \cup {"mark_acked"} \cup Closing

\* One run closes an intent, and it finds the obligation undischarged.
Closers ==
  /\ \A p, q \in Runs : pc[p] \in Closing /\ pc[q] \in Closing => p = q
  /\ \A p \in Runs : pc[p] = "recognise" => "RECOGNITION" \notin ledger

Carry == Closers /\ OnlyFaultsStrand

-----------------------------------------------------------------------------
\* A run that carries nothing, that closes nothing by this step, and that
\* brings the intent into no unlisted state.
Aside(p) ==
  /\ pc[p] \notin Rescuing
  /\ pc' = [pc EXCEPT ![p] = pc'[p]]
  /\ pc'[p] \notin Closing
  /\ state' = state \/ state' \notin Unlisted
  /\ "RECOGNITION" \in ledger' => "RECOGNITION" \in ledger
  /\ faults' = faults

\* The run stays among the labels that lead out of PROVIDER_PAYMENT_PENDING.
Onward(p) ==
  /\ pc[p] \in Carrying
  /\ pc' = [pc EXCEPT ![p] = pc'[p]]
  /\ pc'[p] \in Carrying
  /\ UNCHANGED state
  /\ "RECOGNITION" \in ledger' => "RECOGNITION" \in ledger
  /\ faults' = faults

LEMMA AsideCarries ==
  ASSUME IInv, Carry, NEW p \in Runs, Aside(p)
  PROVE  Carry'
<1> USE DEF IInv, TypeOK, Carrying, Closing, Rescuing, Unlisted
<1>1. \A q \in Runs : pc[q] \in Rescuing => pc'[q] = pc[q]
  BY DEF Aside
<1>2. \A q \in Runs : pc'[q] \in Closing => pc[q] = pc'[q]
  BY DEF Aside
<1>3. Closers'
  BY <1>2 DEF Aside, Carry, Closers
<1>4. OnlyFaultsStrand'
  BY <1>1 DEF Aside, Carry, OnlyFaultsStrand, Carried
<1> QED BY <1>3, <1>4 DEF Carry

LEMMA OnwardCarries ==
  ASSUME IInv, Carry, NEW p \in Runs, Onward(p)
  PROVE  Carry'
<1> USE DEF IInv, TypeOK, Carrying, Closing
<1>1. \A q \in Runs : pc'[q] \in Closing => pc[q] = pc'[q]
  BY DEF Onward
<1>2. Closers'
  BY <1>1 DEF Onward, Carry, Closers
<1>3. \A q \in Runs : /\ pc[q] \in Carrying => pc'[q] \in Carrying
                      /\ pc[q] \in {"mark_acked"} \cup Closing => pc'[q] = pc[q]
  BY DEF Onward
<1>4. OnlyFaultsStrand'
  BY <1>3 DEF Onward, Carry, OnlyFaultsStrand, Carried
<1> QED BY <1>2, <1>4 DEF Carry

-----------------------------------------------------------------------------
\* What runs do that carry the intent out of no unlisted state.
Elsewhere(p) ==
  \/ BeginRequest(p) \/ PayFunding(p) \/ BeginExecution(p) \/ BeginVerify(p)
  \/ FindExpirable(p) \/ FindAmbiguous(p)
  \/ MintDiscovery(p) \/ ReceiveOffer(p) \/ OfferFails(p)
  \/ Terminalise(p) \/ PublishOffer(p)
  \/ ReadPolicy(p) \/ BeginCheck(p) \/ Decide(p) \/ InsertApproval(p)
  \/ AskOperator(p) \/ RereadApproval(p) \/ RewriteApproval(p)
  \/ StoreOutcome(p) \/ ApplyOutcome(p)
  \/ ReadForFunding(p) \/ RequestFunding(p)
  \/ RecordFunding(p) \/ MarkFunded(p) \/ QueueExecution(p)
  \/ CheckApproval(p) \/ IssueCapability(p)
  \/ RecordEvidence(p) \/ BookSuspense(p)
  \/ FailBeforePayment(p) \/ BookRefund(p) \/ MarkRefundPending(p)
  \/ AwaitDelivery(p) \/ Expire(p) \/ AskProvider(p) \/ AcknowledgeRow(p)

LEMMA ElsewhereIsAside ==
  ASSUME IInv, NEW p \in Runs, Elsewhere(p)
  PROVE  Aside(p)
<1> USE DEF IInv, TypeOK, StoreTypeOK, Carrying, Closing, Rescuing, Unlisted
<1>1. ASSUME NEW goal \in {"DISCOVERING", "QUOTED"}, BeginOffer(p, goal)
      PROVE  Aside(p)
  BY <1>1 DEF BeginOffer, Aside, At, Goto, rowVars, clockVars, worldVars
<1>2. CASE PollApproval(p)
  BY <1>2 DEF PollApproval, Aside, At, Goto, rowVars, clockVars, worldVars
<1>3. CASE BeginFunding(p)
  BY <1>3 DEF BeginFunding, Aside, At, Goto, rowVars, clockVars, worldVars
<1>4. CASE PriceFunding(p)
  BY <1>4 DEF PriceFunding, Aside, At, Goto, rowVars, clockVars, worldVars
<1>5. CASE BeginQueue(p)
  BY <1>5 DEF BeginQueue, Aside, At, Goto, rowVars, clockVars, worldVars
<1>6. CASE PayFunding(p)
  BY <1>6 DEF PayFunding, Aside, At, Goto, rowVars, clockVars
<1>7. CASE BeginExecution(p)
  BY <1>7 DEF BeginExecution, Aside, At, Goto, rowVars, clockVars, worldVars
<1>8. CASE BeginVerify(p)
  BY <1>8 DEF BeginVerify, Aside, At, Goto, rowVars, clockVars, worldVars
<1>9. CASE FindExpirable(p)
  BY <1>9 DEF FindExpirable, Aside, At, Goto, rowVars, clockVars, worldVars
<1>10. CASE FindAmbiguous(p)
  BY <1>10 DEF FindAmbiguous, Aside, At, Goto, rowVars, clockVars, worldVars
<1>11. CASE MintDiscovery(p)
  BY <1>11 DEF MintDiscovery, Aside, At, Goto, clockVars, worldVars
<1>12. CASE ReceiveOffer(p)
  BY <1>12 DEF ReceiveOffer, Aside, At, Goto, clockVars, worldVars
<1>13. CASE OfferFails(p)
  BY <1>13 DEF OfferFails, Aside, At, Goto, clockVars, worldVars, LeaveOffer
<1>14. CASE Terminalise(p)
  BY <1>14 DEF Terminalise, Aside, At, Return, Transition, rowVars,
     clockVars, worldVars, Goto
<1>15. CASE PublishOffer(p)
  BY <1>15, StateNames DEF PublishOffer, Aside, At, Goto, Transition,
     TransitionThrows, rowVars, worldVars, Frames, LeaveOffer
<1>16. CASE ReadPolicy(p)
  BY <1>16 DEF ReadPolicy, Aside, At, Goto, Return, rowVars, clockVars,
     worldVars
<1>17. CASE BeginCheck(p)
  BY <1>17 DEF BeginCheck, Aside, At, Goto, Return, Transition,
     TransitionThrows, rowVars, clockVars, worldVars
<1>18. CASE Decide(p)
  BY <1>18 DEF Decide, Aside, At, Goto, Return, Transition, clockVars,
     worldVars
<1>19. CASE InsertApproval(p)
  BY <1>19 DEF InsertApproval, Aside, At, Goto, clockVars, worldVars
<1>20. CASE AskOperator(p)
  BY <1>20 DEF AskOperator, Aside, At, Goto, rowVars, clockVars
<1>21. CASE RereadApproval(p)
  BY <1>21 DEF RereadApproval, Aside, At, Goto, Return, rowVars, clockVars,
     worldVars
<1>22. CASE RewriteApproval(p)
  BY <1>22 DEF RewriteApproval, Aside, At, Return, clockVars, worldVars, Goto
<1>23. CASE StoreOutcome(p)
  BY <1>23 DEF StoreOutcome, Aside, At, Goto, clockVars, worldVars
<1>24. CASE ApplyOutcome(p)
  BY <1>24 DEF ApplyOutcome, Aside, At, Goto, Transition, TransitionThrows,
     rowVars, clockVars, worldVars
<1>25. CASE ReadForFunding(p)
  BY <1>25 DEF ReadForFunding, Aside, At, Goto, Return, rowVars, clockVars,
     worldVars
<1>26. CASE RequestFunding(p)
  BY <1>26 DEF RequestFunding, Aside, At, Goto, Transition, TransitionThrows,
     rowVars, worldVars
<1>27. CASE RecordFunding(p)
  BY <1>27 DEF RecordFunding, Aside, At, Goto, RecordReceipt, clockVars,
     worldVars
<1>28. CASE MarkFunded(p)
  BY <1>28 DEF MarkFunded, Aside, At, Goto, Transition, TransitionThrows,
     rowVars, clockVars, worldVars
<1>29. CASE QueueExecution(p)
  BY <1>29 DEF QueueExecution, Aside, At, Return, Transition,
     TransitionThrows, rowVars, clockVars, worldVars, Goto
<1>30. CASE CheckApproval(p)
  BY <1>30 DEF CheckApproval, Aside, At, Goto, rowVars, clockVars, worldVars
<1>31. CASE IssueCapability(p)
  BY <1>31 DEF IssueCapability, Aside, At, Goto, clockVars, worldVars
<1>32. CASE RecordEvidence(p)
  BY <1>32 DEF RecordEvidence, Aside, At, Goto, Return, rowVars, clockVars,
     worldVars
<1>33. CASE BookSuspense(p)
  BY <1>33 DEF BookSuspense, Aside, At, Return, AppendGroup, clockVars,
     worldVars, Goto
<1>34. CASE FailBeforePayment(p)
  BY <1>34 DEF FailBeforePayment, Aside, At, Goto, Transition,
     TransitionThrows, rowVars, clockVars, worldVars
<1>35. CASE BookRefund(p)
  BY <1>35 DEF BookRefund, Aside, At, Goto, AppendGroup, clockVars, worldVars
<1>36. CASE MarkRefundPending(p)
  BY <1>36 DEF MarkRefundPending, Aside, At, Goto, Transition, rowVars,
     clockVars, worldVars
<1>37. CASE AwaitDelivery(p)
  BY <1>37 DEF AwaitDelivery, Aside, At, Goto, Transition, TransitionThrows,
     rowVars, clockVars, worldVars
<1>38. CASE Expire(p)
  BY <1>38 DEF Expire, Aside, At, Return, Transition, TransitionThrows,
     rowVars, clockVars, worldVars, Goto
<1>39. CASE AskProvider(p)
  BY <1>39 DEF AskProvider, Aside, At, Goto, Return, rowVars, clockVars,
     worldVars, LeaveToHuman
<1>40. CASE AcknowledgeRow(p)
  BY <1>40 DEF AcknowledgeRow, Aside, At, Return, clockVars, worldVars, Goto
<1> QED
  BY <1>1, <1>2, <1>3, <1>4, <1>5, <1>6, <1>7, <1>8, <1>9, <1>10, <1>11,
     <1>12, <1>13, <1>14, <1>15, <1>16, <1>17, <1>18, <1>19, <1>20, <1>21,
     <1>22, <1>23, <1>24, <1>25, <1>26, <1>27, <1>28, <1>29, <1>30, <1>31,
     <1>32, <1>33, <1>34, <1>35, <1>36, <1>37, <1>38, <1>39, <1>40 DEF
     Elsewhere, BeginRequest

\* The eight steps of a payment that stay on the way out of
\* PROVIDER_PAYMENT_PENDING.
LEMMA PaymentIsOnward ==
  ASSUME IInv, NEW p \in Runs,
         \/ PrepareExecution(p) \/ AdapterRefuses(p) \/ RedeemCapability(p)
         \/ RailPays(p) \/ ProviderAnswers(p)
         \/ RecordPaid(p) \/ BookSettlement(p) \/ RecordFailure(p)
  PROVE  Onward(p)
<1> USE DEF IInv, TypeOK, StoreTypeOK, Carrying, Onward, At, Goto, rowVars,
       clockVars, worldVars
<1>1. CASE PrepareExecution(p)
  BY <1>1 DEF PrepareExecution
<1>2. CASE AdapterRefuses(p)
  BY <1>2 DEF AdapterRefuses
<1>3. CASE RedeemCapability(p)
  BY <1>3 DEF RedeemCapability
<1>4. CASE RailPays(p)
  BY <1>4 DEF RailPays
<1>5. CASE ProviderAnswers(p)
  BY <1>5 DEF ProviderAnswers
<1>6. CASE RecordPaid(p)
  BY <1>6 DEF RecordPaid
<1>7. CASE BookSettlement(p)
  BY <1>7 DEF BookSettlement, AppendGroup
<1>8. CASE RecordFailure(p)
  BY <1>8 DEF RecordFailure
<1> QED BY <1>1, <1>2, <1>3, <1>4, <1>5, <1>6, <1>7, <1>8

-----------------------------------------------------------------------------
\* Every step keeps the intent carried.  The transitions into and out of the
\* unlisted states are the ones with an argument of their own.
LEMMA CarryNext == IInv /\ Carry /\ [Next]_vars => Carry'
<1> SUFFICES ASSUME IInv, Carry, [Next]_vars
             PROVE  Carry'
  OBVIOUS
<1> USE DEF IInv, TypeOK, StoreTypeOK, Carrying, Closing
<1>1. ASSUME NEW p \in Runs, Elsewhere(p) PROVE Carry'
  BY <1>1, ElsewhereIsAside, AsideCarries
<1>2. ASSUME NEW p \in Runs,
             \/ PrepareExecution(p) \/ AdapterRefuses(p) \/ RedeemCapability(p)
             \/ RailPays(p) \/ ProviderAnswers(p)
             \/ RecordPaid(p) \/ BookSettlement(p) \/ RecordFailure(p)
      PROVE  Carry'
  BY <1>2, PaymentIsOnward, OnwardCarries
<1>3. ASSUME NEW p \in Runs, CommitToPay(p) PROVE Carry'
  BY <1>3 DEF CommitToPay, At, Goto, Return, Transition, TransitionThrows,
     rowVars, worldVars, Carry, Closers, OnlyFaultsStrand, Carried
<1>4. ASSUME NEW p \in Runs, MarkPaid(p) PROVE Carry'
  BY <1>4 DEF MarkPaid, At, Goto, Transition, TransitionThrows,
     rowVars, worldVars, Carry, Closers, OnlyFaultsStrand, Carried
<1>5. ASSUME NEW p \in Runs, MarkAcknowledged(p) PROVE Carry'
  BY <1>5 DEF MarkAcknowledged, At, Goto, Transition,
     rowVars, worldVars, Carry, Closers, OnlyFaultsStrand, Carried
<1>6. ASSUME NEW p \in Runs, SendToReview(p) PROVE Carry'
  BY <1>6, StateNames DEF SendToReview, At, Goto, Return, Transition, TransitionThrows,
     CanTransition, Successors, rowVars, worldVars, Carry, Closers, OnlyFaultsStrand, Carried
<1>7. ASSUME NEW p \in Runs, FailAfterPayment(p) PROVE Carry'
  BY <1>7 DEF FailAfterPayment, At, Goto, Return, Transition, TransitionThrows,
     CanTransition, Successors, rowVars, worldVars, Carry, Closers, OnlyFaultsStrand, Carried
<1>8. ASSUME NEW p \in Runs, VerifyDelivery(p) PROVE Carry'
  BY <1>8 DEF VerifyDelivery, At, Goto, Transition, TransitionThrows,
     rowVars, worldVars, Carry, Closers, OnlyFaultsStrand, Carried, Safe, LedgerMatchesState
<1>9. ASSUME NEW p \in Runs, Recognise(p) PROVE Carry'
  BY <1>9 DEF Recognise, At, Goto, AlreadyBooked, AppendGroup,
     worldVars, Carry, Closers, OnlyFaultsStrand, Carried
<1>10. ASSUME NEW p \in Runs, Complete(p) PROVE Carry'
  BY <1>10 DEF Complete, At, Goto, Transition,
     rowVars, worldVars, Carry, Closers, OnlyFaultsStrand, Carried
<1>11. ASSUME NEW p \in Runs, RunDies(p) PROVE Carry'
  BY <1>11 DEF RunDies, At, Goto, Return, rowVars, Carry, Closers, OnlyFaultsStrand
<1>12. ASSUME NEW p \in Runs, StoreThrows(p) PROVE Carry'
  BY <1>12 DEF StoreThrows, Goto, rowVars, Carry, Closers, OnlyFaultsStrand,
     LeaveToHuman, At, Return, Recall
<1>13. ASSUME World \/ UNCHANGED vars PROVE Carry'
  BY <1>13 DEF World, WindowLapses, QuoteLapses, CapabilityLapses, RowsAge, EditPolicy,
     OperatorAnswers, vars, rowVars, worldVars, runVars, Carry, Closers,
     OnlyFaultsStrand, Carried
<1> QED
  BY <1>1, <1>2, <1>3, <1>4, <1>5, <1>6, <1>7, <1>8, <1>9, <1>10, <1>11, <1>12, <1>13
     DEF Next, Continue, Elsewhere

\* As long as no run is cut short and no store call throws, an intent that no
\* tick would list is in the hands of a run that takes it further (executeIntent,
\* verifyAndComplete).
THEOREM FaultsAloneStrand == Spec => []OnlyFaultsStrand
<1>1. Init => Carry
  BY DEF Init, StoreInit, Carry, Closers, OnlyFaultsStrand, Carried, Closing
<1>2. IInv /\ Carry /\ [Next]_vars => Carry'
  BY CarryNext
<1>3. Carry => OnlyFaultsStrand
  BY DEF Carry
<1> QED BY <1>1, <1>2, <1>3, Invariance, PTL DEF Spec

-----------------------------------------------------------------------------
\* THE ENDS.  An intent no money was taken for has no payer on the way either, so
\* that one which fails then needs no refund, now or later.
Fresh == {"CREATED", "DISCOVERING"}
Unfunded == state \in Fresh \/ (state = "FAILED_BEFORE_PAYMENT" /\ ~receipt)
Funding == {"paying", "record"}
Ends == {"FAILED_BEFORE_PAYMENT", "REFUND_PENDING", "MANUAL_REVIEW"}

Booked ==
  /\ Unfunded => ~receipt /\ \A p \in Runs : pc[p] \notin Funding
  /\ \A p \in Runs : pc[p] = "mark_refund" => "REFUND" \in ledger
  /\ EndsAreBooked

\* A run that ends nothing, funds nothing and was not about to book an end.
Beside(p) ==
  /\ pc' = [pc EXCEPT ![p] = pc'[p]]
  /\ pc[p] \notin {"refund", "suspend"} /\ pc'[p] \notin Funding \cup {"mark_refund"}
  /\ state' = state \/ state' \notin Fresh \cup Ends
  /\ ledger \subseteq ledger' /\ UNCHANGED <<receipt, faults>>

LEMMA BesideBooks ==
  ASSUME IInv, Booked, NEW p \in Runs, Beside(p)
  PROVE  Booked'
<1> USE DEF IInv, TypeOK, Fresh, Funding, Ends
<1>1. \A q \in Runs : /\ pc[q] \in {"refund", "suspend"} => pc'[q] = pc[q]
                      /\ pc'[q] \in Funding \cup {"mark_refund"} => pc[q] = pc'[q]
  BY DEF Beside
<1>2. EndsAreBooked'
  BY <1>1 DEF Beside, Booked, EndsAreBooked, Ending
<1> QED
  BY <1>1, <1>2 DEF Beside, Booked, Unfunded

\* What runs do beside the ends.
Ordinary(p) ==
  \/ \E goal \in {"DISCOVERING", "QUOTED"} : BeginOffer(p, goal)
  \/ PollApproval(p) \/ BeginFunding(p) \/ BeginQueue(p) \/ BeginExecution(p)
  \/ BeginVerify(p) \/ FindExpirable(p) \/ FindAmbiguous(p) \/ MintDiscovery(p)
  \/ ReceiveOffer(p) \/ OfferFails(p) \/ ReadPolicy(p) \/ BeginCheck(p) \/ Decide(p)
  \/ InsertApproval(p) \/ AskOperator(p) \/ RereadApproval(p) \/ RewriteApproval(p)
  \/ StoreOutcome(p) \/ ApplyOutcome(p) \/ ReadForFunding(p) \/ MarkFunded(p)
  \/ QueueExecution(p) \/ CheckApproval(p) \/ IssueCapability(p) \/ CommitToPay(p)
  \/ PrepareExecution(p) \/ AdapterRefuses(p) \/ RedeemCapability(p) \/ RailPays(p)
  \/ ProviderAnswers(p) \/ RecordPaid(p) \/ BookSettlement(p) \/ MarkPaid(p)
  \/ MarkAcknowledged(p) \/ RecordEvidence(p) \/ RecordFailure(p)
  \/ FailAfterPayment(p) \/ AwaitDelivery(p) \/ VerifyDelivery(p) \/ Recognise(p)
  \/ Complete(p) \/ Expire(p) \/ AskProvider(p) \/ AcknowledgeRow(p)

LEMMA OrdinaryIsBeside ==
  ASSUME IInv, NEW p \in Runs, Ordinary(p)
  PROVE  Beside(p)
<1> USE DEF IInv, TypeOK, StoreTypeOK, Fresh, Funding, Ends, Beside, At, Goto, rowVars,
       clockVars, worldVars
<1>1. ASSUME NEW goal \in {"DISCOVERING", "QUOTED"}, BeginOffer(p, goal)
      PROVE  Beside(p)
  BY <1>1 DEF BeginOffer
<1>2. CASE PollApproval(p)
  BY <1>2 DEF PollApproval
<1>3. CASE BeginFunding(p)
  BY <1>3 DEF BeginFunding
<1>4. CASE BeginQueue(p)
  BY <1>4 DEF BeginQueue
<1>5. CASE BeginExecution(p)
  BY <1>5 DEF BeginExecution
<1>6. CASE BeginVerify(p)
  BY <1>6 DEF BeginVerify
<1>7. CASE FindExpirable(p)
  BY <1>7 DEF FindExpirable
<1>8. CASE FindAmbiguous(p)
  BY <1>8 DEF FindAmbiguous
<1>9. CASE MintDiscovery(p)
  BY <1>9 DEF MintDiscovery
<1>10. CASE ReceiveOffer(p)
  BY <1>10 DEF ReceiveOffer
<1>11. CASE OfferFails(p)
  BY <1>11 DEF OfferFails, LeaveOffer
<1>12. CASE ReadPolicy(p)
  BY <1>12 DEF ReadPolicy, Return
<1>13. CASE BeginCheck(p)
  BY <1>13 DEF BeginCheck, Return, Transition, TransitionThrows
<1>14. CASE Decide(p)
  BY <1>14 DEF Decide, Return, Transition
<1>15. CASE InsertApproval(p)
  BY <1>15 DEF InsertApproval
<1>16. CASE AskOperator(p)
  BY <1>16 DEF AskOperator
<1>17. CASE RereadApproval(p)
  BY <1>17 DEF RereadApproval, Return
<1>18. CASE RewriteApproval(p)
  BY <1>18 DEF RewriteApproval, Return
<1>19. CASE StoreOutcome(p)
  BY <1>19 DEF StoreOutcome
<1>20. CASE ApplyOutcome(p)
  BY <1>20 DEF ApplyOutcome, Transition, TransitionThrows
<1>21. CASE ReadForFunding(p)
  BY <1>21 DEF ReadForFunding, Return
<1>22. CASE MarkFunded(p)
  BY <1>22 DEF MarkFunded, Transition, TransitionThrows
<1>23. CASE QueueExecution(p)
  BY <1>23 DEF QueueExecution, Return, Transition, TransitionThrows
<1>24. CASE CheckApproval(p)
  BY <1>24 DEF CheckApproval
<1>25. CASE IssueCapability(p)
  BY <1>25 DEF IssueCapability
<1>26. CASE CommitToPay(p)
  BY <1>26 DEF CommitToPay, Return, Transition, TransitionThrows
<1>27. CASE PrepareExecution(p)
  BY <1>27 DEF PrepareExecution
<1>28. CASE AdapterRefuses(p)
  BY <1>28 DEF AdapterRefuses
<1>29. CASE RedeemCapability(p)
  BY <1>29 DEF RedeemCapability
<1>30. CASE RailPays(p)
  BY <1>30 DEF RailPays
<1>31. CASE ProviderAnswers(p)
  BY <1>31 DEF ProviderAnswers
<1>32. CASE RecordPaid(p)
  BY <1>32 DEF RecordPaid
<1>33. CASE BookSettlement(p)
  BY <1>33 DEF BookSettlement, AppendGroup
<1>34. CASE MarkPaid(p)
  BY <1>34 DEF MarkPaid, Transition, TransitionThrows
<1>35. CASE MarkAcknowledged(p)
  BY <1>35 DEF MarkAcknowledged, Transition
<1>36. CASE RecordEvidence(p)
  BY <1>36 DEF RecordEvidence, Return
<1>37. CASE RecordFailure(p)
  BY <1>37 DEF RecordFailure
<1>38. CASE FailAfterPayment(p)
  BY <1>38 DEF FailAfterPayment, Return, Transition, TransitionThrows
<1>39. CASE AwaitDelivery(p)
  BY <1>39 DEF AwaitDelivery, Transition, TransitionThrows
<1>40. CASE VerifyDelivery(p)
  BY <1>40 DEF VerifyDelivery, Transition, TransitionThrows
<1>41. CASE Recognise(p)
  BY <1>41 DEF Recognise, AlreadyBooked, AppendGroup
<1>42. CASE Complete(p)
  BY <1>42 DEF Complete, Transition
<1>43. CASE Expire(p)
  BY <1>43 DEF Expire, Return, Transition, TransitionThrows
<1>44. CASE AskProvider(p)
  BY <1>44 DEF AskProvider, Return, LeaveToHuman
<1>45. CASE AcknowledgeRow(p)
  BY <1>45 DEF AcknowledgeRow, Return
<1> QED
  BY <1>1, <1>2, <1>3, <1>4, <1>5, <1>6, <1>7, <1>8, <1>9, <1>10, <1>11, <1>12,
     <1>13, <1>14, <1>15, <1>16, <1>17, <1>18, <1>19, <1>20, <1>21, <1>22, <1>23,
     <1>24, <1>25, <1>26, <1>27, <1>28, <1>29, <1>30, <1>31, <1>32, <1>33, <1>34,
     <1>35, <1>36, <1>37, <1>38, <1>39, <1>40, <1>41, <1>42, <1>43, <1>44, <1>45 DEF
     Ordinary

\* Only CREATED leads to DISCOVERING, and nothing leads to CREATED.
LEMMA Discovers ==
  ASSUME NEW from \in States, CanTransition(from, "DISCOVERING")
  PROVE  from = "CREATED"
BY StateNames DEF CanTransition, Successors

LEMMA BookedNext == IInv /\ Booked /\ [Next]_vars => Booked'
<1> SUFFICES ASSUME IInv, Booked, [Next]_vars
             PROVE  Booked'
  OBVIOUS
<1> USE DEF IInv, TypeOK, StoreTypeOK, Fresh, Funding, Ends, At, Goto, rowVars, clockVars,
       worldVars
<1>1. ASSUME NEW p \in Runs, Ordinary(p) PROVE Booked'
  BY <1>1, OrdinaryIsBeside, BesideBooks
<1>2. ASSUME NEW p \in Runs, PublishOffer(p) PROVE Booked'
  BY <1>2, Discovers DEF PublishOffer, Transition, TransitionThrows, Frames, Booked, Unfunded,
     EndsAreBooked, Ending, LeaveOffer
<1>3. ASSUME NEW p \in Runs, Terminalise(p) PROVE Booked'
  BY <1>3 DEF Terminalise, Transition, Return, Booked, Unfunded, EndsAreBooked, Ending
<1>4. ASSUME NEW p \in Runs, RequestFunding(p) PROVE Booked'
  BY <1>4 DEF RequestFunding, Transition, TransitionThrows, Booked, Unfunded, EndsAreBooked, Ending
<1>5. ASSUME NEW p \in Runs, PriceFunding(p) \/ PayFunding(p) PROVE Booked'
  BY <1>5 DEF PriceFunding, PayFunding, Booked, Unfunded, EndsAreBooked, Ending
<1>6. ASSUME NEW p \in Runs, RecordFunding(p) PROVE Booked'
  BY <1>6 DEF RecordFunding, RecordReceipt, Booked, Unfunded, EndsAreBooked, Ending,
     Safe, LedgerMatchesState, Committed
<1>7. ASSUME NEW p \in Runs, SendToReview(p) PROVE Booked'
  BY <1>7 DEF SendToReview, Transition, TransitionThrows, Return, Booked, Unfunded,
     EndsAreBooked, Ending
<1>8. ASSUME NEW p \in Runs, BookSuspense(p) PROVE Booked'
  BY <1>8 DEF BookSuspense, AlreadyBooked, AppendGroup, Return, Booked, Unfunded,
     EndsAreBooked, Ending, Safe, LedgerMatchesState
<1>9. ASSUME NEW p \in Runs, FailBeforePayment(p) PROVE Booked'
  BY <1>9 DEF FailBeforePayment, Transition, TransitionThrows, Booked, Unfunded,
     EndsAreBooked, Ending, Safe, LedgerMatchesState
<1>10. ASSUME NEW p \in Runs, BookRefund(p) PROVE Booked'
  BY <1>10 DEF BookRefund, AlreadyBooked, AppendGroup, Booked, Unfunded,
     EndsAreBooked, Ending, Safe, LedgerMatchesState, Aborted
<1>11. ASSUME NEW p \in Runs, MarkRefundPending(p) PROVE Booked'
  BY <1>11 DEF MarkRefundPending, Transition, Booked, Unfunded, EndsAreBooked, Ending
<1>12. ASSUME NEW p \in Runs, RunDies(p) PROVE Booked'
  BY <1>12 DEF RunDies, Return, Booked, Unfunded, EndsAreBooked
<1>13. ASSUME NEW p \in Runs, StoreThrows(p) PROVE Booked'
  BY <1>13 DEF StoreThrows, Booked, Unfunded, EndsAreBooked, LeaveToHuman,
     At, Return, Recall
<1>14. ASSUME World \/ UNCHANGED vars PROVE Booked'
  BY <1>14 DEF World, WindowLapses, QuoteLapses, CapabilityLapses, RowsAge, EditPolicy,
     OperatorAnswers, vars, runVars, Booked, Unfunded, EndsAreBooked, Ending
<1> QED
  BY <1>1, <1>2, <1>3, <1>4, <1>5, <1>6, <1>7, <1>8, <1>9, <1>10, <1>11, <1>12, <1>13, <1>14
     DEF Next, Continue, BeginRequest, Ordinary

\* A pending refund is booked; and unless a run was cut short, so is the money of
\* every intent that gave up before payment or was sent to a human, by now or in the
\* next step of a run (failBeforePayment, handlePostPaymentFailure).
THEOREM EndsBooked == Spec => []EndsAreBooked
<1>1. Init => Booked
  BY DEF Init, StoreInit, Booked, Unfunded, Fresh, Funding, EndsAreBooked, Ending
<1>2. IInv /\ Booked /\ [Next]_vars => Booked'
  BY BookedNext
<1>3. Booked => EndsAreBooked
  BY DEF Booked
<1> QED BY <1>1, <1>2, <1>3, Invariance, PTL DEF Spec

-----------------------------------------------------------------------------
\* One step puts the question, of a run that finds it not put yet; one step
\* answers it; no other touches it.
LEMMA OperatorSteps ==
  IInv /\ [Next]_vars => [Operator!Ask \/ Operator!Answer]_operator
<1> SUFFICES ASSUME IInv, [Next]_vars
             PROVE  Operator!Ask \/ Operator!Answer \/ UNCHANGED operator
  OBVIOUS
<1> USE DEF worldVars
<1>1. ASSUME NEW p \in Runs, AskOperator(p) PROVE Operator!Ask
  BY <1>1 DEF AskOperator, At, Operator!Ask, IInv, Safe, OperatorAgreed, Asking
<1>2. CASE OperatorAnswers
  BY <1>2 DEF OperatorAnswers, Operator!Answer
<1>3. ASSUME NEW p \in Runs,
             \/ BeginRequest(p) \/ PayFunding(p) \/ BeginExecution(p) \/ BeginVerify(p)
             \/ FindExpirable(p) \/ FindAmbiguous(p)
      PROVE  UNCHANGED operator
  BY <1>3 DEF BeginRequest, BeginOffer, PollApproval, BeginFunding, PriceFunding,
     BeginQueue, PayFunding, BeginExecution, BeginVerify, FindExpirable, FindAmbiguous
<1>4. ASSUME NEW p \in Runs, Continue(p), ~AskOperator(p)
      PROVE  UNCHANGED operator
  <2>1. CASE \/ MintDiscovery(p) \/ ReceiveOffer(p) \/ OfferFails(p)
             \/ Terminalise(p) \/ PublishOffer(p)
    BY <2>1 DEF MintDiscovery, ReceiveOffer, OfferFails, Terminalise, PublishOffer,
       LeaveOffer
  <2>2. CASE \/ ReadPolicy(p) \/ BeginCheck(p) \/ Decide(p) \/ InsertApproval(p)
             \/ RereadApproval(p) \/ RewriteApproval(p)
             \/ StoreOutcome(p) \/ ApplyOutcome(p)
    BY <2>2 DEF ReadPolicy, BeginCheck, Decide, InsertApproval, RereadApproval,
       RewriteApproval, StoreOutcome, ApplyOutcome
  <2>3. CASE \/ ReadForFunding(p) \/ RequestFunding(p)
             \/ RecordFunding(p) \/ MarkFunded(p) \/ QueueExecution(p)
    BY <2>3 DEF ReadForFunding, RequestFunding, RecordFunding, MarkFunded, QueueExecution
  <2>4. CASE \/ CheckApproval(p) \/ IssueCapability(p) \/ CommitToPay(p)
             \/ PrepareExecution(p) \/ AdapterRefuses(p) \/ RedeemCapability(p)
             \/ RailPays(p) \/ ProviderAnswers(p)
    BY <2>4 DEF CheckApproval, IssueCapability, CommitToPay, PrepareExecution,
       AdapterRefuses, RedeemCapability, RailPays, ProviderAnswers
  <2>5. CASE \/ RecordPaid(p) \/ BookSettlement(p) \/ MarkPaid(p) \/ MarkAcknowledged(p)
             \/ RecordEvidence(p) \/ RecordFailure(p)
             \/ SendToReview(p) \/ BookSuspense(p) \/ FailAfterPayment(p)
             \/ FailBeforePayment(p) \/ BookRefund(p) \/ MarkRefundPending(p)
    BY <2>5 DEF RecordPaid, BookSettlement, MarkPaid, MarkAcknowledged, RecordEvidence,
       RecordFailure, SendToReview, BookSuspense, FailAfterPayment,
       FailBeforePayment, BookRefund, MarkRefundPending
  <2>6. CASE \/ AwaitDelivery(p) \/ VerifyDelivery(p) \/ Recognise(p) \/ Complete(p)
             \/ Expire(p) \/ AskProvider(p) \/ AcknowledgeRow(p)
    BY <2>6 DEF AwaitDelivery, VerifyDelivery, Recognise, Complete, Expire,
       AskProvider, AcknowledgeRow, LeaveToHuman
  <2> QED BY <1>4, <2>1, <2>2, <2>3, <2>4, <2>5, <2>6 DEF Continue
<1>5. ASSUME NEW p \in Runs, RunDies(p) \/ StoreThrows(p) PROVE UNCHANGED operator
  BY <1>5 DEF RunDies, StoreThrows, LeaveToHuman, At, Return, Recall
<1>6. CASE World /\ ~OperatorAnswers
  BY <1>6 DEF World, WindowLapses, QuoteLapses, CapabilityLapses, RowsAge, EditPolicy
<1>7. CASE UNCHANGED vars
  BY <1>7 DEF vars
<1> QED BY <1>1, <1>2, <1>3, <1>4, <1>5, <1>6, <1>7 DEF Next

\* The orchestrator uses the operator as OperatorPromise says one may be used:
\* the promise the escalation pipeline keeps is the one taken for granted here.
THEOREM OperatorAskedOnce == Spec => AsksOnce
<1>1. Init => Operator!Init
  BY DEF Init, Operator!Init
<1> QED BY <1>1, OperatorSteps, Invariance, PTL DEF Spec, AsksOnce, Operator!Spec
=============================================================================
