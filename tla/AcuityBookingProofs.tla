------------------------ MODULE AcuityBookingProofs ------------------------
(***************************************************************************)
(* Theorems about AcuityBooking: for any services, any number of leases    *)
(* and crashes, and either kind of session layer.                          *)
(***************************************************************************)
EXTENDS AcuityBooking, TLAPS

USE DEF Navigate, FillForm, OpenCoupon, ApplyCoupon, VerifyTotal, Submit, Extract

Running == {"session", "step"}

\* A click leaves a row in the journal, and with that row a lease goes to the
\* probe, to extract-confirmation, or nowhere.
ClickInv ==
  /\ clicked <= 1
  /\ ~submitted => clicked = 0 /\ appointments = {}
  /\ submitted /\ doing \in Running => at = Extract
  /\ doing \in Running \cup {"clicked"} => from <= at /\ at <= Extract
  /\ doing = "clicked" => at = Submit /\ submitted
  /\ clicked = 0 => appointments = {}

\* What the page shows is true, and on the payment page behind the proof nothing
\* is left to pay.
PageInv ==
  /\ page \in {"form", "payment", "confirmation"} => booking = Asked
  /\ page = "confirmation" => appointments # {}
  /\ (doing \in Running /\ at >= Submit /\ page = "payment") => summary = "zero"
  /\ OnlyProvenAppointments

\* A verdict is the end, and true.
VerdictInv ==
  /\ verdict # "none" => doing = "ended"
  /\ boundary = Extract => appointments # {}
  /\ VerdictIsTruthful

BookingInv == AcuityTypeOK /\ ClickInv /\ PageInv /\ VerdictInv

-----------------------------------------------------------------------------
LEMMA BookingInitInv == BookingInit => BookingInv
<1> SUFFICES ASSUME BookingInit PROVE BookingInv
  OBVIOUS
<1>1. AcuityTypeOK
  <2>1. lease \in 0..MaxLeases /\ from \in 1..8 /\ at \in 1..8
    BY BookingAssumption DEF BookingInit
  <2>2. page \in Pages /\ summary \in Summaries /\ verdict \in Verdicts
    BY DEF BookingInit, Pages, Summaries, Verdicts
  <2>3. booking \in Offers /\ appointments \subseteq Appointments
    BY BookingAssumption DEF BookingInit
  <2>4. doing \in {"idle", "session", "step", "clicked", "probe", "ended"}
    BY DEF BookingInit
  <2>5. coupon \in {"closed", "open", "sent"}
    BY DEF BookingInit
  <2>6. clicked \in Nat /\ boundary \in 0..7
    BY DEF BookingInit
  <2>7. submitted \in BOOLEAN
    BY DEF BookingInit
  <2> QED  BY <2>1, <2>2, <2>3, <2>4, <2>5, <2>6, <2>7 DEF AcuityTypeOK
<1>2. ClickInv
  BY DEF BookingInit, ClickInv, Running
<1>3. PageInv /\ VerdictInv
  BY DEF BookingInit, PageInv, VerdictInv, OnlyProvenAppointments,
         VerdictIsTruthful, Running
<1> QED  BY <1>1, <1>2, <1>3 DEF BookingInv

\* A lease that is taken begins behind the last boundary, on a blank page.
LEMMA TakeLeaseKeepsInv ==
  ASSUME BookingInv, TakeLease
  PROVE  BookingInv'
<1> USE DEF BookingInv
<1>1. AcuityTypeOK'
  BY BookingAssumption
     DEF TakeLease, Blank, Gate, AcuityTypeOK, Pages, Summaries, Verdicts, vendorVars
<1>2. ClickInv'
  BY DEF TakeLease, Gate, ClickInv, AcuityTypeOK, vendorVars, Running
<1>3. PageInv'
  BY DEF TakeLease, Blank, PageInv, OnlyProvenAppointments, vendorVars
<1>4. VerdictInv'
  BY DEF TakeLease, VerdictInv, VerdictIsTruthful, vendorVars
<1> QED  BY <1>1, <1>2, <1>3, <1>4

LEMMA DieKeepsInv ==
  ASSUME BookingInv, Die
  PROVE  BookingInv'
<1> USE DEF BookingInv
<1>1. AcuityTypeOK'
  BY BookingAssumption DEF Die, Blank, AcuityTypeOK, Pages, Summaries, vendorVars
<1>2. ClickInv'
  BY DEF Die, ClickInv, vendorVars, Running
<1>3. PageInv'
  BY DEF Die, Blank, PageInv, OnlyProvenAppointments, vendorVars
<1>4. VerdictInv'
  BY DEF Die, VerdictInv, VerdictIsTruthful, vendorVars
<1> QED  BY <1>1, <1>2, <1>3, <1>4

LEMMA OpenSessionKeepsInv ==
  ASSUME BookingInv, OpenSession
  PROVE  BookingInv'
<1> USE DEF BookingInv
<1>1. /\ doing = "session" /\ doing' = "step"
      /\ UNCHANGED <<lease, from, at, boundary, submitted, verdict, vendorVars>>
      /\ Blank \/ UNCHANGED sessionVars
  BY DEF OpenSession
<1>2. AcuityTypeOK'
  BY <1>1, BookingAssumption
     DEF Blank, sessionVars, AcuityTypeOK, Pages, Summaries, vendorVars
<1>3. ClickInv'
  BY <1>1 DEF ClickInv, vendorVars, Running
<1>4. PageInv'
  BY <1>1
     DEF Blank, sessionVars, PageInv, OnlyProvenAppointments, vendorVars, Running
<1>5. VerdictInv'
  BY <1>1 DEF VerdictInv, VerdictIsTruthful, vendorVars
<1> QED  BY <1>2, <1>3, <1>4, <1>5

\* A failure is reported as one before the submit only if no lease has clicked.
LEMMA FailsIsTruthful ==
  ASSUME BookingInv, doing \in Running \cup {"clicked"}, Fails, UNCHANGED from
  PROVE  /\ doing' = "ended"
         /\ verdict' \in {"failed_pre_submit", "reconcile_required"}
         /\ verdict' = "failed_pre_submit" /\ from' # Extract
              => ~submitted /\ doing \in Running /\ at <= Submit
                 /\ (doing = "step" => at < Submit)
<1>1. /\ doing' = "ended"
      /\ verdict' = IF LastStarted >= Submit THEN "reconcile_required"
                                             ELSE "failed_pre_submit"
  BY DEF Fails
<1>2. SUFFICES ASSUME verdict' = "failed_pre_submit", from' # Extract
               PROVE  /\ ~submitted /\ doing \in Running /\ at <= Submit
                      /\ doing = "step" => at < Submit
  BY <1>1
<1>3. ~(LastStarted >= Submit) /\ from # Extract
  BY <1>1, <1>2
<1>4. /\ at \in 1..8 /\ from \in 1..8
      /\ from <= at /\ at <= Extract
      /\ submitted /\ doing \in Running => at = Extract
      /\ doing = "clicked" => at = Submit
  BY DEF BookingInv, AcuityTypeOK, ClickInv
<1>5. CASE doing # "session"
  <2>1. LastStarted = at
    BY <1>5 DEF LastStarted
  <2> QED  BY <1>3, <1>4, <1>5, <2>1 DEF Running
<1>6. CASE doing = "session" /\ at > from
  <2>1. LastStarted = at - 1
    BY <1>6 DEF LastStarted
  <2> QED  BY <1>3, <1>4, <1>6, <2>1 DEF Running
<1>7. CASE doing = "session" /\ ~(at > from)
  BY <1>3, <1>4, <1>7 DEF Running
<1> QED  BY <1>5, <1>6, <1>7

LEMMA StepGivesUpKeepsInv ==
  ASSUME BookingInv, StepGivesUp
  PROVE  BookingInv'
<1> USE DEF BookingInv
<1>1. /\ doing \in Running /\ Fails
      /\ UNCHANGED <<lease, from, at, boundary, sessionVars, vendorVars>>
      /\ submitted' = (submitted \/ (doing = "step" /\ at = Submit))
  BY DEF StepGivesUp, Running
<1>2. /\ doing' = "ended"
      /\ verdict' \in {"failed_pre_submit", "reconcile_required"}
      /\ verdict' = "failed_pre_submit" /\ from' # Extract => ~submitted
  BY <1>1, FailsIsTruthful DEF Running
<1>3. AcuityTypeOK'
  BY <1>1, <1>2 DEF AcuityTypeOK, Verdicts, sessionVars, vendorVars
<1>4. ClickInv'
  BY <1>1, <1>2 DEF ClickInv, vendorVars, Running
<1>5. PageInv'
  BY <1>1, <1>2
     DEF PageInv, OnlyProvenAppointments, sessionVars, vendorVars, Running
<1>6. VerdictInv'
  BY <1>1, <1>2 DEF VerdictInv, VerdictIsTruthful, ClickInv, vendorVars
<1> QED  BY <1>3, <1>4, <1>5, <1>6

-----------------------------------------------------------------------------
(* The steps.                                                              *)

FlowTypeOK ==
  /\ lease \in 0..MaxLeases /\ from \in 1..8 /\ at \in 1..8
  /\ doing \in {"idle", "session", "step", "clicked", "probe", "ended"}
  /\ boundary \in 0..7 /\ submitted \in BOOLEAN /\ verdict \in Verdicts

\* Before the submit a step that completes, or fails, has no effect at the vendor.
LEMMA EarlyStepCompletes ==
  ASSUME BookingInv, doing = "step", at \in 1..5, Completes, UNCHANGED vendorVars
  PROVE  /\ FlowTypeOK' /\ ClickInv' /\ VerdictInv'
         /\ at' = at + 1 /\ doing' = "session"
<1> USE DEF BookingInv
<1>1. /\ at' = at + 1 /\ doing' = "session" /\ verdict' = verdict
      /\ boundary' \in {at, boundary}
      /\ UNCHANGED <<lease, from, submitted>>
  BY DEF Completes
<1>2. FlowTypeOK'
  BY <1>1 DEF FlowTypeOK, AcuityTypeOK
<1>3. ClickInv'
  BY <1>1 DEF ClickInv, AcuityTypeOK, vendorVars, Running
<1>4. VerdictInv'
  BY <1>1 DEF VerdictInv, VerdictIsTruthful, vendorVars
<1> QED  BY <1>1, <1>2, <1>3, <1>4

LEMMA StepFails ==
  ASSUME BookingInv, doing \in {"step", "clicked"}, Fails,
         UNCHANGED <<lease, from, at, boundary, submitted, vendorVars>>
  PROVE  /\ FlowTypeOK' /\ ClickInv' /\ VerdictInv'
         /\ doing' = "ended"
<1> USE DEF BookingInv
<1>1. /\ doing' = "ended"
      /\ verdict' \in {"failed_pre_submit", "reconcile_required"}
      /\ verdict' = "failed_pre_submit" /\ from' # Extract => ~submitted
  BY FailsIsTruthful DEF Running
<1>2. FlowTypeOK'
  BY <1>1 DEF FlowTypeOK, AcuityTypeOK, Verdicts
<1>3. ClickInv'
  BY <1>1 DEF ClickInv, vendorVars, Running
<1>4. VerdictInv'
  BY <1>1 DEF VerdictInv, VerdictIsTruthful, ClickInv, vendorVars
<1> QED  BY <1>1, <1>2, <1>3, <1>4

\* navigate: whatever tile was clicked, the form is that of the service asked for.
LEMMA NavigateKeepsInv ==
  ASSUME BookingInv, RunNavigate
  PROVE  BookingInv'
<1> USE DEF BookingInv
<1>1. /\ doing = "step" /\ at = Navigate
      /\ UNCHANGED <<coupon, summary, vendorVars>>
  BY DEF RunNavigate, Runs
<1>2. booking' \in Offers
  BY DEF RunNavigate
<1>3. CASE booking' = Asked /\ page' = "form" /\ Completes
  <2>1. FlowTypeOK' /\ ClickInv' /\ VerdictInv' /\ at' = 2
    BY <1>1, <1>3, EarlyStepCompletes
  <2>2. AcuityTypeOK'
    BY <1>1, <1>2, <1>3, <2>1 DEF AcuityTypeOK, FlowTypeOK, Pages, vendorVars
  <2>3. PageInv'
    BY <1>1, <1>3, <2>1 DEF PageInv, OnlyProvenAppointments, vendorVars
  <2> QED  BY <2>1, <2>2, <2>3
<1>4. CASE /\ page' = "services" /\ Fails
           /\ UNCHANGED <<lease, from, at, boundary, submitted>>
  <2>1. FlowTypeOK' /\ ClickInv' /\ VerdictInv'
    BY <1>1, <1>4, StepFails
  <2>2. AcuityTypeOK'
    BY <1>1, <1>2, <1>4, <2>1 DEF AcuityTypeOK, FlowTypeOK, Pages, vendorVars
  <2>3. PageInv'
    BY <1>1, <1>4, <2>1 DEF PageInv, OnlyProvenAppointments, vendorVars
  <2> QED  BY <2>1, <2>2, <2>3
<1> QED  BY <1>3, <1>4 DEF RunNavigate

\* fill-form and the two coupon steps.
LEMMA FormAndCouponKeepInv ==
  ASSUME BookingInv, RunFillForm \/ RunOpenCoupon \/ RunApplyCoupon
  PROVE  BookingInv'
<1> USE DEF BookingInv
<1>1. /\ doing = "step" /\ at \in 2..4 /\ Completes
      /\ UNCHANGED <<booking, summary, vendorVars>>
      /\ page \in {"form", "payment"} /\ page' = "payment"
      /\ coupon' \in {"closed", "open", "sent"}
  BY DEF RunFillForm, RunOpenCoupon, RunApplyCoupon, Runs, AcuityTypeOK
<1>2. FlowTypeOK' /\ ClickInv' /\ VerdictInv' /\ at' \in 3..5
  BY <1>1, EarlyStepCompletes
<1>3. AcuityTypeOK'
  BY <1>1, <1>2 DEF AcuityTypeOK, FlowTypeOK, Pages, vendorVars
<1>4. PageInv'
  BY <1>1, <1>2 DEF PageInv, OnlyProvenAppointments, vendorVars
<1> QED  BY <1>2, <1>3, <1>4

\* verify-zero-total lets a page pass on which nothing is left to pay.
LEMMA VerifyTotalKeepsInv ==
  ASSUME BookingInv, RunVerifyTotal
  PROVE  BookingInv'
<1> USE DEF BookingInv
<1>1. doing = "step" /\ at = VerifyTotal /\ UNCHANGED <<sessionVars, vendorVars>>
  BY DEF RunVerifyTotal, Runs
<1>2. CASE PaymentBypassProven /\ Completes
  <2>1. FlowTypeOK' /\ ClickInv' /\ VerdictInv'
    BY <1>1, <1>2, EarlyStepCompletes
  <2>2. AcuityTypeOK'
    BY <1>1, <2>1 DEF AcuityTypeOK, FlowTypeOK, sessionVars, vendorVars
  <2>3. PageInv'
    BY <1>1, <1>2
       DEF PageInv, OnlyProvenAppointments, PaymentBypassProven, sessionVars,
           vendorVars
  <2> QED  BY <2>1, <2>2, <2>3
<1>3. CASE Fails /\ UNCHANGED <<lease, from, at, boundary, submitted>>
  <2>1. FlowTypeOK' /\ ClickInv' /\ VerdictInv' /\ doing' = "ended"
    BY <1>1, <1>3, StepFails
  <2>2. AcuityTypeOK'
    BY <1>1, <2>1 DEF AcuityTypeOK, FlowTypeOK, sessionVars, vendorVars
  <2>3. PageInv'
    BY <1>1, <2>1
       DEF PageInv, OnlyProvenAppointments, sessionVars, vendorVars, Running
  <2> QED  BY <2>1, <2>2, <2>3
<1> QED  BY <1>2, <1>3 DEF RunVerifyTotal

\* The vendor's answer comes too late for a page that has been proven.
LEMMA VendorPricesKeepsInv ==
  ASSUME BookingInv, VendorPrices
  PROVE  BookingInv'
<1> USE DEF BookingInv
<1>1. /\ page = "payment" /\ summary = "full" /\ summary' \in Summaries
      /\ UNCHANGED <<flowVars, page, booking, coupon, vendorVars>>
  BY DEF VendorPrices, Summaries
<1>2. AcuityTypeOK'
  BY <1>1 DEF AcuityTypeOK, flowVars, vendorVars
<1>3. ClickInv' /\ VerdictInv'
  BY <1>1 DEF ClickInv, VerdictInv, VerdictIsTruthful, flowVars, vendorVars
<1>4. PageInv'
  BY <1>1 DEF PageInv, OnlyProvenAppointments, flowVars, vendorVars
<1> QED  BY <1>2, <1>3, <1>4

\* The click comes once, on a page that has been proven.
LEMMA SubmitKeepsInv ==
  ASSUME BookingInv, RunSubmit
  PROVE  BookingInv'
<1> USE DEF BookingInv
<1>1. /\ doing = "step" /\ at = Submit /\ page = "payment" /\ doing' = "clicked"
      /\ submitted' = TRUE /\ clicked' = clicked + 1
      /\ UNCHANGED <<lease, from, at, boundary, verdict, booking, coupon, summary>>
  BY DEF RunSubmit, Runs
<1>2. ~submitted /\ clicked = 0 /\ appointments = {} /\ verdict = "none"
  BY <1>1 DEF ClickInv, VerdictInv, AcuityTypeOK, Running
<1>3. booking = Asked /\ summary = "zero" /\ booking \in Offers /\ summary \in Summaries
  BY <1>1 DEF PageInv, AcuityTypeOK, Running
<1>4. PICK made \in BOOLEAN :
        /\ appointments' = IF made
             THEN appointments \cup
                    {[click |-> clicked', offer |-> booking, summary |-> summary]}
             ELSE appointments
        /\ page' \in IF made THEN {"confirmation", "payment"}
                             ELSE {"rejected", "payment"}
  BY DEF RunSubmit
<1> DEFINE a == [click |-> clicked', offer |-> booking, summary |-> summary]
<1>5. a \in Appointments /\ a.offer = Asked /\ a.summary = "zero"
  BY <1>1, <1>2, <1>3 DEF Appointments
<1>6. /\ appointments' \in {{}, {a}}
      /\ page' \in {"confirmation", "payment", "rejected"}
      /\ page' = "confirmation" => appointments' # {}
  BY <1>2, <1>4
<1> HIDE DEF a
<1>7. AcuityTypeOK'
  BY <1>1, <1>2, <1>5, <1>6 DEF AcuityTypeOK, Pages
<1>8. ClickInv'
  BY <1>1, <1>2 DEF ClickInv, AcuityTypeOK, Running
<1>9. PageInv'
  BY <1>1, <1>3, <1>5, <1>6 DEF PageInv, OnlyProvenAppointments, Running
<1>10. boundary' # Extract
  BY <1>1, <1>2 DEF VerdictInv
<1>11. VerdictInv'
  BY <1>1, <1>2, <1>10 DEF VerdictInv, VerdictIsTruthful
<1> QED  BY <1>7, <1>8, <1>9, <1>11

\* The outcome: the step completes on the confirmation page and fails otherwise.
LEMMA AwaitOutcomeKeepsInv ==
  ASSUME BookingInv, AwaitOutcome
  PROVE  BookingInv'
<1> USE DEF BookingInv
<1>1. /\ doing = "clicked" /\ at = Submit /\ submitted
      /\ UNCHANGED <<sessionVars, vendorVars>>
  BY DEF AwaitOutcome, ClickInv
<1>2. CASE page = "confirmation" /\ Completes
  <2>1. /\ at' = Extract /\ doing' = "session" /\ verdict' = verdict
        /\ boundary' \in {Submit, boundary}
        /\ UNCHANGED <<lease, from, submitted>>
    BY <1>1, <1>2 DEF Completes
  <2>2. AcuityTypeOK'
    BY <1>1, <2>1 DEF AcuityTypeOK, sessionVars, vendorVars
  <2>3. ClickInv'
    BY <1>1, <2>1 DEF ClickInv, AcuityTypeOK, vendorVars, Running
  <2>4. PageInv'
    BY <1>1, <1>2, <2>1 DEF PageInv, OnlyProvenAppointments, sessionVars, vendorVars
  <2>5. VerdictInv'
    BY <1>1, <2>1 DEF VerdictInv, VerdictIsTruthful, vendorVars
  <2> QED  BY <2>2, <2>3, <2>4, <2>5
<1>3. CASE Fails /\ UNCHANGED <<lease, from, at, boundary, submitted>>
  <2>1. FlowTypeOK' /\ ClickInv' /\ VerdictInv' /\ doing' = "ended"
    BY <1>1, <1>3, StepFails
  <2>2. AcuityTypeOK'
    BY <1>1, <2>1 DEF AcuityTypeOK, FlowTypeOK, sessionVars, vendorVars
  <2>3. PageInv'
    BY <1>1, <2>1
       DEF PageInv, OnlyProvenAppointments, sessionVars, vendorVars, Running
  <2> QED  BY <2>1, <2>2, <2>3
<1> QED  BY <1>2, <1>3 DEF AwaitOutcome

\* extract-confirmation succeeds on a confirmation page only.
LEMMA ExtractKeepsInv ==
  ASSUME BookingInv, RunExtract
  PROVE  BookingInv'
<1> USE DEF BookingInv
<1>1. /\ doing = "step" /\ at = Extract /\ page = "confirmation"
      /\ UNCHANGED <<sessionVars, vendorVars>>
      /\ at' = 8 /\ boundary' = Extract /\ doing' = "ended" /\ verdict' = "booked"
      /\ UNCHANGED <<lease, from, submitted>>
  BY DEF RunExtract, Runs, Completes
<1>2. appointments # {}
  BY <1>1 DEF PageInv
<1>3. AcuityTypeOK'
  BY <1>1 DEF AcuityTypeOK, Verdicts, sessionVars, vendorVars
<1>4. ClickInv'
  BY <1>1 DEF ClickInv, vendorVars, Running
<1>5. PageInv'
  BY <1>1 DEF PageInv, OnlyProvenAppointments, sessionVars, vendorVars, Running
<1>6. VerdictInv'
  BY <1>1, <1>2 DEF VerdictInv, VerdictIsTruthful, vendorVars
<1> QED  BY <1>3, <1>4, <1>5, <1>6

\* The probe takes what it does not see for unknown.
LEMMA ProbeKeepsInv ==
  ASSUME BookingInv, ProbePage
  PROVE  BookingInv'
<1> USE DEF BookingInv
<1>1. /\ doing = "probe" /\ doing' = "ended"
      /\ verdict' \in {"booked", "reconcile_required"}
      /\ verdict' = "booked" => page = "confirmation"
      /\ UNCHANGED <<lease, from, at, boundary, submitted, sessionVars, vendorVars>>
  BY DEF ProbePage
<1>2. AcuityTypeOK'
  BY <1>1 DEF AcuityTypeOK, Verdicts, sessionVars, vendorVars
<1>3. ClickInv'
  BY <1>1 DEF ClickInv, vendorVars, Running
<1>4. PageInv'
  BY <1>1 DEF PageInv, OnlyProvenAppointments, sessionVars, vendorVars, Running
<1>5. VerdictInv'
  BY <1>1 DEF VerdictInv, VerdictIsTruthful, PageInv, vendorVars
<1> QED  BY <1>2, <1>3, <1>4, <1>5

-----------------------------------------------------------------------------
LEMMA BookingStepInv == BookingInv /\ [BookingNext]_bookingVars => BookingInv'
<1> SUFFICES ASSUME BookingInv, [BookingNext]_bookingVars
             PROVE  BookingInv'
  OBVIOUS
<1>1. CASE UNCHANGED bookingVars
  BY <1>1 DEF BookingInv, AcuityTypeOK, ClickInv, PageInv, VerdictInv,
              OnlyProvenAppointments, VerdictIsTruthful, bookingVars, flowVars,
              sessionVars, vendorVars
<1> QED  BY <1>1, TakeLeaseKeepsInv, DieKeepsInv, StepGivesUpKeepsInv,
            VendorPricesKeepsInv, OpenSessionKeepsInv, NavigateKeepsInv,
            FormAndCouponKeepInv, VerifyTotalKeepsInv, SubmitKeepsInv,
            AwaitOutcomeKeepsInv, ExtractKeepsInv, ProbeKeepsInv
            DEF BookingNext, BookingStep

LEMMA BookingInvariant == BookingSpec => []BookingInv
BY BookingInitInv, BookingStepInv, PTL DEF BookingSpec

\* The vendor never makes an appointment for another service or for money, whatever
\* tile the resolver clicked, whenever the vendor prices the coupon, whatever dies
\* (selectService, verifyZeroTotal).
THEOREM AppointmentsAreProven == BookingSpec => []OnlyProvenAppointments
<1>1. BookingInv => OnlyProvenAppointments
  BY DEF BookingInv, PageInv
<1> QED  BY <1>1, BookingInvariant, PTL

\* "PAY & CONFIRM" is clicked once over all leases of a job
\* (EFFECTFUL_ONCE_REPLAY, probeConfirmationGate, submitBooking).
THEOREM SubmitClicksOnce == BookingSpec => []ClicksOnce
<1>1. BookingInv => ClicksOnce
  BY DEF BookingInv, ClickInv, ClicksOnce
<1> QED  BY <1>1, BookingInvariant, PTL

\* What a lease reports is true of the vendor (statusForStep,
\* probeConfirmationGate).
THEOREM VerdictsAreTruthful == BookingSpec => []VerdictIsTruthful
<1>1. BookingInv => VerdictIsTruthful
  BY DEF BookingInv, VerdictInv
<1> QED  BY <1>1, BookingInvariant, PTL

-----------------------------------------------------------------------------
(* One page for a lease.                                                   *)

\* StepsFindTheirPage, also before the next segment's session is opened.
PageFollows == doing \in Running /\ at > from => page = PageFor(at)

LEMMA PageFollowsStep ==
  ASSUME ~FreshPage, BookingInv, PageFollows, [BookingNext]_bookingVars
  PROVE  PageFollows'
<1> USE DEF PageFollows, Running
<1>0. /\ from \in 1..8 /\ at \in 1..8
      /\ doing \in Running \cup {"clicked"} => from <= at
      /\ doing = "clicked" => at = Submit
  BY DEF BookingInv, AcuityTypeOK, ClickInv
<1>1. CASE TakeLease
  BY <1>1, <1>0 DEF TakeLease, BookingInv, AcuityTypeOK
<1>2. CASE Die
  BY <1>2 DEF Die
<1>3. CASE StepGivesUp
  BY <1>3 DEF StepGivesUp, Fails
<1>4. CASE VendorPrices
  BY <1>4 DEF VendorPrices, flowVars, PageFor
<1>5. CASE OpenSession
  BY <1>5 DEF OpenSession, sessionVars, PageFor
<1>6. CASE RunNavigate
  BY <1>6 DEF RunNavigate, Runs, Completes, Fails, PageFor
<1>7. CASE RunFillForm
  BY <1>7 DEF RunFillForm, Runs, Completes, PageFor
<1>8. CASE RunOpenCoupon
  BY <1>8 DEF RunOpenCoupon, Runs, Completes, PageFor
<1>9. CASE RunApplyCoupon
  BY <1>9 DEF RunApplyCoupon, Runs, Completes, PageFor
<1>10. CASE RunVerifyTotal
  BY <1>10 DEF RunVerifyTotal, Runs, Completes, Fails, PageFor, sessionVars
<1>11. CASE RunSubmit
  BY <1>11 DEF RunSubmit
<1>12. CASE AwaitOutcome
  BY <1>0, <1>12 DEF AwaitOutcome, Completes, Fails, PageFor, sessionVars
<1>13. CASE RunExtract
  BY <1>13 DEF RunExtract, Runs, Completes
<1>14. CASE ProbePage
  BY <1>14 DEF ProbePage
<1>15. CASE UNCHANGED bookingVars
  BY <1>15 DEF bookingVars, flowVars, sessionVars, PageFor
<1> QED
  BY <1>1, <1>2, <1>3, <1>4, <1>5, <1>6, <1>7, <1>8, <1>9, <1>10, <1>11, <1>12,
     <1>13, <1>14, <1>15 DEF BookingNext, BookingStep

\* A page for every segment is the only thing that comes between a step and the
\* page its predecessor landed on: in a session layer that keeps one page for the
\* lease, every step but the first of a lease finds it (run.ts, execute;
\* flow-steps.ts).
THEOREM OnePageIsFound ==
  ASSUME ~FreshPage PROVE BookingSpec => []StepsFindTheirPage
<1>1. BookingInit => PageFollows
  BY DEF BookingInit, PageFollows, Running
<1>2. PageFollows => StepsFindTheirPage
  BY DEF PageFollows, StepsFindTheirPage, Running
<1> QED
  BY <1>1, <1>2, BookingInvariant, PageFollowsStep, PTL DEF BookingSpec
=============================================================================
