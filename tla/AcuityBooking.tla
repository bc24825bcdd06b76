--------------------------- MODULE AcuityBooking ---------------------------
(***************************************************************************)
(* The booking flow on the vendor's pages: the seven steps of flow-steps.ts *)
(* (navigate, fill-form, the three of the payment injection, submit,       *)
(* extract-confirmation), the browser page they meet, what the vendor      *)
(* books, and how a lease that follows a crash goes on.  BridgeJobs has    *)
(* the queue around it, FlowRun the runner, AcuityService and AcuityCalendar *)
(* what navigate does in detail; here it is the page that matters.         *)
(*                                                                         *)
(* The runner opens a session for every segment (run.ts, execute), and the *)
(* session that the worker opens by default is a new, blank page           *)
(* (BrowserSessionLive).  FreshPage = FALSE is a session layer that keeps  *)
(* one page for the lease, which the executor's options allow.             *)
(***************************************************************************)
EXTENDS Integers, FiniteSets

CONSTANTS
  Offers,     \* appointment types the vendor offers
  Asked,      \* the one the job is about
  FreshPage,  \* does every segment get a page of its own?
  MaxLeases   \* bound on leases of the job

ASSUME BookingAssumption ==
  /\ Asked \in Offers /\ FreshPage \in BOOLEAN /\ MaxLeases \in Nat \ {0}

\* The steps by their place in the plan, and their segments.
Navigate == 1
FillForm == 2
OpenCoupon == 3
ApplyCoupon == 4
VerifyTotal == 5
Submit == 6
Extract == 7
Steps == 1..7
StepSegment(k) == CASE k \in 3..5 -> 3 [] k = 6 -> 4 [] k = 7 -> 5 [] OTHER -> k

VARIABLES
  lease,      \* leases so far
  from,       \* the step this lease began with
  at,         \* the step that is next or running
  doing,      \* "idle", "session", "step", "clicked", "probe", "ended"
  page,       \* what the session's page shows
  booking,    \* the appointment type the page is booking
  coupon,     \* the coupon section of the payment page
  summary,    \* its order summary
  clicked,    \* clicks on "PAY & CONFIRM" so far, over all leases
  appointments, \* the vendor: appointments made, with what was charged
  boundary,   \* the journal: last step of the last completed segment
  submitted,  \* the journal: has submit a `started' row?
  verdict     \* what the job's lease reports

sessionVars == <<page, booking, coupon, summary>>
flowVars == <<lease, from, at, doing, boundary, submitted, verdict>>
vendorVars == <<clicked, appointments>>
bookingVars == <<flowVars, sessionVars, vendorVars>>

Pages == {"blank", "services", "form", "payment", "confirmation", "rejected"}
Summaries == {"full", "partial", "zero", "rejected"}
Verdicts == {"none", "booked", "failed_pre_submit", "reconcile_required"}
Appointments == [click : Nat, offer : Offers, summary : Summaries]

AcuityTypeOK ==
  /\ lease \in 0..MaxLeases /\ from \in 1..8 /\ at \in 1..8
  /\ doing \in {"idle", "session", "step", "clicked", "probe", "ended"}
  /\ page \in Pages /\ booking \in Offers
  /\ coupon \in {"closed", "open", "sent"} /\ summary \in Summaries
  /\ clicked \in Nat /\ appointments \subseteq Appointments
  /\ boundary \in 0..7 /\ submitted \in BOOLEAN /\ verdict \in Verdicts

BookingInit ==
  /\ lease = 0 /\ from = 1 /\ at = 1 /\ doing = "idle" /\ page = "blank"
  /\ booking = Asked /\ coupon = "closed" /\ summary = "full"
  /\ clicked = 0 /\ appointments = {}
  /\ boundary = 0 /\ submitted = FALSE /\ verdict = "none"

-----------------------------------------------------------------------------
(* Leases.                                                                 *)

Blank ==
  page' = "blank" /\ booking' = Asked /\ coupon' = "closed" /\ summary' = "full"

\* executeBookingThroughFlow: evidence of an unfinished submit is probed first.
Gate == IF submitted /\ boundary < Submit THEN "probe" ELSE "session"

\* A lease resumes behind the last boundary; its first page is blank.
TakeLease ==
  /\ doing = "idle" /\ verdict = "none" /\ lease < MaxLeases
  /\ lease' = lease + 1
  /\ from' = boundary + 1 /\ at' = boundary + 1
  /\ doing' = IF boundary = Extract THEN "ended" ELSE Gate
  /\ verdict' = IF boundary = Extract THEN "booked" ELSE verdict
  /\ Blank
  /\ UNCHANGED <<boundary, submitted, vendorVars>>

\* The process dies and takes the page with it.
Die ==
  /\ doing \in {"session", "step", "clicked", "probe"}
  /\ doing' = "idle"
  /\ Blank
  /\ UNCHANGED <<lease, from, at, boundary, submitted, verdict, vendorVars>>

\* The next segment's session; within a segment the page stays.
OpenSession ==
  /\ doing = "session"
  /\ doing' = "step"
  /\ IF FreshPage /\ (at = from \/ StepSegment(at) # StepSegment(at - 1))
       THEN Blank ELSE UNCHANGED sessionVars
  /\ UNCHANGED <<lease, from, at, boundary, submitted, verdict, vendorVars>>

\* statusForStep, for the last step whose `started' row this lease wrote: from
\* submit on, the vendor may have booked.
LastStarted ==
  CASE doing # "session" -> at
    [] doing = "session" /\ at > from -> at - 1
    [] OTHER -> 0

Fails ==
  /\ doing' = "ended"
  /\ verdict' = IF LastStarted >= Submit THEN "reconcile_required"
                                         ELSE "failed_pre_submit"

\* The step's checkpoint; a boundary if the segment ends with it.
Completes ==
  /\ at' = at + 1
  /\ boundary' = IF at = Extract \/ StepSegment(at) # StepSegment(at + 1)
                 THEN at ELSE boundary
  /\ doing' = IF at = Extract THEN "ended" ELSE "session"
  /\ verdict' = IF at = Extract THEN "booked" ELSE verdict
  /\ UNCHANGED <<lease, from, submitted>>

\* The page is not what the step expects, a selector is not found, a wait runs
\* out: the session or the step fails.
StepGivesUp ==
  /\ doing \in {"session", "step"}
  /\ submitted' = (submitted \/ (doing = "step" /\ at = Submit))
  /\ Fails
  /\ UNCHANGED <<lease, from, at, boundary, sessionVars, vendorVars>>

Runs(k) == doing = "step" /\ at = k

-----------------------------------------------------------------------------
(* The steps.                                                              *)

\* navigateToBooking: whatever tile the resolver clicked, the id in the address
\* must be the one asked for; then the page must turn out to be the form.
RunNavigate ==
  /\ Runs(Navigate)
  /\ \E o \in Offers :
       /\ booking' = o
       /\ \/ o = Asked /\ page' = "form" /\ Completes
          \/ page' = "services" /\ Fails
             /\ UNCHANGED <<lease, from, at, boundary, submitted>>
  /\ UNCHANGED <<coupon, summary, vendorVars>>

\* fillFormFields: the fields must be there; the vendor's validation lets the form
\* pass or not.
RunFillForm ==
  /\ Runs(FillForm) /\ page = "form"
  /\ page' = "payment"
  /\ Completes
  /\ UNCHANGED <<booking, coupon, summary, vendorVars>>

RunOpenCoupon ==
  /\ Runs(OpenCoupon) /\ page = "payment"
  /\ coupon' = "open"
  /\ Completes
  /\ UNCHANGED <<page, booking, summary, vendorVars>>

\* applyCoupon waits three seconds, not for the answer.
RunApplyCoupon ==
  /\ Runs(ApplyCoupon) /\ page = "payment" /\ coupon = "open"
  /\ coupon' = "sent"
  /\ Completes
  /\ UNCHANGED <<page, booking, summary, vendorVars>>

\* The vendor answers with a new order summary.
VendorPrices ==
  /\ page = "payment" /\ coupon = "sent" /\ summary = "full"
  /\ summary' \in {"partial", "zero", "rejected"}
  /\ UNCHANGED <<flowVars, page, booking, coupon, vendorVars>>

\* Variant for mutation: the certificate is enough, whatever is left to pay.
ProvenByCertificate == summary \in {"partial", "zero"}

\* isPaymentBypassProven: the certificate's line, a discount, and a total of 0.
PaymentBypassProven == summary = "zero"

\* verifyZeroTotal, and its landing: proven, or diverged.
RunVerifyTotal ==
  /\ Runs(VerifyTotal) /\ page = "payment"
  /\ IF PaymentBypassProven
       THEN Completes
       ELSE Fails /\ UNCHANGED <<lease, from, at, boundary, submitted>>
  /\ UNCHANGED <<sessionVars, vendorVars>>

\* submitBooking: the row `started', the button, the click.  What the vendor makes
\* of it and what the page shows of that are two things; a page that still shows
\* nothing after a minute tells neither.
RunSubmit ==
  /\ Runs(Submit) /\ page = "payment"
  /\ submitted' = TRUE
  /\ clicked' = clicked + 1
  /\ \E made \in BOOLEAN :
       /\ appointments' = IF made
            THEN appointments \cup
                   {[click |-> clicked', offer |-> booking, summary |-> summary]}
            ELSE appointments
       /\ page' \in IF made THEN {"confirmation", "payment"}
                            ELSE {"rejected", "payment"}
  /\ doing' = "clicked"
  /\ UNCHANGED <<lease, from, at, boundary, verdict, booking, coupon, summary>>

\* Variant for mutation: a wait that runs out clicks again, as the retry of
\* submitBooking does with an outcome that names no error.
AwaitOutcomeRetries ==
  /\ doing = "clicked"
  /\ CASE page = "confirmation" -> Completes
       [] page = "payment" /\ clicked < 2 ->
            /\ doing' = "step"
            /\ UNCHANGED <<lease, from, at, boundary, submitted, verdict>>
       [] OTHER -> Fails /\ UNCHANGED <<lease, from, at, boundary, submitted>>
  /\ UNCHANGED <<sessionVars, vendorVars>>

\* waitForOutcome.  A wait that runs out counts as an error, and the retry asks for
\* an outcome without one: there is no second click.
AwaitOutcome ==
  /\ doing = "clicked"
  /\ IF page = "confirmation"
       THEN Completes
       ELSE Fails /\ UNCHANGED <<lease, from, at, boundary, submitted>>
  /\ UNCHANGED <<sessionVars, vendorVars>>

\* extractConfirmation.
RunExtract ==
  /\ Runs(Extract) /\ page = "confirmation"
  /\ Completes
  /\ UNCHANGED <<sessionVars, vendorVars>>

\* Variant for mutation: a probe that finds no confirmation means not booked.
ProbeForgives ==
  /\ doing = "probe" /\ doing' = "ended"
  /\ verdict' = IF page = "confirmation" THEN "booked" ELSE "failed_pre_submit"
  /\ UNCHANGED <<lease, from, at, boundary, submitted, sessionVars, vendorVars>>

\* probeConfirmationGate: extract-confirmation on the page of a new session.
ProbePage ==
  /\ doing = "probe" /\ doing' = "ended"
  /\ verdict' = IF page = "confirmation" THEN "booked" ELSE "reconcile_required"
  /\ UNCHANGED <<lease, from, at, boundary, submitted, sessionVars, vendorVars>>

-----------------------------------------------------------------------------
BookingStep ==
  \/ OpenSession \/ RunNavigate \/ RunFillForm \/ RunOpenCoupon \/ RunApplyCoupon
  \/ RunVerifyTotal \/ RunSubmit \/ AwaitOutcome \/ RunExtract \/ ProbePage

BookingNext == TakeLease \/ Die \/ StepGivesUp \/ VendorPrices \/ BookingStep

BookingSpec == BookingInit /\ [][BookingNext]_bookingVars

-----------------------------------------------------------------------------
(* Properties.                                                             *)

PageFor(k) ==
  CASE k = Navigate -> "blank"
    [] k = FillForm -> "form"
    [] k \in OpenCoupon..Submit -> "payment"
    [] k = Extract -> "confirmation"

\* A step that follows another one in its lease starts on the page its predecessor
\* landed on (flow-steps.ts, bypass-payment.ts, extract.ts).
StepsFindTheirPage == doing = "step" /\ at > from => page = PageFor(at)

\* The vendor never makes an appointment for another service, and never one that
\* is not free: every click on "PAY & CONFIRM" follows a proof on the same page
\* (selectService, verifyZeroTotal, the payment-injection segment).
OnlyProvenAppointments ==
  \A a \in appointments : a.offer = Asked /\ a.summary = "zero"

\* Whatever crashes and however often the job is leased: one click
\* (submitBooking, EFFECTFUL_ONCE_REPLAY, probeConfirmationGate).
ClicksOnce == clicked <= 1

\* What the lease reports is true of the vendor: booked means there is an
\* appointment, and a failure before the submit that there is none (a lease that
\* begins with extract-confirmation excepted, see PreSubmitFailureNotBooked of
\* BridgeJobs).
VerdictIsTruthful ==
  /\ verdict = "booked" => appointments # {}
  /\ verdict = "failed_pre_submit" /\ from # Extract => appointments = {}
=============================================================================
