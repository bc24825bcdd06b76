--------------------------- MODULE AcuityService ---------------------------
(***************************************************************************)
(* How the Acuity adapter finds a service on the vendor's page and opens   *)
(* its calendar.  The booking (steps/navigate.ts) and the shared helper    *)
(* (wizard-service.ts) use the cascade of service-resolver.ts: by id, by   *)
(* name, by common words, by edit distance.  The wizard reads of dates and *)
(* slots (steps/read-availability.ts, steps/read-slots.ts) take the first  *)
(* name that contains the one asked for.  All of them click "Book" and     *)
(* look at the id in the address afterwards, each in its own way.          *)
(*                                                                         *)
(* A name is a sequence of words, already normalised; scores are percent.  *)
(***************************************************************************)
EXTENDS Integers, Sequences, FiniteSets, Functions

CONSTANTS
  Words,             \* words that names are made of
  Services,          \* ids of the vendor's appointment types
  NoService,         \* no id
  MinConfidence,     \* DEFAULT_SERVICE_MIN_CONFIDENCE
  TokenScore(_, _),  \* scoreLabel where it answers 'token-overlap', else 0
  FuzzyScore(_, _)   \* scoreLabel where it answers 'fuzzy', else 0

Names == [1..1 -> Words] \cup [1..2 -> Words]

ASSUME ServiceAssumption ==
  /\ Words # {} /\ NoService \notin Services /\ MinConfidence \in 0..100
  /\ \A a, b \in Names : TokenScore(a, b) \in 0..100 /\ FuzzyScore(a, b) \in 0..100

VARIABLES
  caller,    \* who looks for the service
  wanted,    \* the name it asks for
  wantedId,  \* and the id, if it has one
  nameOf,    \* the vendor: names of the services
  tiles,     \* the vendor: services on the page, in order
  business,  \* is the BUSINESS object on the page?
  hit,       \* the tile that was found, with the confidence
  opened,    \* the service whose calendar was opened
  looking    \* where the caller is

serviceVars ==
  <<caller, wanted, wantedId, nameOf, tiles, business, hit, opened, looking>>
serviceQuery == <<caller, wanted, wantedId, nameOf, tiles, business>>

Cascading == {"book", "shared"}
Seekers == Cascading \cup {"dates", "slots"}
NoHit == [service |-> NoService, confidence |-> 0]
Hits == [service : Services \cup {NoService}, confidence : 0..100]

ServiceTypeOK ==
  /\ caller \in Seekers /\ wanted \in Names
  /\ wantedId \in Services \cup {NoService}
  /\ nameOf \in [Services -> Names] /\ tiles \in Seq(Services)
  /\ business \in BOOLEAN /\ hit \in Hits
  /\ opened \in Services \cup {NoService}
  /\ looking \in {"idle", "list", "found", "opened", "done", "failed"}

-----------------------------------------------------------------------------
(* The strategies.  Each yields a hit or none.                             *)

\* The first tile that satisfies a test.
FirstTile(test) ==
  IF \E i \in DOMAIN tiles : test[tiles[i]]
    THEN tiles[CHOOSE i \in DOMAIN tiles :
                 test[tiles[i]] /\ \A j \in 1..(i - 1) : ~test[tiles[j]]]
    ELSE NoService

Match(service, confidence) ==
  IF service = NoService THEN NoHit
  ELSE [service |-> service, confidence |-> confidence]

Named(name) == FirstTile([s \in Services |-> nameOf[s] = name])

\* tryIdMatch: the name that BUSINESS gives for the id, then the first tile with
\* that name.
IdMatch ==
  IF wantedId # NoService /\ business THEN Match(Named(nameOf[wantedId]), 100)
                                      ELSE NoHit

\* tryNormalizedMatch.
NormalizedMatch == Match(Named(wanted), 95)

\* tryTokenOverlap, tryFuzzyMatch: the first tile with the highest score.
Best(score) ==
  LET best == CHOOSE i \in DOMAIN tiles :
                \A j \in DOMAIN tiles :
                  /\ score[tiles[j]] <= score[tiles[i]]
                  /\ j < i => score[tiles[j]] < score[tiles[i]]
  IN  IF \E i \in DOMAIN tiles : score[tiles[i]] > 0
        THEN Match(tiles[best], score[tiles[best]])
        ELSE NoHit

TokenMatch == Best([s \in Services |-> TokenScore(wanted, nameOf[s])])
FuzzyMatch == Best([s \in Services |-> FuzzyScore(wanted, nameOf[s])])

OrElse(match, next) == IF match # NoHit THEN match ELSE next

\* resolveServiceOnPage: the first strategy that finds a tile decides.
Cascade ==
  OrElse(IdMatch, OrElse(NormalizedMatch, OrElse(TokenMatch, FuzzyMatch)))

\* name.includes(serviceName), word by word.
IncludesName(name, part) ==
  \E i \in 0..(Len(name) - Len(part)) : SubSeq(name, i + 1, i + Len(part)) = part

\* clickServiceBook of the two wizard reads.
FirstContaining ==
  Match(FirstTile([s \in Services |-> IncludesName(nameOf[s], wanted)]), 100)

-----------------------------------------------------------------------------
FirstName == CHOOSE n \in Names : TRUE

ServiceInit ==
  /\ caller = "book" /\ wanted = FirstName /\ wantedId = NoService
  /\ nameOf = [s \in Services |-> FirstName] /\ tiles = <<>> /\ business = FALSE
  /\ hit = NoHit /\ opened = NoService /\ looking = "idle"

\* A booking always passes its service's id; the reads pass theirs when they have
\* one.
LookFor ==
  /\ looking = "idle" /\ looking' = "list"
  /\ caller' \in Seekers /\ wanted' \in Names
  /\ wantedId' \in Services \cup {NoService}
  /\ nameOf' \in [Services -> Names]
  /\ tiles' \in {s \in UNION {[1..n -> Services] : n \in 0..Cardinality(Services)} :
                   IsInjective(s)}
  /\ business' \in IF wantedId' = NoService THEN {FALSE} ELSE BOOLEAN
  /\ UNCHANGED <<hit, opened>>

LeavePage ==
  /\ looking \in {"done", "failed"} /\ looking' = "idle"
  /\ caller' = "book" /\ wanted' = FirstName /\ wantedId' = NoService
  /\ nameOf' = [s \in Services |-> FirstName] /\ tiles' = <<>>
  /\ business' = FALSE /\ hit' = NoHit /\ opened' = NoService

\* Nothing found, no "Book" button, a click or a navigation that fails.
LookupFails ==
  /\ looking \in {"list", "found", "opened"} /\ looking' = "failed"
  /\ UNCHANGED <<serviceQuery, hit, opened>>

\* The cascade, and the confidence the flow asks for.
Resolve ==
  /\ looking = "list" /\ caller \in Cascading
  /\ Cascade # NoHit /\ Cascade.confidence >= MinConfidence
  /\ hit' = Cascade /\ looking' = "found"
  /\ UNCHANGED <<serviceQuery, opened>>

\* The wizard reads.
Search ==
  /\ looking = "list" /\ caller \notin Cascading
  /\ FirstContaining # NoHit
  /\ hit' = FirstContaining /\ looking' = "found"
  /\ UNCHANGED <<serviceQuery, opened>>

\* The click, and the address /appointment/<id>/calendar/<id>.
ClickBook ==
  /\ looking = "found"
  /\ opened' = hit.service /\ looking' = "opened"
  /\ UNCHANGED <<serviceQuery, hit>>

\* Variant for mutation: nobody insists on the id.
VerifyIdWarning ==
  /\ looking = "opened"
  /\ looking' = "done"
  /\ UNCHANGED <<serviceQuery, hit, opened>>

\* The id in the address must be the one asked for; the shared helper only warns.
VerifyId ==
  /\ looking = "opened"
  /\ looking' = IF caller # "shared" /\ wantedId \notin {NoService, opened}
                  THEN "failed" ELSE "done"
  /\ UNCHANGED <<serviceQuery, hit, opened>>

ServiceStep == Resolve \/ Search \/ ClickBook \/ VerifyId
ServiceNext == LookFor \/ LeavePage \/ LookupFails \/ ServiceStep
ServiceSpec == ServiceInit /\ [][ServiceNext]_serviceVars

-----------------------------------------------------------------------------
(* Properties.                                                             *)

Shown == {tiles[i] : i \in DOMAIN tiles}

\* Whose names could be taken for the one asked for.
Alike == IF caller \in Cascading
           THEN {s \in Shown : nameOf[s] = wanted}
           ELSE {s \in Shown : IncludesName(nameOf[s], wanted)}

\* A guess that is clicked is the best there is, good enough, and not made while
\* the page has the name asked for.
GoodGuess ==
  hit.confidence < 95 =>
    /\ hit.confidence >= MinConfidence
    /\ \A s \in Shown :
         nameOf[s] # wanted /\ TokenScore(wanted, nameOf[s]) <= hit.confidence

\* The calendar that is read or booked belongs to the service asked for: by id
\* whenever the caller insists on one, by name whenever the page leaves no choice,
\* and for the helper that only warns when the page names its services apart and
\* has the BUSINESS object, whatever the name says.  What only resembles the name
\* is a good guess (selectService, clickServiceBook, resolveServiceOnPage).
OpensTheAskedService ==
  looking = "done" =>
    /\ wantedId # NoService /\ caller # "shared" => opened = wantedId
    /\ wantedId = NoService /\ Cardinality(Alike) = 1 => opened \in Alike
    /\ (/\ caller = "shared" /\ wantedId \in Shown /\ business
        /\ \A s, t \in Shown : nameOf[s] = nameOf[t] => s = t)
         => opened = wantedId
    /\ caller \in Cascading => GoodGuess
=============================================================================
