------------------------- MODULE FlowJournalProofs -------------------------
(***************************************************************************)
(* Theorems about FlowJournal: for any number of appenders, rows, days and *)
(* retries, on each of the three stores.                                   *)
(***************************************************************************)
EXTENDS FlowJournal, FiniteSetTheorems, WellFoundedInduction, TLAPS

\* A row's number is never ahead of the rows committed before it.
RowsFit ==
  \A r \in rows : /\ r.seq <= r.no /\ r.no < commits
                  /\ r.began <= r.no /\ r.at <= day

RowsApart == \A r, s \in rows : r.no = s.no => r = s
RowsInTime == \A r, s \in rows : r.no <= s.no => r.at <= s.at
RowsUnbroken == \A r \in rows : \A n \in r.no..(commits - 1) : \E s \in rows : s.no = n
RowsOrdered == \A r, s \in rows : r.no < s.began => r.seq < s.seq
RowsInv == RowsFit /\ RowsApart /\ RowsInTime /\ RowsUnbroken /\ RowsOrdered

\* Where the number is the length of the list, no append is ever under way.
Counted ==
  backend # "postgres" =>
    /\ Cardinality(rows) <= commits
    /\ \A r \in rows : r.seq < Cardinality(rows)
    /\ \A a \in Appenders : phase[a] = "idle"

\* A number is above those of all rows the append began behind, and a row that has
\* taken it since is one of its racers'.
Appending ==
  \A a \in Appenders :
    /\ phase[a] # "idle" => since[a] + tries[a] <= commits
    /\ phase[a] \in {"insert", "commit"} => tries[a] < MaxRetries
    /\ phase[a] = "commit" =>
         /\ number[a] <= commits
         /\ \A r \in rows : /\ r.no < since[a] => r.seq < number[a]
                            /\ r.seq >= number[a] => r.no >= since[a] + tries[a]

JournalInv == JournalTypeOK /\ RowsInv /\ Counted /\ Appending

-----------------------------------------------------------------------------
\* A nonempty set of numbers below a bound has a greatest.
LEMMA GreatestExists ==
  ASSUME NEW T \in SUBSET Nat, NEW n \in Nat, T # {}, \A k \in T : k <= n
  PROVE  \E m \in T : \A k \in T : k <= m
<1> DEFINE Above == {u \in Nat : \A k \in T : k <= u}
<1>1. Above \subseteq Nat /\ Above # {}
  OBVIOUS
<1>2. IsWellFoundedOn(OpToRel(<, Nat), Nat)
  BY NatLessThanWellFounded
<1>3. \E u \in Above : \A v \in Above : ~ (<<v, u>> \in OpToRel(<, Nat))
  <2> HIDE DEF Above
  <2> QED  BY <1>1, <1>2, WFMin
<1>4. PICK u \in Above : \A v \in Above : ~ (v < u)
  <2>1. \A v, w \in Nat : v < w => <<v, w>> \in OpToRel(<, Nat)
    BY DEF OpToRel
  <2>2. PICK u \in Above : \A v \in Above : ~ (<<v, u>> \in OpToRel(<, Nat))
    BY <1>3
  <2> QED  BY <1>1, <2>1, <2>2
<1>5. ASSUME u \notin T PROVE FALSE
  <2>1. \A k \in T : k < u
    BY <1>4, <1>5
  <2>2. u - 1 \in Nat
    <3>1. PICK k \in T : TRUE
      OBVIOUS
    <3>2. k \in Nat /\ u \in Nat /\ k < u
      BY <2>1, <1>4, <3>1
    <3> QED  BY <3>2
  <2>3. u - 1 \in Above
    BY <2>1, <2>2
  <2> QED  BY <1>4, <2>2, <2>3
<1> QED  BY <1>4, <1>5

\* The next number is above all that are taken.
LEMMA NextSeqIsNext ==
  ASSUME JournalTypeOK, RowsFit
  PROVE  /\ NextSeq \in Nat /\ NextSeq <= commits
         /\ \A r \in rows : r.seq < NextSeq
<1>1. CASE rows = {}
  BY <1>1 DEF NextSeq, JournalTypeOK
<1>2. CASE rows # {}
  <2>1. /\ Taken \in SUBSET Nat /\ Taken # {} /\ commits \in Nat
        /\ \A k \in Taken : k \in Nat /\ k < commits /\ k <= commits
    BY <1>2 DEF Taken, JournalTypeOK, Rows, RowsFit
  <2>2. \E m \in Taken : \A k \in Taken : k <= m
    BY <2>1, GreatestExists
  <2>3. PICK m \in Taken : NextSeq = 1 + m /\ \A k \in Taken : k <= m
    BY <1>2, <2>2 DEF NextSeq
  <2>4. m \in Nat /\ m < commits
    BY <2>1, <2>3
  <2>5. ASSUME NEW r \in rows PROVE r.seq < NextSeq
    <3>1. r.seq \in Taken
      BY DEF Taken
    <3>2. r.seq \in Nat /\ r.seq <= m
      BY <2>1, <2>3, <3>1
    <3> QED  BY <2>3, <2>4, <3>2
  <2>6. NextSeq \in Nat /\ NextSeq <= commits
    BY <2>1, <2>3, <2>4
  <2> QED  BY <2>5, <2>6
<1> QED  BY <1>1, <1>2

LEMMA JournalInitInv == JournalInit => JournalInv
<1> SUFFICES ASSUME JournalInit PROVE JournalInv
  OBVIOUS
<1>1. JournalTypeOK
  BY JournalAssumption, FS_EmptySet DEF JournalInit, JournalTypeOK
<1>2. RowsInv
  BY DEF JournalInit, RowsInv, RowsFit, RowsApart, RowsInTime, RowsUnbroken, RowsOrdered
<1>3. Counted /\ Appending
  BY FS_EmptySet DEF JournalInit, Counted, Appending
<1> QED  BY <1>1, <1>2, <1>3 DEF JournalInv

-----------------------------------------------------------------------------
(* The rows.                                                               *)

LEMMA CommitKeepsRows ==
  ASSUME JournalTypeOK, RowsInv, NEW seq \in Nat, NEW began \in Nat,
         seq <= commits, began <= commits, day' = day,
         \A r \in rows : r.no < began => r.seq < seq,
         Commit(seq, began)
  PROVE  RowsInv'
<1> DEFINE new == [seq |-> seq, no |-> commits, began |-> began, at |-> day]
<1>1. rows' = rows \cup {new} /\ commits' = commits + 1 /\ commits \in Nat /\ day \in Nat
  BY DEF Commit, JournalTypeOK
<1>2. \A r \in rows : /\ r.seq \in Nat /\ r.no \in Nat /\ r.began \in Nat /\ r.at \in Nat
                      /\ r.seq <= r.no /\ r.no < commits /\ r.began <= r.no /\ r.at <= day
  BY DEF JournalTypeOK, Rows, RowsInv, RowsFit
<1>3. new.seq = seq /\ new.no = commits /\ new.began = began /\ new.at = day
  OBVIOUS
<1> HIDE DEF new
<1>4. RowsFit'
  BY <1>1, <1>2, <1>3 DEF RowsFit
<1>5. RowsApart'
  BY <1>1, <1>2, <1>3 DEF RowsApart, RowsInv
<1>6. RowsInTime'
  BY <1>1, <1>2, <1>3 DEF RowsInTime, RowsInv
<1>7. RowsUnbroken'
  <2> SUFFICES ASSUME NEW r \in rows', NEW n \in r.no..commits
               PROVE  \E s \in rows' : s.no = n
    BY <1>1 DEF RowsUnbroken
  <2>1. CASE n = commits
    BY <1>1, <1>3, <2>1
  <2>2. CASE n # commits
    <3>1. r \in rows /\ n \in r.no..(commits - 1)
      BY <1>1, <1>2, <1>3, <2>2
    <3> QED  BY <1>1, <3>1 DEF RowsUnbroken, RowsInv
  <2> QED  BY <2>1, <2>2
<1>8. RowsOrdered'
  BY <1>1, <1>2, <1>3 DEF RowsOrdered, RowsInv
<1> QED  BY <1>4, <1>5, <1>6, <1>7, <1>8 DEF RowsInv

\* The oldest rows may go.
LEMMA PurgeKeepsRows ==
  ASSUME JournalTypeOK, RowsInv, rows' = FreshRows, UNCHANGED <<commits, day>>
  PROVE  RowsInv'
<1>1. rows' \subseteq rows
  BY DEF FreshRows
<1>2. RowsFit' /\ RowsApart' /\ RowsInTime' /\ RowsOrdered'
  BY <1>1 DEF RowsInv, RowsFit, RowsApart, RowsInTime, RowsOrdered
<1>3. RowsUnbroken'
  <2> SUFFICES ASSUME NEW r \in rows', NEW n \in r.no..(commits - 1)
               PROVE  \E s \in rows' : s.no = n
    BY DEF RowsUnbroken
  <2>1. PICK s \in rows : s.no = n
    BY <1>1 DEF RowsInv, RowsUnbroken
  <2>2. r \in rows /\ r.no \in Nat /\ r.at \in Nat /\ s.at \in Nat /\ day \in Nat
    BY <1>1 DEF JournalTypeOK, Rows
  <2>3. r.at <= s.at
    BY <2>1, <2>2 DEF RowsInv, RowsInTime
  <2>4. s \in rows'
    BY <2>1, <2>2, <2>3, JournalAssumption DEF FreshRows
  <2> QED  BY <2>1, <2>4
<1> QED  BY <1>2, <1>3 DEF RowsInv

-----------------------------------------------------------------------------
(* The steps.                                                              *)

LEMMA CommitType ==
  ASSUME JournalTypeOK, NEW seq \in Nat, NEW began \in Nat, Commit(seq, began)
  PROVE  /\ rows' \subseteq Rows /\ IsFiniteSet(rows') /\ commits' \in Nat
         /\ commits' = commits + 1
<1>1. commits \in Nat /\ day \in Nat /\ rows \subseteq Rows /\ IsFiniteSet(rows)
  BY JournalAssumption DEF JournalTypeOK
<1>2. [seq |-> seq, no |-> commits, began |-> began, at |-> day] \in Rows
  BY <1>1 DEF Rows
<1> QED  BY <1>1, <1>2, FS_AddElement DEF Commit

\* On the stores that count: the row's number is the length of the list.
LEMMA CountedAppendKeepsInv ==
  ASSUME JournalInv, backend # "postgres", Commit(Cardinality(rows), commits),
         touched' \in 0..LastDay, UNCHANGED <<backend, day, appender>>
  PROVE  JournalInv'
<1> DEFINE new == [seq |-> Cardinality(rows), no |-> commits, began |-> commits,
                   at |-> day]
<1>1. /\ rows \subseteq Rows /\ IsFiniteSet(rows) /\ Cardinality(rows) \in Nat
      /\ commits \in Nat /\ Cardinality(rows) <= commits
      /\ \A r \in rows : r.seq < Cardinality(rows) /\ r.no < commits
  BY FS_CardinalityType DEF JournalInv, JournalTypeOK, Counted, RowsInv, RowsFit
<1>2. rows' = rows \cup {new} /\ commits' = commits + 1
  BY DEF Commit
<1>3. JournalTypeOK'
  <2>1. rows' \subseteq Rows /\ IsFiniteSet(rows') /\ commits' \in Nat
    BY <1>1, CommitType DEF JournalInv
  <2> QED  BY <2>1 DEF JournalInv, JournalTypeOK, appender
<1>4. RowsInv'
  BY <1>1, CommitKeepsRows DEF JournalInv
<1>5. new \notin rows
  BY <1>1
<1>6. Cardinality(rows') = Cardinality(rows) + 1
  BY <1>1, <1>2, <1>5, FS_AddElement
<1>7. \A r \in rows : r.seq \in Nat
  BY <1>1 DEF Rows
<1>8. Counted'
  <2>1. ASSUME NEW r \in rows' PROVE r.seq < Cardinality(rows) + 1
    <3>1. CASE r = new
      BY <1>1, <3>1
    <3>2. CASE r \in rows
      BY <1>1, <1>7, <3>2
    <3> QED  BY <1>2, <3>1, <3>2
  <2>2. Cardinality(rows') <= commits'
    BY <1>1, <1>2, <1>6
  <2> QED  BY <1>6, <2>1, <2>2 DEF Counted, JournalInv, appender
<1>9. Appending'
  BY DEF JournalInv, Counted, Appending, appender
<1> QED  BY <1>3, <1>4, <1>8, <1>9 DEF JournalInv

LEMMA CommitRowKeepsInv ==
  ASSUME JournalInv, NEW a \in Appenders, CommitRow(a)
  PROVE  JournalInv'
<1> DEFINE new == [seq |-> number[a], no |-> commits, began |-> since[a], at |-> day]
<1>1. /\ phase[a] = "commit" /\ Commit(number[a], since[a])
      /\ \E to \in {"idle", "failed"} : phase' = [phase EXCEPT ![a] = to]
      /\ UNCHANGED <<backend, day, touched, number, tries, since>>
  BY DEF CommitRow, Moves
<1>2. /\ number[a] \in Nat /\ since[a] \in Nat /\ tries \in [Appenders -> 0..MaxRetries]
      /\ number \in [Appenders -> Nat] /\ since \in [Appenders -> Nat]
      /\ phase \in [Appenders -> {"idle", "insert", "commit", "failed"}]
      /\ commits \in Nat /\ number[a] <= commits /\ since[a] + tries[a] <= commits
      /\ \A r \in rows : r.no < since[a] => r.seq < number[a]
  BY <1>1 DEF JournalInv, JournalTypeOK, Appending
<1>3. since[a] <= commits
  <2>1. tries[a] \in Nat
    BY <1>2, JournalAssumption
  <2> QED  BY <1>2, <2>1
<1>4. rows' = rows \cup {new} /\ commits' = commits + 1
  BY <1>1 DEF Commit
<1>5. JournalTypeOK'
  <2>1. rows' \subseteq Rows /\ IsFiniteSet(rows') /\ commits' \in Nat
    BY <1>1, <1>2, CommitType DEF JournalInv
  <2> QED  BY <1>1, <2>1 DEF JournalInv, JournalTypeOK
<1>6. RowsInv'
  BY <1>1, <1>2, <1>3, CommitKeepsRows DEF JournalInv
<1>7. Counted'
  BY <1>1 DEF JournalInv, Counted
<1>8. Appending'
  <2> SUFFICES ASSUME NEW b \in Appenders
               PROVE  /\ phase'[b] # "idle" => since[b] + tries[b] <= commits + 1
                      /\ phase'[b] \in {"insert", "commit"} => tries[b] < MaxRetries
                      /\ phase'[b] = "commit" =>
                           /\ number[b] <= commits + 1
                           /\ \A r \in rows' :
                                /\ r.no < since[b] => r.seq < number[b]
                                /\ r.seq >= number[b] => r.no >= since[b] + tries[b]
    BY <1>1, <1>4 DEF Appending
  <2>1. /\ since[b] \in Nat /\ tries[b] \in Nat /\ number[b] \in Nat
    BY <1>2, JournalAssumption
  <2>2. CASE b = a
    BY <1>1, <1>2, <1>3, <2>1, <2>2
  <2>3. CASE b # a
    <3>1. phase'[b] = phase[b]
      BY <1>1, <1>2, <2>3
    <3>2. /\ phase[b] # "idle" => since[b] + tries[b] <= commits
          /\ phase[b] \in {"insert", "commit"} => tries[b] < MaxRetries
          /\ phase[b] = "commit" =>
               /\ number[b] <= commits
               /\ \A r \in rows : /\ r.no < since[b] => r.seq < number[b]
                                  /\ r.seq >= number[b] => r.no >= since[b] + tries[b]
      BY DEF JournalInv, Appending
    <3>3. new.no = commits
      OBVIOUS
    <3>4. phase[b] = "commit" =>
            /\ new.no < since[b] => new.seq < number[b]
            /\ new.seq >= number[b] => new.no >= since[b] + tries[b]
      BY <1>2, <2>1, <3>2, <3>3
    <3> HIDE DEF new
    <3> QED  BY <1>2, <1>4, <2>1, <3>1, <3>2, <3>4
  <2> QED  BY <2>2, <2>3
<1> QED  BY <1>5, <1>6, <1>7, <1>8 DEF JournalInv

\* The rest of an append writes no rows.
LEMMA AppendKeepsInv ==
  ASSUME JournalInv, NEW a \in Appenders,
         BeginAppend(a) \/ ComputeSeq(a) \/ SeqConflict(a) \/ AppendFailed(a)
  PROVE  JournalInv'
<1>1. /\ UNCHANGED <<backend, rows, commits, day, touched>> /\ backend = "postgres"
  BY DEF BeginAppend, ComputeSeq, SeqConflict, AppendFailed, JournalInv, Counted
<1>2. RowsInv' /\ Counted'
  BY <1>1 DEF JournalInv, RowsInv, RowsFit, RowsApart, RowsInTime, RowsUnbroken,
              RowsOrdered, Counted
<1>3. /\ phase \in [Appenders -> {"idle", "insert", "commit", "failed"}]
      /\ number \in [Appenders -> Nat] /\ since \in [Appenders -> Nat]
      /\ tries \in [Appenders -> 0..MaxRetries] /\ commits \in Nat
      /\ MaxRetries \in Nat /\ MaxRetries > 0
  BY JournalAssumption DEF JournalInv, JournalTypeOK
<1>4. CASE BeginAppend(a)
  <2>1. /\ phase' = [phase EXCEPT ![a] = "insert"] /\ tries' = [tries EXCEPT ![a] = 0]
        /\ since' = [since EXCEPT ![a] = commits] /\ number' = number
    BY <1>4 DEF BeginAppend, Moves
  <2>2. JournalTypeOK'
    BY <1>1, <1>3, <2>1 DEF JournalInv, JournalTypeOK
  <2>3. Appending'
    BY <1>1, <1>3, <2>1 DEF JournalInv, Appending
  <2> QED  BY <1>2, <2>2, <2>3 DEF JournalInv
<1>5. CASE ComputeSeq(a)
  <2>1. /\ phase[a] = "insert" /\ phase' = [phase EXCEPT ![a] = "commit"]
        /\ number' = [number EXCEPT ![a] = NextSeq] /\ UNCHANGED <<tries, since>>
    BY <1>5 DEF ComputeSeq, Moves
  <2>2. NextSeq \in Nat /\ NextSeq <= commits /\ \A r \in rows : r.seq < NextSeq
    BY NextSeqIsNext DEF JournalInv, RowsInv
  <2>3. JournalTypeOK'
    BY <1>1, <1>3, <2>1, <2>2 DEF JournalInv, JournalTypeOK
  <2>4. \A r \in rows : r.seq \in Nat
    BY DEF JournalInv, JournalTypeOK, Rows
  <2>5. \A r \in rows : r.seq < NextSeq /\ ~(r.seq >= NextSeq)
    BY <2>2, <2>4
  <2>6. Appending'
    BY <1>1, <1>3, <2>1, <2>2, <2>5 DEF JournalInv, Appending
  <2> QED  BY <1>2, <2>3, <2>6 DEF JournalInv
<1>6. CASE SeqConflict(a)
  <2>1. PICK to \in {"insert", "failed"} :
          /\ phase[a] = "commit" /\ phase' = [phase EXCEPT ![a] = to]
          /\ to = "insert" => tries'[a] < MaxRetries
          /\ tries' = [tries EXCEPT ![a] = tries[a] + 1] /\ number[a] \in Taken
          /\ UNCHANGED <<number, since>>
    BY <1>6 DEF SeqConflict, Moves
  <2>2. tries'[a] = tries[a] + 1 /\ tries[a] < MaxRetries
    BY <1>3, <2>1 DEF JournalInv, Appending
  <2>3. JournalTypeOK'
    <3>1. tries[a] + 1 \in 0..MaxRetries
      BY <1>3, <2>2
    <3> QED  BY <1>1, <1>3, <2>1, <3>1 DEF JournalInv, JournalTypeOK
  <2>4. since[a] + tries[a] + 1 <= commits
    <3>1. PICK r \in rows : r.seq = number[a]
      BY <2>1 DEF Taken
    <3>2. r.no \in Nat /\ r.no < commits /\ r.seq \in Nat
      BY DEF JournalInv, JournalTypeOK, Rows, RowsInv, RowsFit
    <3>3. r.no >= since[a] + tries[a]
      BY <1>3, <2>1, <3>1, <3>2 DEF JournalInv, Appending
    <3>4. since[a] \in Nat /\ tries[a] \in Nat
      BY <1>3
    <3> QED  BY <1>3, <3>2, <3>3, <3>4
  <2>5. Appending'
    <3> SUFFICES ASSUME NEW b \in Appenders
                 PROVE  /\ phase'[b] # "idle" => since[b] + tries'[b] <= commits
                        /\ phase'[b] \in {"insert", "commit"} => tries'[b] < MaxRetries
                        /\ phase'[b] = "commit" =>
                             /\ number[b] <= commits
                             /\ \A r \in rows :
                                  /\ r.no < since[b] => r.seq < number[b]
                                  /\ r.seq >= number[b] => r.no >= since[b] + tries'[b]
      BY <1>1, <2>1 DEF Appending
    <3>1. CASE b = a
      <4>1. phase'[a] = to
        BY <1>3, <2>1
      <4>2. since[a] \in Nat /\ tries[a] \in Nat
        BY <1>3
      <4> QED  BY <1>3, <2>1, <2>2, <2>4, <3>1, <4>1, <4>2
    <3>2. CASE b # a
      BY <1>3, <2>1, <3>2 DEF JournalInv, Appending
    <3> QED  BY <3>1, <3>2
  <2> QED  BY <1>2, <2>3, <2>5 DEF JournalInv
<1>7. CASE AppendFailed(a)
  <2>1. phase' = [phase EXCEPT ![a] = "idle"] /\ UNCHANGED <<number, tries, since>>
    BY <1>7 DEF AppendFailed, Moves
  <2>2. JournalTypeOK'
    BY <1>1, <1>3, <2>1 DEF JournalInv, JournalTypeOK
  <2>3. Appending'
    BY <1>1, <1>3, <2>1 DEF JournalInv, Appending
  <2> QED  BY <1>2, <2>2, <2>3 DEF JournalInv
<1> QED  BY <1>4, <1>5, <1>6, <1>7

LEMMA TimeKeepsInv ==
  ASSUME JournalInv, Tick \/ PurgeExpired \/ ListExpires
  PROVE  JournalInv'
<1>1. CASE Tick
  <2>1. day' = day + 1 /\ day \in Nat /\ day' \in 0..LastDay
        /\ UNCHANGED <<backend, rows, commits, touched, appender>>
    BY <1>1, JournalAssumption DEF Tick, JournalInv, JournalTypeOK
  <2>2. JournalTypeOK'
    BY <2>1 DEF JournalInv, JournalTypeOK, appender
  <2>3. \A r \in rows : r.at \in Nat
    BY DEF JournalInv, JournalTypeOK, Rows
  <2>4. RowsFit'
    BY <2>1, <2>3 DEF JournalInv, RowsInv, RowsFit
  <2>5. RowsApart' /\ RowsInTime' /\ RowsUnbroken' /\ RowsOrdered'
    BY <2>1 DEF JournalInv, RowsInv, RowsApart, RowsInTime, RowsUnbroken, RowsOrdered
  <2>6. Counted' /\ Appending'
    BY <2>1 DEF JournalInv, Counted, Appending, appender
  <2> QED  BY <2>2, <2>4, <2>5, <2>6 DEF JournalInv, RowsInv
<1>2. CASE PurgeExpired
  <2>1. /\ backend = "postgres" /\ rows' = FreshRows /\ rows' \subseteq rows
        /\ UNCHANGED <<backend, commits, day, touched, appender>>
    BY <1>2 DEF PurgeExpired, FreshRows
  <2>2. JournalTypeOK'
    <3>1. IsFiniteSet(rows')
      BY <2>1, FS_Subset DEF JournalInv, JournalTypeOK
    <3> QED  BY <2>1, <3>1 DEF JournalInv, JournalTypeOK, appender
  <2>3. RowsInv'
    BY <2>1, PurgeKeepsRows DEF JournalInv
  <2>4. Counted' /\ Appending'
    BY <2>1 DEF JournalInv, Counted, Appending, appender
  <2> QED  BY <2>2, <2>3, <2>4 DEF JournalInv
<1>3. CASE ListExpires
  <2>1. /\ backend = "redis" /\ rows' = {}
        /\ UNCHANGED <<backend, commits, day, touched, appender>>
    BY <1>3 DEF ListExpires
  <2>2. JournalTypeOK'
    BY <2>1, FS_EmptySet DEF JournalInv, JournalTypeOK, appender
  <2>3. RowsInv'
    BY <2>1 DEF RowsInv, RowsFit, RowsApart, RowsInTime, RowsUnbroken, RowsOrdered
  <2>4. Counted'
    BY <2>1, FS_EmptySet DEF JournalInv, JournalTypeOK, Counted, appender
  <2>5. Appending'
    BY <2>1 DEF JournalInv, Counted, Appending, appender
  <2> QED  BY <2>2, <2>3, <2>4, <2>5 DEF JournalInv
<1> QED  BY <1>1, <1>2, <1>3

LEMMA StepKeepsJournalInv ==
  ASSUME JournalInv, [JournalNext]_journalVars
  PROVE  JournalInv'
<1>1. ASSUME NEW a \in Appenders, AppendInMemory(a) \/ AppendByScript(a)
      PROVE  JournalInv'
  BY <1>1, CountedAppendKeepsInv
     DEF AppendInMemory, AppendByScript, JournalInv, JournalTypeOK
<1>2. ASSUME NEW a \in Appenders, CommitRow(a) PROVE JournalInv'
  BY <1>2, CommitRowKeepsInv
<1>3. ASSUME NEW a \in Appenders,
             BeginAppend(a) \/ ComputeSeq(a) \/ SeqConflict(a) \/ AppendFailed(a)
      PROVE  JournalInv'
  BY <1>3, AppendKeepsInv
<1>4. CASE Tick \/ PurgeExpired \/ ListExpires
  BY <1>4, TimeKeepsInv
<1>5. CASE UNCHANGED journalVars
  BY <1>5 DEF journalVars, appender, JournalInv, JournalTypeOK, RowsInv, RowsFit, RowsApart,
         RowsInTime, RowsUnbroken, RowsOrdered, Counted, Appending
<1> QED  BY <1>1, <1>2, <1>3, <1>4, <1>5 DEF JournalNext

\* Rows, numbers and running appends fit together in every reachable state
\* (appendRow, LUA_APPEND_SEQ_STAMPED, purgeFlowCheckpoints).
THEOREM JournalInvariant == JournalSpec => []JournalInv
<1>1. JournalInit => JournalInv
  BY JournalInitInv
<1>2. JournalInv /\ [JournalNext]_journalVars => JournalInv'
  BY StepKeepsJournalInv
<1> QED  BY <1>1, <1>2, PTL DEF JournalSpec

\* What a resumed run reads is the end of what was committed, in the order of the
\* appends, whatever expires or is purged meanwhile (appendRow, purgeFlowCheckpoints,
\* LUA_APPEND_SEQ_STAMPED).
THEOREM RowsStayARecentPast == JournalSpec => []RowsAreARecentPast
<1>1. JournalInv => RowsAreARecentPast
  BY DEF JournalInv, RowsInv, RowsOrdered, RowsUnbroken, RowsAreARecentPast
<1> QED  BY <1>1, JournalInvariant, PTL

\* However many appends race, one gives up only when as many others went through as
\* it has retries (DEFAULT_MAX_SEQ_CONFLICT_RETRIES).
THEOREM RetriesAreSpentOnRacers == JournalSpec => []RetriesMeetRacers
<1>1. ASSUME JournalInv, NEW a \in Appenders, phase[a] # "idle"
      PROVE  commits - since[a] >= tries[a]
  <2>1. since[a] \in Nat /\ tries[a] \in Nat /\ commits \in Nat
    BY <1>1, JournalAssumption DEF JournalInv, JournalTypeOK
  <2>2. since[a] + tries[a] <= commits
    BY <1>1 DEF JournalInv, Appending
  <2> QED  BY <2>1, <2>2
<1>2. JournalInv => RetriesMeetRacers
  BY <1>1 DEF RetriesMeetRacers
<1> QED  BY <1>2, JournalInvariant, PTL
=============================================================================
