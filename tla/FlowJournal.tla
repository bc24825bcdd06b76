---------------------------- MODULE FlowJournal ----------------------------
(***************************************************************************)
(* The rows of one operation in the flow journal (flow/journal.ts) and its *)
(* three stores: the map of one process, a Redis list with a script that   *)
(* numbers and appends at once (flow/redis-journal.ts), and a Postgres     *)
(* table whose insert computes the next number from a snapshot and is      *)
(* repeated when another one took it (flow/postgres-journal.ts).  Redis    *)
(* forgets a list that nobody has appended to for a while; Postgres purges *)
(* by age, row by row (server/stores.ts).                                  *)
(*                                                                         *)
(* Appenders are runs of the same operation; two overlap when a lease is   *)
(* outlasted.  What a row says is FlowRun's and BridgeJobs' concern; here  *)
(* it is its number, its time, and the order in which rows were committed. *)
(***************************************************************************)
EXTENDS Naturals, FiniteSets

CONSTANTS
  Appenders,   \* runs that append
  MaxRetries,  \* DEFAULT_MAX_SEQ_CONFLICT_RETRIES
  Retention,   \* the journal's time to live
  LastDay,     \* bound on the clock
  MaxCommits   \* bound on rows

ASSUME JournalAssumption ==
  /\ MaxRetries \in Nat \ {0} /\ Retention \in Nat /\ LastDay \in Nat
  /\ MaxCommits \in Nat

VARIABLES
  backend,  \* "memory", "redis" or "postgres"
  rows,     \* the rows that are there
  commits,  \* rows that were ever committed
  day,      \* the clock
  touched,  \* Redis: when the list's expiry was set
  phase,    \* appender: "idle", "insert", "commit", "failed"
  number,   \* appender: the seq its insert has computed
  tries,    \* appender: inserts that found their number taken
  since     \* appender: commits when its append began

appender == <<phase, number, tries, since>>
journalVars == <<backend, rows, commits, day, touched, appender>>

\* A row, with the number of rows committed before it and before its append began.
Rows == [seq : Nat, no : Nat, began : Nat, at : Nat]

JournalTypeOK ==
  /\ backend \in {"memory", "redis", "postgres"}
  /\ rows \subseteq Rows /\ IsFiniteSet(rows)
  /\ commits \in Nat /\ day \in 0..LastDay /\ touched \in 0..LastDay
  /\ phase \in [Appenders -> {"idle", "insert", "commit", "failed"}]
  /\ number \in [Appenders -> Nat]
  /\ tries \in [Appenders -> 0..MaxRetries]
  /\ since \in [Appenders -> Nat]

JournalInit ==
  /\ backend \in {"memory", "redis", "postgres"}
  /\ rows = {} /\ commits = 0 /\ day = 0 /\ touched = 0
  /\ phase = [a \in Appenders |-> "idle"]
  /\ number = [a \in Appenders |-> 0]
  /\ tries = [a \in Appenders |-> 0]
  /\ since = [a \in Appenders |-> 0]

Taken == {r.seq : r \in rows}

\* Variant for mutation: the number of rows, as the list has it.
NextSeqByCount == Cardinality(rows)

\* coalesce(max(seq) + 1, 0).
NextSeq == IF rows = {} THEN 0
           ELSE 1 + (CHOOSE n \in Taken : \A k \in Taken : k <= n)

Commit(seq, began) ==
  /\ rows' = rows \cup
       {[seq |-> seq, no |-> commits, began |-> began, at |-> day]}
  /\ commits' = commits + 1

Moves(a, to) == phase' = [phase EXCEPT ![a] = to]

-----------------------------------------------------------------------------
\* rows.push: the row's number is the length of the list.
AppendInMemory(a) ==
  /\ backend = "memory" /\ phase[a] = "idle" /\ commits < MaxCommits
  /\ Commit(Cardinality(rows), commits)
  /\ UNCHANGED <<backend, day, touched, appender>>

\* LLEN and RPUSH and EXPIRE in one script.
AppendByScript(a) ==
  /\ backend = "redis" /\ phase[a] = "idle" /\ commits < MaxCommits
  /\ Commit(Cardinality(rows), commits)
  /\ touched' = day
  /\ UNCHANGED <<backend, day, appender>>

BeginAppend(a) ==
  /\ backend = "postgres" /\ phase[a] = "idle" /\ commits < MaxCommits
  /\ Moves(a, "insert")
  /\ tries' = [tries EXCEPT ![a] = 0]
  /\ since' = [since EXCEPT ![a] = commits]
  /\ UNCHANGED <<backend, rows, commits, day, touched, number>>

\* The select of the insert sees the rows committed so far.
ComputeSeq(a) ==
  /\ phase[a] = "insert"
  /\ number' = [number EXCEPT ![a] = NextSeq]
  /\ Moves(a, "commit")
  /\ UNCHANGED <<backend, rows, commits, day, touched, tries, since>>

\* The primary key is free: the row is there.  The connection may break before
\* the answer, so that the run takes the append for failed.
CommitRow(a) ==
  /\ phase[a] = "commit" /\ number[a] \notin Taken
  /\ Commit(number[a], since[a])
  /\ \/ Moves(a, "idle")
     \/ Moves(a, "failed")
  /\ UNCHANGED <<backend, day, touched, number, tries, since>>

\* Variant for mutation: the retries are never exhausted.
RetryForever(a) ==
  /\ phase[a] = "commit" /\ number[a] \in Taken
  /\ tries' = [tries EXCEPT ![a] = @ + 1]
  /\ Moves(a, "insert")
  /\ UNCHANGED <<backend, rows, commits, day, touched, number, since>>

\* Unique violation: again, or the retries are exhausted.
SeqConflict(a) ==
  /\ phase[a] = "commit" /\ number[a] \in Taken
  /\ tries' = [tries EXCEPT ![a] = @ + 1]
  /\ Moves(a, IF tries'[a] < MaxRetries THEN "insert" ELSE "failed")
  /\ UNCHANGED <<backend, rows, commits, day, touched, number, since>>

\* JournalError: the run logs it and goes on to its next row.
AppendFailed(a) ==
  /\ phase[a] = "failed"
  /\ Moves(a, "idle")
  /\ UNCHANGED <<backend, rows, commits, day, touched, number, tries, since>>

-----------------------------------------------------------------------------
\* A day passes; an append does not take that long.
Tick ==
  /\ day < LastDay /\ \A a \in Appenders : phase[a] \in {"idle", "failed"}
  /\ day' = day + 1
  /\ UNCHANGED <<backend, rows, commits, touched, appender>>

\* Variant for mutation: the purge keeps the oldest row of an operation.
PurgeKeepsFirst ==
  /\ backend = "postgres"
  /\ rows' = {r \in rows : r.at + Retention >= day \/ r.seq = 0}
  /\ UNCHANGED <<backend, commits, day, touched, appender>>

\* purgeFlowCheckpoints deletes the rows with `at < now() - retention'.
FreshRows == {r \in rows : r.at + Retention >= day}

\* The purge runs every hour, also while appends do.
PurgeExpired ==
  /\ backend = "postgres"
  /\ rows' = FreshRows
  /\ UNCHANGED <<backend, commits, day, touched, appender>>

\* EXPIRE takes the whole list.
ListExpires ==
  /\ backend = "redis" /\ touched + Retention < day
  /\ rows' = {}
  /\ UNCHANGED <<backend, commits, day, touched, appender>>

JournalNext ==
  \/ \E a \in Appenders :
       \/ AppendInMemory(a) \/ AppendByScript(a)
       \/ BeginAppend(a) \/ ComputeSeq(a) \/ CommitRow(a)
       \/ SeqConflict(a) \/ AppendFailed(a)
  \/ Tick \/ PurgeExpired \/ ListExpires

JournalSpec == JournalInit /\ [][JournalNext]_journalVars

-----------------------------------------------------------------------------
(* Properties.                                                             *)

\* What a resumed run reads is the end of what was committed, in the order of the
\* appends (those that overlap may change places): the purge may hide the past of
\* an operation but never a row behind one that is still there, such as the
\* boundary row behind the `started' row of a submit (appendRow,
\* purgeFlowCheckpoints, LUA_APPEND_SEQ_STAMPED).
RowsAreARecentPast ==
  /\ \A r, s \in rows : r.no < s.began => r.seq < s.seq
  /\ \A r \in rows : \A n \in r.no..(commits - 1) : \E s \in rows : s.no = n

\* An append gives up only after that many others went through: rows that were
\* purged do not make numbers collide (DEFAULT_MAX_SEQ_CONFLICT_RETRIES).
RetriesMeetRacers ==
  \A a \in Appenders :
    phase[a] = "insert" \/ (phase[a] = "failed" /\ tries[a] = MaxRetries)
      => commits - since[a] >= tries[a]
=============================================================================
