----------------------------- MODULE AuditChain -----------------------------
(***************************************************************************)
(* The hash-chained audit log of one job (core/store.py, append_audit and  *)
(* verify_audit).  A hash stands for everything it was computed from: the  *)
(* previous hash, the number and the entry, so that two hashes are equal   *)
(* only if the chains up to them are.                                      *)
(***************************************************************************)
EXTENDS Naturals, Sequences

CONSTANTS
  Writers,  \* threads and processes that append
  Entries   \* what they have to say

VARIABLES
  log,    \* audit_log, by seq
  head,   \* audit_head, the sealed length and hash (0 and no hash: no row)
  lock,   \* the writers inside a transaction that took the write lock
  tail,   \* the number and the previous hash each of them is to use
  report, \* where the reader is in verify_audit
  seen    \* the rows it has read

chainVars == <<log, head, lock, tail, report, seen>>

NoHash == <<>>
Hash(row) == <<row.prev, row.seq, row.entry>>
HashAt(rows, i) == IF i = 0 THEN NoHash ELSE Hash(rows[i])

ChainInit ==
  /\ log = <<>> /\ head = [length |-> 0, hash |-> NoHash]
  /\ lock = {} /\ tail = [w \in Writers |-> [seq |-> 0, prev |-> NoHash]]
  /\ report = "idle" /\ seen = <<>>

\* Mutation of BeginAppend: a deferred transaction reads before it locks.
BeginDeferred(w) ==
  /\ w \notin lock /\ lock' = lock \cup {w}
  /\ tail' = [tail EXCEPT ![w] = [seq |-> Len(log), prev |-> HashAt(log, Len(log))]]
  /\ UNCHANGED <<log, head, report, seen>>

\* BEGIN IMMEDIATE, then the last row is read.
BeginAppend(w) ==
  /\ lock = {} /\ lock' = {w}
  /\ tail' = [tail EXCEPT ![w] = [seq |-> Len(log), prev |-> HashAt(log, Len(log))]]
  /\ UNCHANGED <<log, head, report, seen>>

Row(w, e) == [seq |-> tail[w].seq, prev |-> tail[w].prev, entry |-> e]

\* Mutation of Seal: the length is the number of the last row.
SealLastNumber(row) == [length |-> row.seq, hash |-> Hash(row)]

Seal(row) == [length |-> row.seq + 1, hash |-> Hash(row)]

\* The row and the seal are one transaction.
CommitAppend(w, e) ==
  /\ w \in lock /\ lock' = lock \ {w}
  /\ log' = Append(log, Row(w, e)) /\ head' = Seal(Row(w, e))
  /\ UNCHANGED <<tail, report, seen>>

\* The writer dies or raises inside the transaction.
Rollback(w) ==
  /\ w \in lock /\ lock' = lock \ {w}
  /\ UNCHANGED <<log, head, tail, report, seen>>

\* verify_audit, of rows read in one transaction and a head read in another.
Verdict(rows, sealed) ==
  /\ \A i \in 1..Len(rows) : rows[i].seq = i - 1 /\ rows[i].prev = HashAt(rows, i - 1)
  /\ sealed.length = Len(rows) /\ sealed.hash = HashAt(rows, Len(rows))

VerifyRows ==
  /\ report # "rows" /\ report' = "rows" /\ seen' = log
  /\ UNCHANGED <<log, head, lock, tail>>

VerifyHead ==
  /\ report = "rows" /\ report' = "idle" /\ seen' = <<>>
  /\ UNCHANGED <<log, head, lock, tail>>

ChainNext ==
  \/ \E w \in Writers :
       BeginAppend(w) \/ Rollback(w) \/ \E e \in Entries : CommitAppend(w, e)
  \/ VerifyRows \/ VerifyHead

ChainSpec == ChainInit /\ [][ChainNext]_chainVars

-----------------------------------------------------------------------------
\* Whoever appends, the chain agrees with its seal, and a writer about to append
\* has read the tail as it is: no number is ever taken twice.
ChainVerifies ==
  /\ Verdict(log, head)
  /\ \A w \in lock : tail[w] = [seq |-> Len(log), prev |-> HashAt(log, Len(log))]

\* The rows and the seal are read apart, so an untouched chain may raise the alarm of
\* a tampered one; but only if an entry was appended between the two reads.
Alarm == VerifyHead /\ ~Verdict(seen, head)
AlarmNeedsAppend == [][Alarm => Len(seen) < Len(log)]_chainVars
=============================================================================
