------------------------ MODULE ExecutionEvidenceProofs ------------------------
(***************************************************************************)
(* Receipts for any number of executions, timeouts and retention bound,    *)
(* with a store that may raise and workers that may die: the race between  *)
(* the executor, the reconciler and pruning is decided in one lock hold.   *)
(***************************************************************************)
EXTENDS ExecutionEvidence, FiniteSetTheorems, SequenceTheorems, WellFoundedInduction,
        TLAPS

Status == {"STARTED", "UNKNOWN"} \cup ObservedStatus

Execution ==
  [pc: {"claimed", "entered", "running", "observed", "done", "lost"},
   started: Nat, timeout: Nat, outcome: ObservedStatus \cup {"NONE"},
   result: {"NONE", "output", "failure", "integrity_failure", "refused"}]

Terminal(table) == {r \in table : r.status # "STARTED"}

Types == TypeOK /\ IsFiniteSet(receipts)

\* One receipt per execution, and no two inserted at the same place.
Keyed ==
  /\ \A r, q \in receipts : r.receipt_id = q.receipt_id => r = q
  /\ \A r, q \in receipts : r.inserted = q.inserted => r = q
  /\ \A r \in receipts : r.inserted < insertions

\* The start map agrees with the receipts.
StartsAgree ==
  \A m \in monotonic_starts, r \in receipts :
    m.receipt_id = r.receipt_id => m.at = r.started_at

\* A stored receipt says what its execution's trail says.
Recorded ==
  \A r \in receipts :
    trail[r.receipt_id] =
      IF r.status = "STARTED" THEN <<"STARTED">> ELSE <<"STARTED", r.status>>

Unobserved == {<<"STARTED">>, <<"STARTED", "UNKNOWN">>}

\* Where the executor is, what its receipt went through, and what it tells its caller.
Own(x) ==
  LET e == execution[x]
  IN  /\ e.pc \in {"claimed", "entered"} =>
           trail[x] = <<>> /\ e.outcome = "NONE" /\ e.result = "NONE"
      /\ e.pc = "running" => trail[x] \in Unobserved /\ e.outcome = "NONE" /\ e.result = "NONE"
      /\ e.pc = "observed" =>
           trail[x] \in Unobserved /\ e.outcome \in ObservedStatus /\ e.result = "NONE"
      /\ e.pc = "lost" => trail[x] \in Unobserved /\ e.result = "NONE"
      /\ e.pc = "done" =>
           \/ e.result = "refused" /\ trail[x] = <<>>
           \/ e.result = "output" /\ e.outcome = "SUCCEEDED"
                /\ trail[x] = <<"STARTED", "SUCCEEDED">>
           \/ e.result = "integrity_failure" /\ e.outcome = "SUCCEEDED"
                /\ trail[x] \in Unobserved
           \/ e.result = "failure" /\ e.outcome = "FAILED"
                /\ trail[x] \in Unobserved \cup {<<"STARTED", "FAILED">>}

\* What the reconciler has read of a receipt is still all there is to know of it, or the
\* receipt has been resolved meanwhile.
Seen(r) ==
  /\ trail[r.receipt_id] # <<>>
  /\ \A q \in Open(receipts) : q.receipt_id = r.receipt_id => q = r

\* The verdict on the receipt that is about to be reconciled.
Judged(r) ==
  \/ reconciler.reason = "EXECUTION_TIMEOUT" /\ Overdue(r)
  \/ \A q \in Open(receipts) : q.receipt_id # r.receipt_id

Verdicts ==
  /\ reconciler.pc # "resolving" => reconciler.current = {}
  /\ \A r \in reconciler.pending : Seen(r)
  /\ \A r \in reconciler.current : Seen(r) /\ Judged(r)
  /\ \A q, r \in reconciler.current : q = r

\* Of the receipts a pass listed, those that are open and overdue are still before it, or the
\* store raised for them.
Pass ==
  /\ reconciler.pc \in {"idle", "clocked"} => reconciler.listed = {}
  /\ \A r \in reconciler.listed : Seen(r)
  /\ \A r \in reconciler.listed \cap Open(receipts) :
       Overdue(r) =>
         r \in reconciler.pending \cup reconciler.current \/ r.receipt_id \in reconciler.raised

Scan == Verdicts /\ Pass

Store == Keyed /\ StartsAgree /\ Recorded /\ StoreIsBounded /\ NoInventedTimeout

IInv == Types /\ Store /\ Scan /\ \A x \in Executions : Own(x)

--------------------------------------------------------------------------------
(* Operators.                                                                *)

\* A set of naturals has a least element.
LEMMA Least ==
  ASSUME NEW S, S \subseteq Nat, S # {}
  PROVE  \E m \in S : \A k \in S : m <= k
<1> DEFINE R == {ss \in Nat \X Nat : ss[1] < ss[2]}
<1>1. IsWellFoundedOn(R, Nat)
  BY NatLessThanWellFounded DEF OpToRel
<1>2. PICK m \in S : \A y \in S : ~(<<y, m>> \in R)
  BY <1>1, WFMin
<1>3. ASSUME NEW k \in S PROVE m <= k
  <2>1. m \in Nat /\ k \in Nat
    OBVIOUS
  <2>2. <<k, m>> \in Nat \X Nat /\ <<k, m>>[1] = k /\ <<k, m>>[2] = m
    BY <2>1
  <2>3. k < m => <<k, m>> \in R
    BY <2>2
  <2>4. <<k, m>> \notin R
    BY <1>2
  <2> QED BY <2>1, <2>3, <2>4
<1> QED BY <1>3

\* The order of _prune_terminal_locked has an oldest receipt, than which every other is newer.
LEMMA Oldest ==
  ASSUME NEW T, T \subseteq Receipt, T # {},
         \A r, q \in T : r.inserted = q.inserted => r = q
  PROVE  \E r \in T : {q \in T : Newer(q, r)} = T \ {r}
<1>1. \A t \in T : t.started_at \in Nat /\ t.inserted \in Nat
  BY DEF Receipt
<1> DEFINE starts == {t.started_at : t \in T}
<1>2. PICK m \in starts : \A k \in starts : m <= k
  <2>1. starts \subseteq Nat /\ starts # {}
    BY <1>1
  <2> HIDE DEF starts
  <2> QED BY <2>1, Least
<1> DEFINE first == {t \in T : t.started_at = m}
           places == {t.inserted : t \in first}
<1>3. PICK n \in places : \A k \in places : n <= k
  <2>1. places \subseteq Nat /\ places # {}
    BY <1>1, <1>2
  <2> HIDE DEF places
  <2> QED BY <2>1, Least
<1>4. PICK r \in first : r.inserted = n
  BY <1>3
<1>5. ASSUME NEW q \in T, q # r PROVE Newer(q, r)
  <2>1. /\ q.started_at \in Nat /\ q.inserted \in Nat /\ r.started_at \in Nat
        /\ r.inserted \in Nat /\ r.started_at = m /\ q.inserted # r.inserted
    BY <1>1, <1>4, <1>5
  <2>2. m <= q.started_at
    BY <1>2
  <2>3. q.started_at = m => r.inserted <= q.inserted
    BY <1>3, <1>4
  <2> QED BY <2>1, <2>2, <2>3 DEF Newer
<1>6. ~Newer(r, r)
  BY <1>1, <1>4 DEF Newer
<1> QED BY <1>4, <1>5, <1>6

\* Pruning after one more terminal receipt brings the store back within the bound, and
\* never touches an open receipt.
LEMMA RetainedIsBounded ==
  ASSUME NEW table, table \subseteq Receipt, IsFiniteSet(table),
         \A r, q \in table : r.inserted = q.inserted => r = q,
         Cardinality(Terminal(table)) <= MaxTerminalReceipts + 1
  PROVE  /\ Retained(table) \subseteq table
         /\ Open(Retained(table)) = Open(table)
         /\ Cardinality(Terminal(Retained(table))) <= MaxTerminalReceipts
<1> DEFINE D == Terminal(table)
           K == Terminal(Retained(table))
<1>1. Retained(table) \subseteq table /\ Open(Retained(table)) = Open(table)
  BY DEF Retained, Open
<1>2. D \subseteq Receipt /\ D \subseteq table
  BY DEF Terminal
<1>3. IsFiniteSet(D) /\ Cardinality(D) \in Nat
  BY <1>2, FS_Subset, FS_CardinalityType
<1>4. K \subseteq D
  BY <1>1 DEF Terminal
<1>5. K = {r \in D : Cardinality({q \in D : Newer(q, r)}) < MaxTerminalReceipts}
  BY DEF Terminal, Retained
<1>6. MaxTerminalReceipts \in Nat
  BY EvidenceAssumption
<1>7. IsFiniteSet(K) /\ Cardinality(K) \in Nat /\ Cardinality(K) <= Cardinality(D)
  BY <1>3, <1>4, FS_Subset, FS_CardinalityType
<1>8. CASE Cardinality(D) <= MaxTerminalReceipts
  BY <1>1, <1>3, <1>6, <1>7, <1>8
<1>9. CASE Cardinality(D) = MaxTerminalReceipts + 1
  <2>1. D # {}
    BY <1>6, <1>9, FS_EmptySet
  <2>2. \A r, q \in D : r.inserted = q.inserted => r = q
    BY <1>2
  <2> HIDE DEF D
  <2>3. PICK r \in D : {q \in D : Newer(q, r)} = D \ {r}
    BY <1>2, <2>1, <2>2, Oldest
  <2>4. IsFiniteSet(D \ {r}) /\ Cardinality(D \ {r}) = MaxTerminalReceipts
    <3>1. IsFiniteSet(D \ {r}) /\ Cardinality(D \ {r}) = Cardinality(D) - 1
      BY <1>3, <2>3, FS_RemoveElement
    <3>2. Cardinality(D) = MaxTerminalReceipts + 1
      BY <1>9
    <3> QED BY <1>6, <3>1, <3>2
  <2>5. r \notin K
    BY <1>5, <1>6, <2>3, <2>4
  <2>6. K \subseteq D \ {r}
    BY <1>4, <2>5
  <2>7. Cardinality(K) <= Cardinality(D \ {r})
    BY <2>4, <2>6, FS_Subset
  <2> QED BY <1>1, <2>4, <2>7
<1> QED BY <1>3, <1>6, <1>8, <1>9

\* One more element makes a set larger by at most one.
LEMMA OneMore ==
  ASSUME NEW D, IsFiniteSet(D), NEW t
  PROVE  /\ Cardinality(D \cup {t}) \in Nat
         /\ Cardinality(D \cup {t}) <= Cardinality(D) + 1
<1>1. Cardinality(D) \in Nat
  BY FS_CardinalityType
<1>2. IsFiniteSet(D \cup {t})
  BY FS_AddElement
<1>3. Cardinality(D \cup {t}) \in Nat
  BY <1>2, FS_CardinalityType
<1>4. CASE t \in D
  <2>1. D \cup {t} = D
    BY <1>4
  <2>2. Cardinality(D \cup {t}) = Cardinality(D)
    BY <2>1
  <2> QED BY <1>1, <1>3, <2>2
<1>5. CASE t \notin D
  <2>1. Cardinality(D \cup {t}) = Cardinality(D) + 1
    BY <1>5, FS_AddElement
  <2> QED BY <1>1, <1>3, <2>1
<1> QED BY <1>4, <1>5

\* A second entry.
LEMMA SecondEntry ==
  ASSUME NEW S, NEW e \in S, NEW f \in S
  PROVE  Append(<<e>>, f) = <<e, f>>
<1> DEFINE s == <<e>>
           t == Append(s, f)
           u == <<e, f>>
<1>1. s \in Seq(S) /\ Len(s) = 1 /\ s[1] = e
  OBVIOUS
<1>2. u \in Seq(S) /\ Len(u) = 2 /\ u[1] = e /\ u[2] = f
  OBVIOUS
<1> HIDE DEF s
<1>3. /\ t \in Seq(S) /\ Len(t) = Len(s) + 1
      /\ \A i \in 1 .. Len(s) : t[i] = s[i]
      /\ t[Len(s) + 1] = f
  BY <1>1, AppendProperties
<1> HIDE DEF t, u
<1>4. Len(t) = 2 /\ t[1] = e /\ t[2] = f
  BY <1>1, <1>3
<1>5. t = u
  BY <1>2, <1>3, <1>4
<1> QED BY <1>5 DEF t, u, s

\* The trails in question.
LEMMA Trails ==
  /\ Append(<<>>, "STARTED") = <<"STARTED">>
  /\ \A status \in Status : Append(<<"STARTED">>, status) = <<"STARTED", status>>
  /\ <<"STARTED">> # <<>>
  /\ \A status : <<"STARTED", status>> # <<>> /\ <<"STARTED", status>> # <<"STARTED">>
  /\ \A s, t : <<"STARTED", s>> = <<"STARTED", t>> => s = t
<1>1. Append(<<>>, "STARTED") = <<"STARTED">>
  OBVIOUS
<1>2. \A status \in Status : Append(<<"STARTED">>, status) = <<"STARTED", status>>
  BY SecondEntry DEF Status
<1>3. Len(<<>>) = 0 /\ Len(<<"STARTED">>) = 1 /\ \A status : Len(<<"STARTED", status>>) = 2
  OBVIOUS
<1>4. \A s : <<"STARTED", s>>[2] = s
  OBVIOUS
<1>5. \A s, t : <<"STARTED", s>> = <<"STARTED", t>> => s = t
  BY <1>4, Zenon
<1> QED BY <1>1, <1>2, <1>3, <1>5

\* They are trails of statuses.
LEMMA TrailType ==
  /\ <<>> \in Seq(Status)
  /\ <<"STARTED">> \in Seq(Status)
  /\ \A status \in Status : <<"STARTED", status>> \in Seq(Status)
<1>1. "STARTED" \in Status
  BY DEF Status
<1> HIDE DEF Status
<1>2. <<>> \in Seq(Status)
  OBVIOUS
<1>3. <<"STARTED">> \in Seq(Status)
  BY <1>1
<1>4. \A status \in Status : <<"STARTED", status>> \in Seq(Status)
  BY <1>1
<1> QED BY <1>2, <1>3, <1>4

--------------------------------------------------------------------------------
(* Steps of the store.                                                       *)

\* An execution that a step leaves alone keeps what is its own.
LEMMA OwnFrame ==
  ASSUME NEW x \in Executions, Own(x), execution'[x] = execution[x], trail'[x] = trail[x]
  PROVE  Own(x)'
BY DEF Own

\* The scan keeps its verdicts when receipts are only resolved.
LEMMA ScanFrame ==
  ASSUME Scan, Types, UNCHANGED reconciler,
         Open(receipts') \subseteq Open(receipts),
         \A x \in Executions : trail[x] # <<>> => trail'[x] # <<>>
  PROVE  Scan'
<1> DEFINE all == reconciler.listed \cup reconciler.pending \cup reconciler.current
<1>1. \A r \in all : r.receipt_id \in Executions
  BY DEF Types, TypeOK, Receipt
<1>2. \A r \in all : Seen(r) => Seen(r)'
  BY <1>1 DEF Seen, Open
<1>3. \A r \in reconciler.current : Judged(r) => Judged(r)'
  BY DEF Judged, Overdue, Open
<1>4. Verdicts'
  BY <1>2, <1>3 DEF Scan, Verdicts
<1>5. Pass'
  <2>1. Open(receipts)' \subseteq Open(receipts)
    BY DEF Open
  <2> QED BY <1>2, <2>1 DEF Scan, Pass, Overdue
<1> QED BY <1>4, <1>5 DEF Scan

\* record_started preserves the store and the scan: a fresh execution is none of the
\* receipts the reconciler has read.
LEMMA StartedStep ==
  ASSUME IInv, NEW x \in Executions, StoreStarted(x), trail[x] = <<>>, UNCHANGED <<now, reconciler>>,
         execution' \in [Executions -> Execution]
  PROVE  /\ Types' /\ Store' /\ Scan'
         /\ trail' = [trail EXCEPT ![x] = <<"STARTED">>]
<1> DEFINE new == [receipt_id |-> x, status |-> "STARTED", started_at |-> execution[x].started,
                   declared_timeout |-> execution[x].timeout, inserted |-> insertions,
                   reason |-> "NONE", reconciled_at |-> 0]
           start == [receipt_id |-> x, at |-> execution[x].started]
<1>1. /\ x \notin grant_index
      /\ receipts' = receipts \cup {new}
      /\ grant_index' = grant_index \cup {x}
      /\ monotonic_starts' = monotonic_starts \cup {start}
      /\ insertions' = insertions + 1
      /\ UNCHANGED reconciled_count
  BY DEF StoreStarted
<1>2. trail' = [trail EXCEPT ![x] = <<"STARTED">>]
  BY Trails DEF StoreStarted
<1>3. /\ TypeOK /\ IsFiniteSet(receipts) /\ Keyed /\ StartsAgree /\ Recorded
      /\ StoreIsBounded /\ NoInventedTimeout /\ Scan
  BY DEF IInv, Types, Store
<1>4. /\ execution[x].started \in Nat /\ execution[x].timeout \in Nat /\ insertions \in Nat
      /\ trail \in [Executions -> Seq(Status)]
      /\ receipts \subseteq Receipt /\ monotonic_starts \subseteq MonotonicStart
  BY <1>3 DEF TypeOK, Status
<1>5. new \in Receipt /\ start \in MonotonicStart
  BY <1>4 DEF Receipt, MonotonicStart
<1>6. /\ new.receipt_id = x /\ new.status = "STARTED" /\ new.inserted = insertions
      /\ new.started_at = start.at /\ start.receipt_id = x
  OBVIOUS
<1> HIDE DEF new, start
<1>7. trail' \in [Executions -> Seq(Status)]
  BY <1>2, <1>4, TrailType
<1>8. Types'
  <2>1. IsFiniteSet(receipts')
    BY <1>1, <1>3, FS_AddElement
  <2>2. /\ receipts' \subseteq Receipt /\ monotonic_starts' \subseteq MonotonicStart
        /\ insertions' \in Nat /\ grant_index' \subseteq Executions
    BY <1>1, <1>3, <1>4, <1>5 DEF TypeOK
  <2> QED BY <1>1, <1>3, <1>7, <2>1, <2>2 DEF Types, TypeOK, Status, Execution
<1>9. \A r \in receipts : r.receipt_id # x
  BY <1>1, <1>3 DEF StoreIsBounded
<1>10. Keyed'
  <2>1. \A r \in receipts : r.inserted < insertions /\ r.inserted \in Nat
    BY <1>3, <1>4 DEF Keyed, Receipt
  <2> QED BY <1>1, <1>3, <1>4, <1>6, <1>9, <2>1 DEF Keyed
<1>11. StartsAgree'
  <2>1. ASSUME NEW m \in monotonic_starts PROVE m.receipt_id # x
    <3>1. m.receipt_id \in {r.receipt_id : r \in Open(receipts)}
      BY <1>3 DEF StoreIsBounded
    <3> QED BY <1>9, <3>1 DEF Open
  <2> QED BY <1>1, <1>3, <1>6, <1>9, <2>1 DEF StartsAgree
<1>12. Recorded'
  <2>1. \A r \in receipts : trail'[r.receipt_id] = trail[r.receipt_id]
    BY <1>2, <1>4, <1>9 DEF Receipt
  <2>2. trail'[x] = <<"STARTED">>
    BY <1>2, <1>4
  <2> QED BY <1>1, <1>3, <1>6, <2>1, <2>2 DEF Recorded
<1>13. StoreIsBounded'
  <2>1. {r \in receipts' : r.status # "STARTED"} = {r \in receipts : r.status # "STARTED"}
    BY <1>1, <1>6
  <2>2. grant_index' = {r.receipt_id : r \in receipts'}
    BY <1>1, <1>3, <1>6 DEF StoreIsBounded
  <2>3. {m.receipt_id : m \in monotonic_starts'} = {m.receipt_id : m \in monotonic_starts} \cup {x}
    BY <1>1, <1>6
  <2>4. Open(receipts') = Open(receipts) \cup {new}
    BY <1>1, <1>6 DEF Open
  <2>5. {r.receipt_id : r \in Open(receipts')} = {r.receipt_id : r \in Open(receipts)} \cup {x}
    BY <1>6, <2>4
  <2>6. ASSUME NEW y \in Executions, trail'[y] = <<"STARTED">>
        PROVE  \E r \in Open(receipts') : r.receipt_id = y
    <3>1. CASE y = x
      BY <1>6, <2>4, <3>1
    <3>2. CASE y # x
      <4>1. trail[y] = <<"STARTED">>
        BY <1>2, <1>4, <2>6, <3>2
      <4> QED BY <1>3, <2>4, <4>1 DEF StoreIsBounded
    <3> QED BY <3>1, <3>2
  <2> QED BY <1>3, <2>1, <2>2, <2>3, <2>5, <2>6 DEF StoreIsBounded, Open
<1>14. NoInventedTimeout'
  BY <1>1, <1>3, <1>6 DEF NoInventedTimeout
<1>15. Scan'
  <2> DEFINE all == reconciler.listed \cup reconciler.pending \cup reconciler.current
  <2>1. \A r \in all : r.receipt_id \in Executions /\ Seen(r)
    BY <1>3 DEF TypeOK, Receipt, Scan, Verdicts, Pass
  <2>2. \A r \in all : r.receipt_id # x
    BY <2>1 DEF Seen
  <2>3. \A r \in all : Seen(r)'
    BY <1>1, <1>2, <1>4, <1>6, <2>1, <2>2 DEF Seen, Open
  <2>4. \A r \in reconciler.current : Judged(r)'
    BY <1>1, <1>3, <1>6, <2>2 DEF Scan, Verdicts, Judged, Overdue, Open
  <2>5. Verdicts'
    BY <1>3, <2>3, <2>4 DEF Scan, Verdicts
  <2>6. Pass'
    <3>1. \A r \in reconciler.listed : r \in Open(receipts)' => r \in Open(receipts)
      BY <1>1, <1>6, <2>2 DEF Open
    <3> QED BY <1>3, <2>3, <3>1 DEF Scan, Pass, Overdue
  <2> QED BY <2>5, <2>6 DEF Scan
<1> QED BY <1>2, <1>8, <1>10, <1>11, <1>12, <1>13, <1>14, <1>15 DEF Store

\* record_terminal and record_reconciled preserve the store and the scan: one open receipt
\* becomes terminal, and what pruning evicts leaves every index.
LEMMA TerminalStep ==
  ASSUME IInv, NEW r \in Open(receipts), NEW terminal \in Receipt,
         terminal.receipt_id = r.receipt_id,
         terminal.started_at = r.started_at,
         terminal.inserted = r.inserted,
         terminal.status # "STARTED",
         terminal.status = "UNKNOWN" =>
           /\ terminal.reason = "EXECUTION_TIMEOUT"
           /\ terminal.reconciled_at >= terminal.started_at + terminal.declared_timeout + Grace,
         StoreTerminal(r, terminal)
  PROVE  /\ receipts' \subseteq Receipt /\ IsFiniteSet(receipts')
         /\ grant_index' \subseteq Executions
         /\ monotonic_starts' \subseteq MonotonicStart
         /\ UNCHANGED insertions
         /\ Store'
         /\ Open(receipts') \subseteq Open(receipts) \ {r}
         /\ trail[r.receipt_id] = <<"STARTED">>
         /\ trail' = [trail EXCEPT ![r.receipt_id] = <<"STARTED", terminal.status>>]
         /\ trail' \in [Executions -> Seq(Status)]
<1> DEFINE table == (receipts \ {r}) \cup {terminal}
           retained == Retained(table)
           ids == {q.receipt_id : q \in retained}
<1>1. /\ receipts' = retained
      /\ grant_index' = grant_index \cap ids
      /\ monotonic_starts' = {m \in monotonic_starts : m.receipt_id \in ids \ {r.receipt_id}}
      /\ UNCHANGED insertions
  BY DEF StoreTerminal
<1>2. trail' = [trail EXCEPT ![r.receipt_id] = Append(trail[r.receipt_id], terminal.status)]
  BY DEF StoreTerminal
<1>3. /\ TypeOK /\ IsFiniteSet(receipts) /\ Keyed /\ StartsAgree /\ Recorded
      /\ StoreIsBounded /\ NoInventedTimeout
  BY DEF IInv, Types, Store
<1>4. /\ r \in receipts /\ r.status = "STARTED" /\ r \in Receipt /\ r.receipt_id \in Executions
      /\ receipts \subseteq Receipt /\ trail \in [Executions -> Seq(Status)]
      /\ insertions \in Nat
  BY <1>3 DEF Open, TypeOK, Receipt, Status
<1>5. terminal.status \in Status
  BY DEF Receipt, Status
<1>6. /\ trail[r.receipt_id] = <<"STARTED">>
      /\ trail' = [trail EXCEPT ![r.receipt_id] = <<"STARTED", terminal.status>>]
  BY <1>2, <1>3, <1>4, <1>5, Trails DEF Recorded
<1>7. trail' \in [Executions -> Seq(Status)]
  BY <1>4, <1>5, <1>6, TrailType
<1>8. terminal \notin receipts
  BY <1>3, <1>4 DEF Keyed
<1>9. table \subseteq Receipt /\ IsFiniteSet(table)
  <2>1. IsFiniteSet(receipts \ {r})
    BY <1>3, FS_RemoveElement
  <2> QED BY <1>4, <2>1, FS_AddElement
<1>10. /\ \A p, q \in table : p.inserted = q.inserted => p = q
       /\ \A p, q \in table : p.receipt_id = q.receipt_id => p = q
       /\ \A p \in table : p.inserted < insertions
  BY <1>3, <1>4 DEF Keyed
<1>11. Cardinality(Terminal(table)) <= MaxTerminalReceipts + 1
  <2>1. Terminal(table) = Terminal(receipts) \cup {terminal}
    BY <1>4 DEF Terminal
  <2>2. IsFiniteSet(Terminal(receipts))
    BY <1>3, FS_Subset DEF Terminal
  <2>3. Cardinality(Terminal(receipts)) \in Nat
    BY <2>2, FS_CardinalityType
  <2>4. Cardinality(Terminal(receipts)) <= MaxTerminalReceipts
    BY <1>3 DEF StoreIsBounded, Terminal
  <2>5. /\ Cardinality(Terminal(receipts) \cup {terminal}) \in Nat
        /\ Cardinality(Terminal(receipts) \cup {terminal}) <= Cardinality(Terminal(receipts)) + 1
    BY <2>2, OneMore
  <2> QED BY <2>1, <2>3, <2>4, <2>5, EvidenceAssumption
<1> HIDE DEF table
<1>12. /\ retained \subseteq table
       /\ Open(retained) = Open(table)
       /\ Cardinality(Terminal(retained)) <= MaxTerminalReceipts
  BY <1>9, <1>10, <1>11, RetainedIsBounded
<1> HIDE DEF retained
<1>13. Open(receipts') = Open(receipts) \ {r}
  BY <1>1, <1>4, <1>12 DEF Open, table
<1>14. receipts' \subseteq Receipt /\ IsFiniteSet(receipts')
  BY <1>1, <1>9, <1>12, FS_Subset
<1>15. grant_index' \subseteq Executions /\ monotonic_starts' \subseteq MonotonicStart
  BY <1>1, <1>3 DEF TypeOK
<1>16. Keyed'
  BY <1>1, <1>10, <1>12 DEF Keyed
<1>17. \A q \in receipts' : q = terminal \/ (q \in receipts /\ q.receipt_id # r.receipt_id)
  BY <1>1, <1>3, <1>4, <1>12 DEF table, Keyed
<1>18. StartsAgree'
  BY <1>1, <1>3, <1>17 DEF StartsAgree
<1>19. Recorded'
  BY <1>3, <1>4, <1>6, <1>17 DEF Recorded, Receipt
<1>20. NoInventedTimeout'
  BY <1>3, <1>17 DEF NoInventedTimeout
<1>21. StoreIsBounded'
  <2>1. Cardinality({q \in receipts' : q.status # "STARTED"}) <= MaxTerminalReceipts
    BY <1>1, <1>12 DEF Terminal
  <2>2. grant_index' = {q.receipt_id : q \in receipts'}
    <3>1. grant_index = {q.receipt_id : q \in receipts}
      BY <1>3 DEF StoreIsBounded
    <3>2. \A q \in receipts' : q.receipt_id \in grant_index
      BY <1>4, <1>17, <3>1
    <3> QED BY <1>1, <3>2
  <2>3. {m.receipt_id : m \in monotonic_starts'} = {q.receipt_id : q \in Open(receipts')}
    <3>1. {m.receipt_id : m \in monotonic_starts} = {q.receipt_id : q \in Open(receipts)}
      BY <1>3 DEF StoreIsBounded
    <3>2. ASSUME NEW m \in monotonic_starts'
          PROVE  m.receipt_id \in {q.receipt_id : q \in Open(receipts')}
      <4>1. m \in monotonic_starts /\ m.receipt_id # r.receipt_id
        BY <1>1
      <4>2. PICK q \in Open(receipts) : q.receipt_id = m.receipt_id
        BY <3>1, <4>1
      <4> QED BY <1>13, <4>1, <4>2
    <3>3. ASSUME NEW q \in Open(receipts')
          PROVE  q.receipt_id \in {m.receipt_id : m \in monotonic_starts'}
      <4>1. q \in Open(receipts) /\ q # r /\ q \in receipts'
        BY <1>13 DEF Open
      <4>2. q.receipt_id # r.receipt_id
        BY <1>3, <1>4, <4>1 DEF Open, Keyed
      <4>3. PICK m \in monotonic_starts : m.receipt_id = q.receipt_id
        BY <3>1, <4>1
      <4>4. q.receipt_id \in ids
        BY <1>1, <4>1
      <4> QED BY <1>1, <4>2, <4>3, <4>4
    <3> QED BY <3>2, <3>3
  <2>4. ASSUME NEW x \in Executions, trail'[x] = <<"STARTED">>
        PROVE  \E q \in Open(receipts') : q.receipt_id = x
    <3>1. x # r.receipt_id
      <4>1. trail'[r.receipt_id] = <<"STARTED", terminal.status>>
        BY <1>4, <1>6
      <4> QED BY <2>4, <4>1, Trails
    <3>2. trail[x] = <<"STARTED">>
      BY <1>4, <1>6, <2>4, <3>1
    <3>3. PICK q \in Open(receipts) : q.receipt_id = x
      BY <1>3, <3>2 DEF StoreIsBounded
    <3> QED BY <1>13, <3>1, <3>3
  <2> QED BY <2>1, <2>2, <2>3, <2>4 DEF StoreIsBounded, Open
<1> QED BY <1>1, <1>6, <1>7, <1>13, <1>14, <1>15, <1>16, <1>18, <1>19, <1>20, <1>21 DEF Store

--------------------------------------------------------------------------------
(* Steps of the executor.                                                    *)

\* A step that leaves the store and the reconciler alone leaves their invariants alone.
LEMMA StoreFrame ==
  ASSUME IInv, UNCHANGED <<storeVars, reconciler>>
  PROVE  Store' /\ Scan' /\ IsFiniteSet(receipts')
<1>1. UNCHANGED <<receipts, grant_index, monotonic_starts, insertions, trail, reconciler>>
  BY DEF storeVars
<1>2. Store /\ Scan /\ IsFiniteSet(receipts)
  BY DEF IInv, Types
<1>3. Store'
  BY <1>1, <1>2 DEF Store, Keyed, StartsAgree, Recorded, StoreIsBounded, NoInventedTimeout, Open
<1>4. Scan'
  BY <1>1, <1>2 DEF Scan, Verdicts, Pass, Seen, Judged, Overdue, Open
<1> QED BY <1>1, <1>2, <1>3, <1>4

\* A step of one execution that touches nothing but its local state.
LEMMA LocalStep ==
  ASSUME IInv, NEW x \in Executions, NEW e \in Execution,
         execution' = [execution EXCEPT ![x] = e], UNCHANGED <<now, storeVars, reconciler>>,
         Own(x)'
  PROVE  IInv'
<1>1. UNCHANGED <<receipts, grant_index, monotonic_starts, insertions, trail, reconciler, now,
                  reconciled_count>>
  BY DEF storeVars
<1>2. TypeOK /\ \A y \in Executions : Own(y)
  BY DEF IInv, Types
<1>3. execution \in [Executions -> Execution]
  BY <1>2 DEF TypeOK, Execution
<1>4. execution' \in [Executions -> Execution]
  BY <1>3
<1>5. TypeOK'
  BY <1>1, <1>2, <1>4 DEF TypeOK, Execution
<1>6. ASSUME NEW y \in Executions, y # x PROVE Own(y)'
  <2>1. execution'[y] = execution[y] /\ trail'[y] = trail[y]
    BY <1>1, <1>3, <1>6
  <2> QED BY <1>2, <2>1, OwnFrame
<1>7. Store' /\ Scan' /\ IsFiniteSet(receipts')
  BY <1>1, StoreFrame
<1> QED BY <1>5, <1>6, <1>7 DEF IInv, Types

\* Reading the clocks.
LEMMA EnterStep ==
  ASSUME IInv, NEW x \in Executions, Enter(x)
  PROVE  IInv'
<1> DEFINE e == [execution[x] EXCEPT !.pc = "entered", !.started = now]
<1>1. /\ TypeOK /\ Own(x) /\ execution[x] \in Execution
      /\ execution \in [Executions -> Execution] /\ now \in Nat
  BY DEF IInv, Types, TypeOK, Execution
<1>2. /\ execution[x].pc = "claimed"
      /\ execution' = [execution EXCEPT ![x] = e]
      /\ UNCHANGED <<now, storeVars, reconciler>>
  BY <1>1 DEF Enter
<1>3. /\ e \in Execution /\ e.pc = "entered" /\ e.outcome = execution[x].outcome
      /\ e.result = execution[x].result
  BY <1>1 DEF Execution
<1> HIDE DEF e
<1>4. execution'[x] = e /\ trail'[x] = trail[x]
  BY <1>1, <1>2 DEF storeVars
<1>5. Own(x)'
  BY <1>1, <1>2, <1>3, <1>4 DEF Own
<1> QED BY <1>2, <1>3, <1>5, LocalStep

\* What Become leaves behind.
LEMMA Becoming ==
  ASSUME execution \in [Executions -> Execution], NEW x \in Executions,
         NEW pc \in {"claimed", "entered", "running", "observed", "done", "lost"},
         NEW result \in {"NONE", "output", "failure", "integrity_failure", "refused"},
         Become(x, pc, result)
  PROVE  \E e \in Execution :
           /\ execution' = [execution EXCEPT ![x] = e]
           /\ execution'[x] = e
           /\ e.pc = pc /\ e.result = result /\ e.outcome = execution[x].outcome
<1> DEFINE e == [execution[x] EXCEPT !.pc = pc, !.result = result]
<1>1. execution[x] \in Execution
  OBVIOUS
<1>2. execution' = [execution EXCEPT ![x] = e]
  BY <1>1 DEF Become
<1>3. /\ e \in Execution /\ e.pc = pc /\ e.result = result /\ e.outcome = execution[x].outcome
  BY <1>1 DEF Execution
<1> HIDE DEF e
<1>4. execution'[x] = e
  BY <1>2
<1> QED BY <1>2, <1>3, <1>4

\* The start of an execution, recorded or refused.
LEMMA RecordStartedStep ==
  ASSUME IInv, NEW x \in Executions, RecordStarted(x)
  PROVE  IInv'
<1>1. /\ TypeOK /\ Own(x) /\ execution \in [Executions -> Execution]
      /\ execution[x].pc = "entered" /\ UNCHANGED <<now, reconciler>>
      /\ \A y \in Executions : Own(y)
      /\ trail \in [Executions -> Seq(Status)]
  BY DEF IInv, Types, TypeOK, Execution, RecordStarted, Status
<1>2. trail[x] = <<>> /\ execution[x].outcome = "NONE"
  BY <1>1 DEF Own
<1>3. CASE StoreStarted(x) /\ Become(x, "running", "NONE")
  <2>1. PICK e \in Execution :
          /\ execution' = [execution EXCEPT ![x] = e]
          /\ execution'[x] = e
          /\ e.pc = "running" /\ e.result = "NONE" /\ e.outcome = execution[x].outcome
    BY <1>1, <1>3, Becoming
  <2>2. execution' \in [Executions -> Execution]
    BY <1>1, <2>1
  <2>3. /\ Types' /\ Store' /\ Scan'
        /\ trail' = [trail EXCEPT ![x] = <<"STARTED">>]
    BY <1>1, <1>2, <1>3, <2>2, StartedStep DEF Execution
  <2>4. Own(x)'
    <3>1. trail'[x] = <<"STARTED">>
      BY <1>1, <2>3
    <3> QED BY <1>2, <2>1, <3>1 DEF Own, Unobserved
  <2>5. ASSUME NEW y \in Executions, y # x PROVE Own(y)'
    <3>1. execution'[y] = execution[y] /\ trail'[y] = trail[y]
      BY <1>1, <2>1, <2>3, <2>5
    <3> QED BY <1>1, <3>1, OwnFrame
  <2> QED BY <2>3, <2>4, <2>5 DEF IInv
<1>4. CASE Become(x, "done", "refused") /\ UNCHANGED storeVars
  <2>1. PICK e \in Execution :
          /\ execution' = [execution EXCEPT ![x] = e]
          /\ execution'[x] = e
          /\ e.pc = "done" /\ e.result = "refused" /\ e.outcome = execution[x].outcome
    BY <1>1, <1>4, Becoming
  <2>2. Own(x)'
    BY <1>2, <1>4, <2>1 DEF Own, storeVars
  <2> QED BY <1>1, <1>4, <2>1, <2>2, LocalStep
<1> QED BY <1>3, <1>4 DEF RecordStarted

\* What the sandbox was seen to do.
LEMMA ObserveStep ==
  ASSUME IInv, NEW x \in Executions, Observe(x)
  PROVE  IInv'
<1>1. PICK outcome \in ObservedStatus :
        execution' = [execution EXCEPT ![x].pc = "observed", ![x].outcome = outcome]
  BY DEF Observe
<1> DEFINE e == [execution[x] EXCEPT !.pc = "observed", !.outcome = outcome]
<1>2. /\ TypeOK /\ Own(x) /\ execution[x] \in Execution
      /\ execution \in [Executions -> Execution]
      /\ execution[x].pc = "running" /\ UNCHANGED <<now, storeVars, reconciler>>
  BY DEF IInv, Types, TypeOK, Execution, Observe
<1>3. execution' = [execution EXCEPT ![x] = e]
  BY <1>1, <1>2
<1>4. e \in Execution /\ e.pc = "observed" /\ e.outcome = outcome /\ e.result = execution[x].result
  BY <1>2 DEF Execution
<1> HIDE DEF e
<1>5. execution'[x] = e /\ trail'[x] = trail[x]
  BY <1>2, <1>3 DEF storeVars
<1>6. Own(x)'
  BY <1>2, <1>4, <1>5 DEF Own
<1> QED BY <1>2, <1>3, <1>4, <1>6, LocalStep

\* The outcome, recorded while the receipt is open, or told without evidence.
LEMMA RecordTerminalStep ==
  ASSUME IInv, NEW x \in Executions, RecordTerminal(x)
  PROVE  IInv'
<1> DEFINE outcome == execution[x].outcome
           succeeded == outcome = "SUCCEEDED"
<1>1. /\ TypeOK /\ Scan /\ Types /\ Own(x) /\ execution \in [Executions -> Execution]
      /\ execution[x].pc = "observed" /\ UNCHANGED <<now, reconciler>>
      /\ \A y \in Executions : Own(y)
      /\ trail \in [Executions -> Seq(Status)]
      /\ receipts \subseteq Receipt
  BY DEF IInv, Types, TypeOK, Execution, RecordTerminal, Status
<1>2. trail[x] \in Unobserved /\ outcome \in ObservedStatus
  BY <1>1 DEF Own
<1>3. CASE RecordObserved(x, outcome)
           /\ Become(x, "done", IF succeeded THEN "output" ELSE "failure")
  <2>1. PICK e \in Execution :
          /\ execution' = [execution EXCEPT ![x] = e]
          /\ execution'[x] = e
          /\ e.pc = "done" /\ e.result = (IF succeeded THEN "output" ELSE "failure")
          /\ e.outcome = outcome
    BY <1>1, <1>3, Becoming
  <2>2. PICK r \in Open(receipts) :
          /\ r.receipt_id = x
          /\ StoreTerminal(r, [r EXCEPT !.status = outcome])
          /\ UNCHANGED reconciled_count
    BY <1>3 DEF RecordObserved
  <2> DEFINE terminal == [r EXCEPT !.status = outcome]
  <2>3. r \in Receipt
    BY <1>1 DEF Open
  <2>4. /\ terminal \in Receipt /\ terminal.receipt_id = r.receipt_id
        /\ terminal.started_at = r.started_at /\ terminal.inserted = r.inserted
        /\ terminal.status = outcome
    BY <1>2, <2>3 DEF Receipt
  <2>5. StoreTerminal(r, terminal)
    BY <2>2
  <2> HIDE DEF terminal, outcome
  <2>6. terminal.status # "STARTED" /\ terminal.status # "UNKNOWN"
    BY <1>2, <2>4 DEF ObservedStatus
  <2>7. /\ receipts' \subseteq Receipt /\ IsFiniteSet(receipts')
        /\ grant_index' \subseteq Executions
        /\ monotonic_starts' \subseteq MonotonicStart
        /\ UNCHANGED insertions
        /\ Store'
        /\ Open(receipts') \subseteq Open(receipts) \ {r}
        /\ trail[r.receipt_id] = <<"STARTED">>
        /\ trail' = [trail EXCEPT ![r.receipt_id] = <<"STARTED", terminal.status>>]
        /\ trail' \in [Executions -> Seq(Status)]
    BY <2>4, <2>5, <2>6, TerminalStep
  <2>8. trail'[x] = <<"STARTED", outcome>>
    BY <1>1, <2>2, <2>4, <2>7
  <2>9. execution' \in [Executions -> Execution]
    BY <1>1, <2>1
  <2>10. Types'
    BY <1>1, <2>2, <2>7, <2>9 DEF Types, TypeOK, Execution, Status
  <2>11. Scan'
    <3>1. \A y \in Executions : trail[y] # <<>> => trail'[y] # <<>>
      BY <1>1, <2>2, <2>7, <2>8, Trails
    <3> QED BY <1>1, <2>7, <3>1, ScanFrame
  <2>12. Own(x)'
    <3>1. CASE outcome = "SUCCEEDED"
      BY <2>1, <2>8, <3>1 DEF Own
    <3>2. CASE outcome = "FAILED"
      BY <2>1, <2>8, <3>2 DEF Own
    <3> QED BY <1>2, <3>1, <3>2 DEF ObservedStatus
  <2>13. ASSUME NEW y \in Executions, y # x PROVE Own(y)'
    <3>1. execution'[y] = execution[y] /\ trail'[y] = trail[y]
      BY <1>1, <2>1, <2>2, <2>7, <2>13
    <3> QED BY <1>1, <3>1, OwnFrame
  <2> QED BY <2>7, <2>10, <2>11, <2>12, <2>13 DEF IInv
<1>4. CASE Become(x, "done", IF succeeded THEN "integrity_failure" ELSE "failure")
           /\ UNCHANGED storeVars
  <2>1. PICK e \in Execution :
          /\ execution' = [execution EXCEPT ![x] = e]
          /\ execution'[x] = e
          /\ e.pc = "done" /\ e.result = (IF succeeded THEN "integrity_failure" ELSE "failure")
          /\ e.outcome = outcome
    BY <1>1, <1>4, Becoming
  <2>2. trail'[x] \in Unobserved
    BY <1>2, <1>4 DEF storeVars
  <2> HIDE DEF outcome
  <2>3. Own(x)'
    <3>1. CASE outcome = "SUCCEEDED"
      BY <2>1, <2>2, <3>1 DEF Own
    <3>2. CASE outcome = "FAILED"
      BY <2>1, <2>2, <3>2 DEF Own
    <3> QED BY <1>2, <3>1, <3>2 DEF ObservedStatus
  <2> QED BY <1>1, <1>4, <2>1, <2>3, LocalStep
<1> QED BY <1>3, <1>4 DEF RecordTerminal

\* A worker that dies leaves its receipt to the reconciler.
LEMMA LoseWorkerStep ==
  ASSUME IInv, NEW x \in Executions, LoseWorker(x)
  PROVE  IInv'
<1>1. /\ Own(x) /\ execution \in [Executions -> Execution]
      /\ execution[x].pc \in {"running", "observed"} /\ UNCHANGED <<now, storeVars, reconciler>>
      /\ Become(x, "lost", "NONE")
  BY DEF IInv, Types, TypeOK, Execution, LoseWorker
<1>2. PICK e \in Execution :
        /\ execution' = [execution EXCEPT ![x] = e]
        /\ execution'[x] = e
        /\ e.pc = "lost" /\ e.result = "NONE" /\ e.outcome = execution[x].outcome
  BY <1>1, Becoming
<1>3. trail'[x] \in Unobserved
  BY <1>1 DEF Own, storeVars
<1>4. Own(x)'
  BY <1>2, <1>3 DEF Own
<1> QED BY <1>1, <1>2, <1>4, LocalStep

--------------------------------------------------------------------------------
(* Steps of the reconciler.                                                  *)

Scanner ==
  [pc: {"idle", "clocked", "scanning", "resolving"}, at: Nat, listed: SUBSET Receipt,
   pending: SUBSET Receipt, current: SUBSET Receipt,
   reason: {"NONE", "EXECUTION_TIMEOUT", "EVIDENCE_UNAVAILABLE"}, raised: SUBSET Executions]

\* A step of the reconciler that does not write to the store.
LEMMA ScanStep ==
  ASSUME IInv, NEW s \in Scanner, reconciler' = s, UNCHANGED <<now, storeVars, execution>>, Scan'
  PROVE  IInv'
<1>1. UNCHANGED <<receipts, grant_index, monotonic_starts, insertions, trail, now,
                  reconciled_count, execution>>
  BY DEF storeVars
<1>2. TypeOK /\ Store /\ IsFiniteSet(receipts) /\ \A x \in Executions : Own(x)
  BY DEF IInv, Types
<1>3. Types'
  BY <1>1, <1>2 DEF Types, TypeOK, Scanner
<1>4. Store'
  BY <1>1, <1>2 DEF Store, Keyed, StartsAgree, Recorded, StoreIsBounded, NoInventedTimeout, Open
<1>5. \A x \in Executions : Own(x)'
  BY <1>1, <1>2, OwnFrame
<1> QED BY <1>3, <1>4, <1>5 DEF IInv

\* What was seen of a receipt stays seen while the store stays.
LEMMA SeenFrame ==
  ASSUME UNCHANGED storeVars, NEW r, Seen(r)
  PROVE  Seen(r)'
BY DEF Seen, Open, storeVars

\* The clock of a scan is read before its snapshot, when no verdict is pending.
LEMMA ReadClockStep == ASSUME IInv, ReadClock PROVE IInv'
<1> DEFINE s == [reconciler EXCEPT !.pc = "clocked", !.at = now]
<1>1. /\ reconciler \in Scanner /\ Scan /\ now \in Nat /\ reconciler.pc = "idle"
      /\ reconciler' = s /\ UNCHANGED <<now, storeVars, execution>>
  BY DEF IInv, Types, TypeOK, Scanner, ReadClock
<1>2. /\ s \in Scanner /\ s.current = reconciler.current /\ s.pending = reconciler.pending
      /\ s.listed = reconciler.listed
  BY <1>1 DEF Scanner
<1> HIDE DEF s
<1>3. /\ reconciler.current = {} /\ reconciler.listed = {}
      /\ \A r \in reconciler.pending : Seen(r)
  BY <1>1 DEF Scan, Verdicts, Pass
<1>4. \A r \in reconciler.pending : Seen(r)'
  BY <1>1, <1>3, SeenFrame
<1>5. Scan'
  BY <1>1, <1>2, <1>3, <1>4 DEF Scan, Verdicts, Pass
<1> QED BY <1>1, <1>2, <1>5, ScanStep

\* The snapshot of the open receipts.
LEMMA SnapshotStep == ASSUME IInv, Snapshot PROVE IInv'
<1> DEFINE s == [reconciler EXCEPT !.pc = "scanning", !.listed = Open(receipts),
                                   !.pending = Open(receipts)]
<1>1. /\ reconciler \in Scanner /\ Scan /\ reconciler.pc = "clocked" /\ receipts \subseteq Receipt
      /\ reconciler' = s /\ UNCHANGED <<now, storeVars, execution>>
      /\ Keyed /\ Recorded
  BY DEF IInv, Types, TypeOK, Scanner, Snapshot, Store
<1>2. Open(receipts) \subseteq Receipt /\ Open(receipts) \subseteq receipts
  BY <1>1 DEF Open
<1>3. /\ s \in Scanner /\ s.current = reconciler.current /\ s.pending = Open(receipts)
      /\ s.listed = Open(receipts) /\ s.pc = "scanning"
  BY <1>1, <1>2 DEF Scanner
<1> HIDE DEF s
<1>4. reconciler.current = {}
  BY <1>1 DEF Scan, Verdicts
<1>5. ASSUME NEW r \in Open(receipts) PROVE Seen(r)
  <2>1. trail[r.receipt_id] # <<>>
    BY <1>1, Trails DEF Recorded, Open
  <2> QED BY <1>1, <1>2, <2>1 DEF Seen, Keyed
<1>6. \A r \in Open(receipts) : Seen(r)'
  BY <1>1, <1>5, SeenFrame
<1>7. Scan'
  BY <1>1, <1>3, <1>4, <1>6 DEF Scan, Verdicts, Pass
<1> QED BY <1>1, <1>3, <1>7, ScanStep

\* A receipt whose start is gone is no longer open, and one found overdue is overdue by its
\* own start: the start map and the open receipts change together.
LEMMA ExamineStep == ASSUME IInv, Examine PROVE IInv'
<1>1. /\ reconciler \in Scanner /\ Scan /\ reconciler.pc = "scanning"
      /\ UNCHANGED <<now, storeVars, execution>>
      /\ StartsAgree /\ StoreIsBounded
  BY DEF IInv, Types, TypeOK, Scanner, Examine, Store
<1>2. /\ reconciler.current = {}
      /\ \A r \in reconciler.pending \cup reconciler.listed : Seen(r)
  BY <1>1 DEF Scan, Verdicts, Pass
<1>3. PICK r \in reconciler.pending :
       LET starts == {m \in monotonic_starts : m.receipt_id = r.receipt_id}
           overdue == \E m \in starts : reconciler.at >= ReconciliationDeadline(r, m.at)
           rest == [reconciler EXCEPT !.pending = @ \ {r}]
       IN  reconciler' = IF starts = {}
                         THEN [rest EXCEPT !.pc = "resolving", !.current = {r},
                                           !.reason = "EVIDENCE_UNAVAILABLE"]
                         ELSE IF overdue
                         THEN [rest EXCEPT !.pc = "resolving", !.current = {r},
                                           !.reason = "EXECUTION_TIMEOUT"]
                         ELSE rest
  BY DEF Examine
<1> DEFINE starts == {m \in monotonic_starts : m.receipt_id = r.receipt_id}
           overdue == \E m \in starts : reconciler.at >= ReconciliationDeadline(r, m.at)
           rest == [reconciler EXCEPT !.pending = @ \ {r}]
           missing == [rest EXCEPT !.pc = "resolving", !.current = {r},
                                   !.reason = "EVIDENCE_UNAVAILABLE"]
           late == [rest EXCEPT !.pc = "resolving", !.current = {r},
                                !.reason = "EXECUTION_TIMEOUT"]
<1>4. r \in Receipt
  BY <1>1 DEF Scanner
<1>5. /\ rest \in Scanner /\ rest.pc = reconciler.pc
      /\ rest.pending = reconciler.pending \ {r} /\ rest.current = reconciler.current
      /\ rest.listed = reconciler.listed /\ rest.raised = reconciler.raised
      /\ rest.at = reconciler.at
  BY <1>1, <1>4 DEF Scanner
<1>6. /\ missing \in Scanner /\ missing.pc = "resolving" /\ missing.current = {r}
      /\ missing.pending = reconciler.pending \ {r} /\ missing.at = reconciler.at
      /\ missing.listed = reconciler.listed /\ missing.raised = reconciler.raised
  BY <1>1, <1>4 DEF Scanner
<1>7. /\ late \in Scanner /\ late.pc = "resolving" /\ late.current = {r}
      /\ late.pending = reconciler.pending \ {r} /\ late.at = reconciler.at
      /\ late.reason = "EXECUTION_TIMEOUT"
      /\ late.listed = reconciler.listed /\ late.raised = reconciler.raised
  BY <1>1, <1>4 DEF Scanner
<1>8. /\ starts = {} => reconciler' = missing
      /\ starts # {} /\ overdue => reconciler' = late
      /\ starts # {} /\ ~overdue => reconciler' = rest
  BY <1>3
<1> HIDE DEF rest, missing, late
<1>9. \A q \in reconciler.pending \cup reconciler.listed : Seen(q)'
  BY <1>1, <1>2, SeenFrame
<1>10. UNCHANGED receipts
  BY <1>1 DEF storeVars
<1>11. {m.receipt_id : m \in monotonic_starts} = {q.receipt_id : q \in Open(receipts)}
  BY <1>1 DEF StoreIsBounded
<1>12. CASE starts = {}
  <2>1. \A q \in Open(receipts) : q.receipt_id # r.receipt_id
    BY <1>11, <1>12
  <2>2. Judged(r)'
    BY <1>10, <2>1 DEF Judged, Open
  <2>3. Scan'
    <3>1. Verdicts'
      BY <1>6, <1>8, <1>9, <1>12, <2>2 DEF Verdicts
    <3>2. Pass'
      <4>1. reconciler' = missing
        BY <1>8, <1>12
      <4>2. reconciler.pending \cup reconciler.current = reconciler'.pending \cup reconciler'.current
        BY <1>2, <1>3, <1>6, <4>1
      <4> QED BY <1>1, <1>6, <1>9, <1>10, <4>1, <4>2 DEF Scan, Pass, Overdue, Open
    <3> QED BY <3>1, <3>2 DEF Scan
  <2> QED BY <1>1, <1>6, <1>8, <1>12, <2>3, ScanStep
<1>13. CASE starts # {} /\ overdue
  <2>1. PICK m \in starts : reconciler.at >= ReconciliationDeadline(r, m.at)
    BY <1>13
  <2>2. PICK q \in Open(receipts) : q.receipt_id = r.receipt_id
    BY <1>11, <2>1
  <2>3. q = r
    BY <1>2, <2>2 DEF Seen
  <2>4. m.at = r.started_at
    BY <1>1, <2>1, <2>2, <2>3 DEF StartsAgree, Open
  <2>5. reconciler.at >= r.started_at + r.declared_timeout + Grace
    BY <2>1, <2>4 DEF ReconciliationDeadline
  <2>6. Judged(r)'
    BY <1>7, <1>8, <1>13, <2>5 DEF Judged, Overdue
  <2>7. Scan'
    <3>1. Verdicts'
      BY <1>7, <1>8, <1>9, <1>13, <2>6 DEF Verdicts
    <3>2. Pass'
      <4>1. reconciler' = late
        BY <1>8, <1>13
      <4>2. reconciler.pending \cup reconciler.current = reconciler'.pending \cup reconciler'.current
        BY <1>2, <1>3, <1>7, <4>1
      <4> QED BY <1>1, <1>7, <1>9, <1>10, <4>1, <4>2 DEF Scan, Pass, Overdue, Open
    <3> QED BY <3>1, <3>2 DEF Scan
  <2> QED BY <1>1, <1>7, <1>8, <1>13, <2>7, ScanStep
<1>14. CASE starts # {} /\ ~overdue
  <2>1. Verdicts'
    BY <1>1, <1>2, <1>5, <1>8, <1>9, <1>14 DEF Verdicts
  <2>2. r \in Open(receipts) => ~Overdue(r)
    <3> SUFFICES ASSUME r \in Open(receipts), Overdue(r) PROVE FALSE
      OBVIOUS
    <3>1. PICK m \in starts : TRUE
      BY <1>14
    <3>2. m.at = r.started_at
      BY <1>1, <3>1 DEF StartsAgree, Open
    <3>3. reconciler.at >= ReconciliationDeadline(r, m.at)
      BY <3>2 DEF Overdue, ReconciliationDeadline
    <3> QED BY <1>14, <3>1, <3>3
  <2>3. Pass'
    BY <1>1, <1>5, <1>8, <1>9, <1>10, <1>14, <2>2 DEF Scan, Pass, Overdue, Open
  <2>4. Scan'
    BY <2>1, <2>3 DEF Scan
  <2> QED BY <1>1, <1>5, <1>8, <1>14, <2>4, ScanStep
<1> QED BY <1>12, <1>13, <1>14

\* The verdict is written only to a receipt that is still open, which is then the one that
\* was examined.
LEMMA ResolveStep == ASSUME IInv, Resolve PROVE IInv'
<1>1. /\ reconciler \in Scanner /\ Scan /\ TypeOK /\ receipts \subseteq Receipt
      /\ reconciler.pc = "resolving" /\ UNCHANGED <<now, execution>>
      /\ trail \in [Executions -> Seq(Status)]
      /\ \A x \in Executions : Own(x)
  BY DEF IInv, Types, TypeOK, Scanner, Resolve, Status
<1>2. PICK r \in reconciler.current :
        \/ RecordReconciled(r.receipt_id, reconciler.reason) /\ reconciler' = NextReceipt({})
        \/ /\ \A q \in Open(receipts) : q.receipt_id # r.receipt_id
           /\ reconciler' = NextReceipt({}) /\ UNCHANGED storeVars
        \/ reconciler' = NextReceipt({r.receipt_id}) /\ UNCHANGED storeVars
  BY DEF Resolve
<1> DEFINE s == reconciler'
<1>3. /\ s \in Scanner /\ s.current = {} /\ s.pending = reconciler.pending /\ s.pc = "scanning"
      /\ s.listed = reconciler.listed /\ s.at = reconciler.at
      /\ reconciler.raised \subseteq s.raised
  <2>1. r.receipt_id \in Executions
    BY <1>1 DEF Scanner, Receipt
  <2>2. ASSUME NEW F \in SUBSET Executions, reconciler' = NextReceipt(F)
        PROVE  /\ s \in Scanner /\ s.current = {} /\ s.pending = reconciler.pending
               /\ s.pc = "scanning" /\ s.listed = reconciler.listed /\ s.at = reconciler.at
               /\ s.raised = reconciler.raised \cup F
    BY <1>1, <2>2 DEF Scanner, NextReceipt
  <2> QED BY <1>2, <2>1, <2>2
<1>4. CASE UNCHANGED storeVars
  <2>1. \A q \in reconciler.pending \cup reconciler.listed : Seen(q)'
    BY <1>1, <1>4, SeenFrame DEF Scan, Verdicts, Pass
  <2>2. Verdicts'
    BY <1>3, <2>1 DEF Verdicts
  <2>3. r \in Open(receipts) => r.receipt_id \in s.raised
    <3>1. CASE \A q \in Open(receipts) : q.receipt_id # r.receipt_id
      BY <3>1
    <3>2. CASE reconciler' = NextReceipt({r.receipt_id})
      BY <1>1, <3>2 DEF NextReceipt, Scanner
    <3>3. CASE RecordReconciled(r.receipt_id, reconciler.reason)
      <4>1. reconciled_count' = reconciled_count + 1 /\ reconciled_count \in Nat
        BY <1>1, <3>3 DEF RecordReconciled, TypeOK
      <4> QED BY <1>4, <4>1 DEF storeVars
    <3> QED BY <1>2, <3>1, <3>2, <3>3
  <2>4. \A q \in reconciler.current : Seen(q)
    BY <1>1 DEF Scan, Verdicts
  <2>5. Pass'
    <3>1. UNCHANGED receipts
      BY <1>4 DEF storeVars
    <3>2. ASSUME NEW q \in reconciler.current, q \in Open(receipts) PROVE q = r
      BY <1>1, <1>2, <3>2 DEF Scan, Verdicts
    <3> QED BY <1>1, <1>3, <2>1, <2>3, <3>1, <3>2 DEF Scan, Pass, Overdue, Open
  <2>6. Scan'
    BY <2>2, <2>5 DEF Scan
  <2> QED BY <1>1, <1>3, <1>4, <2>6, ScanStep
<1>5. CASE RecordReconciled(r.receipt_id, reconciler.reason)
  <2>1. PICK q \in Open(receipts) :
          /\ q.receipt_id = r.receipt_id
          /\ StoreTerminal(q, [q EXCEPT !.status = "UNKNOWN", !.reason = reconciler.reason,
                                        !.reconciled_at = reconciler.at])
          /\ reconciled_count' = reconciled_count + 1
    BY <1>5 DEF RecordReconciled
  <2> DEFINE terminal == [q EXCEPT !.status = "UNKNOWN", !.reason = reconciler.reason,
                                   !.reconciled_at = reconciler.at]
  <2>2. q = r /\ reconciler.reason = "EXECUTION_TIMEOUT" /\ Overdue(r)
    BY <1>1, <1>2, <2>1 DEF Scan, Verdicts, Seen, Judged
  <2>3. q \in Receipt /\ reconciler.at \in Nat
    BY <1>1 DEF Open, Scanner
  <2>4. /\ terminal \in Receipt /\ terminal.receipt_id = q.receipt_id
        /\ terminal.started_at = q.started_at /\ terminal.inserted = q.inserted
        /\ terminal.declared_timeout = q.declared_timeout
        /\ terminal.status = "UNKNOWN" /\ terminal.reason = "EXECUTION_TIMEOUT"
        /\ terminal.reconciled_at = reconciler.at
    BY <2>2, <2>3 DEF Receipt
  <2>5. StoreTerminal(q, terminal)
    BY <2>1
  <2> HIDE DEF terminal
  <2>6. terminal.reconciled_at >= terminal.started_at + terminal.declared_timeout + Grace
    BY <2>2, <2>4 DEF Overdue
  <2>7. /\ receipts' \subseteq Receipt /\ IsFiniteSet(receipts')
        /\ grant_index' \subseteq Executions
        /\ monotonic_starts' \subseteq MonotonicStart
        /\ UNCHANGED insertions
        /\ Store'
        /\ Open(receipts') \subseteq Open(receipts) \ {q}
        /\ trail[q.receipt_id] = <<"STARTED">>
        /\ trail' = [trail EXCEPT ![q.receipt_id] = <<"STARTED", terminal.status>>]
        /\ trail' \in [Executions -> Seq(Status)]
    BY <2>4, <2>5, <2>6, TerminalStep
  <2>8. q.receipt_id \in Executions
    BY <2>3 DEF Receipt
  <2>9. /\ trail'[q.receipt_id] = <<"STARTED", "UNKNOWN">>
        /\ \A y \in Executions : y # q.receipt_id => trail'[y] = trail[y]
    BY <1>1, <2>4, <2>7, <2>8
  <2>10. Types'
    <3>1. reconciled_count' \in Nat
      BY <1>1, <2>1 DEF TypeOK
    <3> QED BY <1>1, <1>3, <2>7, <3>1 DEF Types, TypeOK, Scanner, Status
  <2>11. Scan'
    <3>1. \A p \in reconciler.pending \cup reconciler.listed : p.receipt_id \in Executions /\ Seen(p)
      BY <1>1 DEF Scan, Verdicts, Pass, Scanner, Receipt
    <3>2. \A x \in Executions : trail[x] # <<>> => trail'[x] # <<>>
      BY <2>9, Trails
    <3>3. \A p \in reconciler.pending \cup reconciler.listed : Seen(p)'
      BY <2>7, <3>1, <3>2 DEF Seen
    <3>4. Verdicts'
      BY <1>3, <3>3 DEF Verdicts
    <3>5. Pass'
      <4>1. \A p \in reconciler.current : p \notin Open(receipts')
        BY <1>1, <1>2, <2>2, <2>7 DEF Scan, Verdicts
      <4>2. Open(receipts)' \subseteq Open(receipts) /\ Open(receipts)' = Open(receipts')
        BY <2>7 DEF Open
      <4> QED BY <1>1, <1>3, <3>3, <4>1, <4>2 DEF Scan, Pass, Overdue
    <3> QED BY <3>4, <3>5 DEF Scan
  <2>12. ASSUME NEW y \in Executions, y # q.receipt_id PROVE Own(y)'
    BY <1>1, <2>9, <2>12, OwnFrame
  <2>13. ASSUME NEW y \in Executions, y = q.receipt_id PROVE Own(y)'
    <3>1. trail[y] = <<"STARTED">> /\ trail'[y] \in Unobserved /\ Own(y)
      BY <1>1, <2>7, <2>9, <2>13 DEF Unobserved
    <3>2. trail[y] # <<>> /\ trail[y] # <<"STARTED", "SUCCEEDED">>
      BY <3>1, Trails
    <3> QED BY <1>1, <3>1, <3>2 DEF Own
  <2> QED BY <2>7, <2>10, <2>11, <2>12, <2>13 DEF IInv
<1> QED BY <1>2, <1>4, <1>5

\* The end of a scan.
LEMMA EndScanStep == ASSUME IInv, EndScan PROVE IInv'
<1> DEFINE s == [reconciler EXCEPT !.pc = "idle", !.at = 0, !.listed = {}, !.raised = {}]
<1>1. /\ reconciler \in Scanner /\ Scan /\ reconciler.pc = "scanning"
      /\ reconciler' = s /\ UNCHANGED <<now, storeVars, execution>>
  BY DEF IInv, Types, TypeOK, Scanner, EndScan
<1>2. /\ s \in Scanner /\ s.current = reconciler.current /\ s.pending = reconciler.pending
      /\ s.listed = {}
  BY <1>1 DEF Scanner
<1> HIDE DEF s
<1>3. reconciler.current = {} /\ \A r \in reconciler.pending : Seen(r)
  BY <1>1 DEF Scan, Verdicts
<1>4. \A r \in reconciler.pending : Seen(r)'
  BY <1>1, <1>3, SeenFrame
<1>5. Scan'
  BY <1>1, <1>2, <1>3, <1>4 DEF Scan, Verdicts, Pass
<1> QED BY <1>1, <1>2, <1>5, ScanStep

\* Time passes, or nothing happens.
LEMMA IdleStep ==
  ASSUME IInv, now' \in Nat, UNCHANGED <<storeVars, execution, reconciler>>
  PROVE  IInv'
<1>1. UNCHANGED <<receipts, grant_index, monotonic_starts, insertions, trail,
                  reconciled_count, execution, reconciler>>
  BY DEF storeVars
<1>2. TypeOK /\ \A x \in Executions : Own(x)
  BY DEF IInv, Types
<1>3. TypeOK'
  BY <1>1, <1>2 DEF TypeOK
<1>4. \A x \in Executions : Own(x)'
  BY <1>1, <1>2, OwnFrame
<1>5. Store' /\ Scan' /\ IsFiniteSet(receipts')
  BY <1>1, StoreFrame
<1> QED BY <1>3, <1>4, <1>5 DEF IInv, Types

--------------------------------------------------------------------------------
(* Theorems.                                                                 *)

\* At first nothing is stored and nothing ran.
LEMMA InitIInv == Init => IInv
<1> SUFFICES ASSUME Init PROVE IInv
  OBVIOUS
<1>1. /\ receipts = {} /\ grant_index = {} /\ monotonic_starts = {} /\ insertions = 0 /\ now = 0
      /\ reconciled_count = 0 /\ trail = [x \in Executions |-> <<>>]
      /\ reconciler = [pc |-> "idle", at |-> 0, listed |-> {}, pending |-> {}, current |-> {},
                       reason |-> "NONE", raised |-> {}]
      /\ execution \in
           [Executions -> [pc: {"claimed"}, started: {0}, timeout: Timeouts, outcome: {"NONE"},
                           result: {"NONE"}]]
  BY DEF Init
<1>2. execution \in [Executions -> Execution]
  <2>1. ASSUME NEW x \in Executions PROVE execution[x] \in Execution
    <3>1. execution[x] \in [pc: {"claimed"}, started: {0}, timeout: Timeouts, outcome: {"NONE"},
                            result: {"NONE"}]
      BY <1>1
    <3>2. Timeouts \subseteq Nat
      BY EvidenceAssumption
    <3>3. PICK t \in Timeouts :
            execution[x] = [pc |-> "claimed", started |-> 0, timeout |-> t, outcome |-> "NONE",
                            result |-> "NONE"]
      BY <3>1
    <3> QED BY <3>2, <3>3 DEF Execution
  <2> QED BY <1>1, <2>1
<1>3. \A x \in Executions :
        /\ execution[x].pc = "claimed" /\ execution[x].outcome = "NONE"
        /\ execution[x].result = "NONE" /\ trail[x] = <<>>
  BY <1>1
<1>4. /\ reconciler \in Scanner /\ reconciler.pending = {} /\ reconciler.current = {}
      /\ reconciler.listed = {}
  BY <1>1 DEF Scanner
<1>5. trail \in [Executions -> Seq(Status)]
  BY <1>1, TrailType
<1>6. IsFiniteSet({}) /\ Cardinality({}) = 0
  BY FS_EmptySet
<1>7. Types
  BY <1>1, <1>2, <1>4, <1>5, <1>6 DEF Types, TypeOK, Execution, Scanner, Status
<1>8. Keyed /\ StartsAgree /\ Recorded /\ NoInventedTimeout
  BY <1>1 DEF Keyed, StartsAgree, Recorded, NoInventedTimeout
<1>9. StoreIsBounded
  <2>1. {r \in receipts : r.status # "STARTED"} = {} /\ Open(receipts) = {}
    BY <1>1 DEF Open
  <2>2. /\ grant_index = {r.receipt_id : r \in receipts}
        /\ {m.receipt_id : m \in monotonic_starts} = {r.receipt_id : r \in Open(receipts)}
    BY <1>1, <2>1
  <2>3. Cardinality({r \in receipts : r.status # "STARTED"}) <= MaxTerminalReceipts
    BY <1>6, <2>1, EvidenceAssumption
  <2>4. \A x \in Executions : trail[x] # <<"STARTED">>
    BY <1>3, Trails
  <2> QED BY <2>2, <2>3, <2>4 DEF StoreIsBounded
<1>10. Scan
  BY <1>4 DEF Scan, Verdicts, Pass
<1>11. \A x \in Executions : Own(x)
  BY <1>3 DEF Own
<1> QED BY <1>7, <1>8, <1>9, <1>10, <1>11 DEF IInv, Store

\* Every step of executors, reconciler and clock preserves the invariant.
LEMMA NextIInv == IInv /\ [Next]_vars => IInv'
<1> SUFFICES ASSUME IInv, [Next]_vars PROVE IInv'
  OBVIOUS
<1>1. now \in Nat
  BY DEF IInv, Types, TypeOK
<1>2. ASSUME NEW x \in Executions, Enter(x) \/ ExecutorStep(x) \/ LoseWorker(x) PROVE IInv'
  BY <1>2, EnterStep, RecordStartedStep, ObserveStep, RecordTerminalStep, LoseWorkerStep
     DEF ExecutorStep
<1>3. CASE ReconcilerStep
  BY <1>3, ReadClockStep, SnapshotStep, ExamineStep, ResolveStep, EndScanStep DEF ReconcilerStep
<1>4. CASE Tick
  BY <1>1, <1>4, IdleStep DEF Tick
<1>5. CASE UNCHANGED vars
  BY <1>1, <1>5, IdleStep DEF vars
<1> QED BY <1>2, <1>3, <1>4, <1>5 DEF Next

\* The inductive invariant holds in every reachable state.
THEOREM Invariance == Spec => []IInv
BY InitIInv, NextIInv, PTL DEF Spec

\* Every variable of the store, the executors and the reconciler keeps its type.
THEOREM TypeCorrect == Spec => []TypeOK
<1>1. IInv => TypeOK
  BY DEF IInv, Types
<1> QED BY <1>1, Invariance, PTL

\* However executor, reconciler and pruning race, a receipt is resolved at most once, to what
\* its executor observed or to UNKNOWN (record_terminal and record_reconciled).
THEOREM ReceiptsResolveOnce == Spec => []TrailsAreLegal
<1>1. IInv => TrailsAreLegal
  <2> SUFFICES ASSUME IInv, NEW x \in Executions
               PROVE  \/ trail[x] \in {<<>>, <<"STARTED">>, <<"STARTED", "UNKNOWN">>}
                      \/ trail[x] = <<"STARTED", execution[x].outcome>>
    BY DEF TrailsAreLegal
  <2>1. Own(x) /\ execution[x].pc \in {"claimed", "entered", "running", "observed", "done", "lost"}
    BY DEF IInv, Types, TypeOK
  <2> QED BY <2>1 DEF Own, Unobserved
<1> QED BY <1>1, Invariance, PTL

\* _run returns output only for a success whose receipt says so, and an integrity failure
\* only for a success whose receipt does not.
THEOREM OutputIsEvidenced == Spec => []OutputNeedsEvidence
<1>1. IInv => OutputNeedsEvidence
  <2> SUFFICES ASSUME IInv, NEW x \in Executions,
                      execution[x].result \in {"output", "integrity_failure"}
               PROVE  /\ execution[x].outcome = "SUCCEEDED"
                      /\ execution[x].result = "output" <=> trail[x] = <<"STARTED", "SUCCEEDED">>
    BY DEF OutputNeedsEvidence
  <2>1. Own(x) /\ execution[x].pc \in {"claimed", "entered", "running", "observed", "done", "lost"}
    BY DEF IInv, Types, TypeOK
  <2>2. \A t \in Unobserved : t # <<"STARTED", "SUCCEEDED">>
    BY Trails DEF Unobserved
  <2> QED BY <2>1, <2>2 DEF Own
<1> QED BY <1>1, Invariance, PTL

\* reconcile_unresolved writes UNKNOWN only after the receipt's own budget and the grace
\* have passed, and never because of timing evidence lost to a race.
THEOREM TimeoutsAreReal == Spec => []NoInventedTimeout
<1>1. IInv => NoInventedTimeout
  BY DEF IInv, Store
<1> QED BY <1>1, Invariance, PTL

\* _prune_terminal_locked keeps the receipts and both indexes within the retention bound, and
\* every execution that is still unresolved keeps its receipt.
THEOREM RetentionHolds == Spec => []StoreIsBounded
<1>1. IInv => StoreIsBounded
  BY DEF IInv, Store
<1> QED BY <1>1, Invariance, PTL

\* When a pass of reconcile_unresolved returns, every receipt it found open and overdue has
\* been resolved, or the store raised for that receipt.
THEOREM PassesAreComplete == Spec => PassLeavesNothingOverdue
<1>1. ASSUME IInv, [Next]_vars, reconciler.pc # "idle", reconciler'.pc = "idle",
             NEW r \in reconciler.listed \cap Open(receipts'), Overdue(r)
      PROVE  r.receipt_id \in reconciler.raised
  <2>1. Scan /\ reconciler \in Scanner
    BY <1>1 DEF IInv, Types, TypeOK, Scanner
  <2>2. EndScan
    <3>1. reconciler' # reconciler
      BY <1>1
    <3>2. ReconcilerStep
      BY <1>1, <3>1 DEF Next, vars, Enter, ExecutorStep, RecordStarted, Observe, RecordTerminal,
                        LoseWorker, Tick
    <3>3. ~(ReadClock \/ Snapshot)
      BY <1>1, <2>1 DEF ReadClock, Snapshot, Scanner
    <3>4. ~Resolve
      <4>1. \A F : NextReceipt(F).pc = "scanning"
        BY <2>1 DEF NextReceipt, Scanner
      <4> QED BY <1>1, <4>1 DEF Resolve
    <3>5. ~Examine
      <4> SUFFICES ASSUME Examine PROVE FALSE
        OBVIOUS
      <4>1. PICK q \in reconciler.pending :
              LET rest == [reconciler EXCEPT !.pending = @ \ {q}]
              IN  \/ reconciler' = [rest EXCEPT !.pc = "resolving", !.current = {q},
                                                !.reason = "EVIDENCE_UNAVAILABLE"]
                  \/ reconciler' = [rest EXCEPT !.pc = "resolving", !.current = {q},
                                                !.reason = "EXECUTION_TIMEOUT"]
                  \/ reconciler' = rest
        BY DEF Examine
      <4>2. reconciler.pc = "scanning"
        BY DEF Examine
      <4> QED BY <1>1, <2>1, <4>1, <4>2 DEF Scanner
    <3> QED BY <3>2, <3>3, <3>4, <3>5 DEF ReconcilerStep
  <2>3. /\ reconciler.pc = "scanning" /\ reconciler.pending = {} /\ UNCHANGED receipts
    BY <2>2 DEF EndScan, storeVars
  <2>4. reconciler.current = {}
    BY <2>1, <2>3 DEF Scan, Verdicts
  <2>5. r \in reconciler.listed \cap Open(receipts)
    BY <1>1, <2>3 DEF Open
  <2> QED BY <1>1, <2>1, <2>3, <2>4, <2>5 DEF Scan, Pass
<1>2. IInv /\ [Next]_vars =>
        [reconciler.pc # "idle" /\ reconciler'.pc = "idle" =>
           \A r \in reconciler.listed \cap Open(receipts') :
             Overdue(r) => r.receipt_id \in reconciler.raised]_vars
  BY <1>1
<1> QED BY <1>2, Invariance, PTL DEF Spec, PassLeavesNothingOverdue

================================================================================
