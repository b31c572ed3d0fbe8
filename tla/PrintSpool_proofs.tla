-------------------------- MODULE PrintSpool_proofs --------------------------
(***************************************************************************)
(* No receipt is lost, overtaken, or sent twice without cause, and the     *)
(* spool is bounded: proofs for every size of the spool and every number   *)
(* of receipts and restarts.                                               *)
(***************************************************************************)
EXTENDS PrintSpool, FiniteSetTheorems, WellFoundedInduction, TLAPS

-----------------------------------------------------------------------------
(* The oldest pending receipt, and what pruning keeps.                      *)

LEMMA HasMinimum ==
    ASSUME NEW S, S \subseteq Nat, S # {}
    PROVE  \E j \in S : \A i \in S : j <= i
<1> DEFINE R == OpToRel(<, Nat)
<1>1. PICK j \in S : \A i \in S : ~(<<i, j>> \in R)
  <2>1. IsWellFoundedOn(R, Nat)
    BY NatLessThanWellFounded
  <2> HIDE DEF R
  <2> QED
    BY <2>1, WFMin
<1>2. \A i \in S : ~(i < j)
  BY <1>1 DEF OpToRel
<1> QED
  BY <1>2

LEMMA OldestIsPending ==
    ASSUME Pending # {}
    PROVE  Oldest \in Pending /\ \A i \in Pending : Oldest <= i
<1>1. Pending \subseteq Nat
  BY BoundsAssumption DEF Pending, Jobs
<1>2. \E j \in Pending : \A i \in Pending : j <= i
  BY <1>1, HasMinimum
<1> QED
  BY <1>2 DEF Oldest

LEMMA PruneKeeps ==
    ASSUME NEW s \in [Jobs -> Outcomes \cup {"absent", "pending"}]
    PROVE  /\ Prune(s) \in [Jobs -> Outcomes \cup {"absent", "pending"}]
           /\ \A j \in Jobs : Prune(s)[j] = "pending" <=> s[j] = "pending"
           /\ \A j \in Jobs : s[j] = "absent" => Prune(s)[j] = "absent"
  BY DEF Prune, Finished, Outcomes

LEMMA PruneBounds ==
    ASSUME NEW s \in [Jobs -> Outcomes \cup {"absent", "pending"}]
    PROVE  Cardinality(Finished(Prune(s))) <= QueueMax
<1> DEFINE F       == Finished(s)
           K       == Finished(Prune(s))
           From(j) == {i \in F : i >= j}
<1>1. IsFiniteSet(Jobs) /\ Jobs \subseteq Nat
  BY FS_Interval, BoundsAssumption DEF Jobs
<1>2. F \subseteq Jobs /\ \A j \in K : j \in F /\ ~(Cardinality(From(j)) > QueueMax)
  BY DEF Finished, Prune, Outcomes
<1>3. \A j \in Jobs : IsFiniteSet(From(j)) /\ Cardinality(From(j)) \in Nat
  BY <1>1, <1>2, FS_Subset, FS_CardinalityType
<1>4. CASE K = {}
  BY <1>4, FS_EmptySet, BoundsAssumption
<1>5. CASE K # {}
  <2>1. K \subseteq Nat
    BY <1>1, <1>2
  <2>2. PICK j \in K : \A i \in K : j <= i
    BY <2>1, <1>5, HasMinimum
  <2>3. K \subseteq From(j)
    BY <1>1, <1>2, <2>2
  <2>4. Cardinality(K) <= Cardinality(From(j)) /\ Cardinality(K) \in Nat
    BY <2>3, <1>2, <1>3, FS_Subset, FS_CardinalityType
  <2>5. Cardinality(From(j)) <= QueueMax
    BY <1>2, <1>3, BoundsAssumption
  <2> QED
    BY <2>4, <2>5, <1>2, <1>3, BoundsAssumption
<1> QED
  BY <1>4, <1>5

-----------------------------------------------------------------------------
(* The inductive invariant.                                                 *)

\* An id not yet given out has no row and no history.
Unborn == \A j \in Jobs : j > created =>
             /\ spool[j] = "absent" /\ outcome[j] = "none"
             /\ submitted[j] = 0 /\ interrupted[j] = 0

\* The job under way is the oldest without an outcome.
InHand == worker \in {"connecting", "submitted"} =>
             /\ running /\ spool[job] = "pending"
             /\ \A i \in 1 .. job - 1 : outcome[i] # "none"

\* Every submission ended without a record, with the one record, or is under way.
Accounted == \A j \in Jobs :
               submitted[j] <= interrupted[j] +
                 IF outcome[j] # "none" \/ (worker = "submitted" /\ job = j) THEN 1 ELSE 0

Delivery == TypeOK /\ NothingLost /\ Unborn /\ InHand /\ Accounted

LEMMA InitDelivery ==
    ASSUME Init
    PROVE  Delivery
<1>1. TypeOK
  <2>1. running \in BOOLEAN
    BY DEF Init
  <2>2. /\ created \in 0 .. MaxJobs /\ starts \in 0 .. MaxStarts /\ job \in Jobs
        /\ submitted \in [Jobs -> Nat] /\ interrupted \in [Jobs -> Nat]
    BY BoundsAssumption DEF Init, Jobs
  <2> QED
    BY <2>1, <2>2 DEF Init, TypeOK
<1>2. NothingLost
  BY DEF Init, NothingLost
<1>3. Unborn /\ InHand
  BY DEF Init, Unborn, InHand
<1>4. Accounted
  BY DEF Init, Accounted
<1> QED
  BY <1>1, <1>2, <1>3, <1>4 DEF Delivery

\* Recording an outcome of the submitted job.
LEMMA RecordDelivery ==
    ASSUME Delivery, worker = "submitted", NEW result \in Outcomes, Record(job, result),
           worker' \in {"idle", "ended"}, job' = job, running' \in BOOLEAN, starts' = starts
    PROVE  Delivery'
<1> DEFINE s == [spool EXCEPT ![job] = result]
<1>1. s \in [Jobs -> Outcomes \cup {"absent", "pending"}] /\ job \in Jobs /\ spool' = Prune(s)
  BY DEF Delivery, TypeOK, Record
<1>2. /\ spool' \in [Jobs -> Outcomes \cup {"absent", "pending"}]
      /\ \A j \in Jobs : spool'[j] = "pending" <=> s[j] = "pending"
      /\ \A j \in Jobs : s[j] = "absent" => spool'[j] = "absent"
  BY <1>1, PruneKeeps
<1>3. TypeOK'
  BY <1>2 DEF Delivery, TypeOK, Record
<1>4. NothingLost'
  <2>1. 1 .. created \subseteq Jobs /\ created' = created
    BY BoundsAssumption DEF Delivery, TypeOK, Record, Jobs
  <2>2. \A j \in Jobs : j # job => s[j] = spool[j] /\ outcome'[j] = outcome[j]
    BY DEF Delivery, TypeOK, Record
  <2>3. s[job] = result /\ outcome'[job] = result /\ result # "none" /\ result # "pending"
    BY DEF Delivery, TypeOK, Record, Outcomes
  <2> QED
    BY <1>2, <2>1, <2>2, <2>3 DEF Delivery, NothingLost
<1>5. Unborn'
  BY <1>1, <1>2 DEF Delivery, TypeOK, Unborn, InHand, Record, Jobs, Outcomes
<1>6. Accounted'
  BY <1>1 DEF Delivery, TypeOK, Accounted, Record, Outcomes
<1> QED
  BY <1>3, <1>4, <1>5, <1>6 DEF Delivery, InHand

LEMMA TaskDelivery ==
    ASSUME Delivery, Deliver
    PROVE  Delivery'
<1>1. CASE Take
  <2>1. Oldest \in Pending /\ \A i \in Pending : Oldest <= i
    BY <1>1, OldestIsPending DEF Take
  <2>2. job' \in Jobs /\ spool[job'] = "pending" /\ job' <= created
    BY <1>1, <2>1, BoundsAssumption DEF Take, Pending, Delivery, TypeOK, Unborn, Jobs
  <2>3. \A i \in 1 .. job' - 1 : outcome[i] # "none"
    BY <1>1, <2>1, <2>2, BoundsAssumption
    DEF Take, Pending, Delivery, TypeOK, NothingLost, Jobs
  <2> QED
    BY <1>1, <2>2, <2>3
    DEF Take, Delivery, TypeOK, NothingLost, Unborn, InHand, Accounted, process, rows, history
<1>2. CASE ConnectFails \/ Retry
  BY <1>2 DEF ConnectFails, Retry, Delivery, TypeOK, NothingLost, Unborn, InHand, Accounted,
              process, rows, history
<1>3. CASE Submit
  BY <1>3, BoundsAssumption
  DEF Submit, Delivery, TypeOK, NothingLost, Unborn, InHand, Accounted, process, rows, Jobs
<1>4. CASE Responded
  <2>1. PICK result \in Outcomes : Record(job, result)
    BY <1>4 DEF Responded
  <2> QED
    BY <1>4, <2>1, RecordDelivery DEF Responded, process, Delivery, TypeOK
<1>5. CASE TaskFails
  BY <1>5, BoundsAssumption
  DEF TaskFails, Interrupted, Delivery, TypeOK, NothingLost, Unborn, InHand, Accounted,
      process, rows, Jobs
<1> QED
  BY <1>1, <1>2, <1>3, <1>4, <1>5 DEF Deliver

LEMMA ProcessDelivery ==
    ASSUME Delivery, Enqueue \/ Shutdown \/ Crash \/ Start \/ UNCHANGED vars
    PROVE  Delivery'
<1>1. CASE Enqueue
  BY <1>1, BoundsAssumption
  DEF Enqueue, Delivery, TypeOK, NothingLost, Unborn, InHand, Accounted, process, task, history,
      Jobs, Outcomes
<1>2. CASE Shutdown
  <2>1. CASE worker = "submitted"
    BY <1>2, <2>1, RecordDelivery DEF Shutdown, Outcomes
  <2>2. CASE worker # "submitted"
    BY <1>2, <2>2
    DEF Shutdown, Delivery, TypeOK, NothingLost, Unborn, InHand, Accounted, rows, history
  <2> QED
    BY <2>1, <2>2
<1>3. CASE Crash
  <2>1. TypeOK'
    <3>1. running' \in BOOLEAN
      BY <1>3 DEF Crash
    <3>2. interrupted' \in [Jobs -> Nat]
      BY <1>3 DEF Crash, Interrupted, Delivery, TypeOK
    <3> QED
      BY <1>3, <3>1, <3>2 DEF Crash, Delivery, TypeOK, rows
  <2>4. NothingLost' /\ InHand'
    BY <1>3 DEF Crash, Delivery, NothingLost, InHand, rows
  <2>2. Unborn'
    BY <1>3 DEF Crash, Interrupted, Delivery, TypeOK, Unborn, InHand, rows
  <2>3. Accounted'
    BY <1>3 DEF Crash, Interrupted, Delivery, TypeOK, Accounted, rows
  <2> QED
    BY <2>1, <2>2, <2>3, <2>4 DEF Delivery
<1>4. CASE Start
  <2>1. /\ spool' \in [Jobs -> Outcomes \cup {"absent", "pending"}]
        /\ \A j \in Jobs : spool'[j] = "pending" <=> spool[j] = "pending"
        /\ \A j \in Jobs : spool[j] = "absent" => spool'[j] = "absent"
    BY <1>4, PruneKeeps DEF Start, Delivery, TypeOK
  <2> QED
    BY <1>4, <2>1, BoundsAssumption
    DEF Start, Delivery, TypeOK, NothingLost, Unborn, InHand, Accounted, history, Jobs
<1>5. CASE UNCHANGED vars
  BY <1>5 DEF vars, process, task, rows, history, Delivery, TypeOK, NothingLost, Unborn, InHand,
              Accounted
<1> QED
  BY <1>1, <1>2, <1>3, <1>4, <1>5

LEMMA AlwaysDelivery == Spec => []Delivery
<1>1. Delivery /\ [Next]_vars => Delivery'
  BY TaskDelivery, ProcessDelivery DEF Next
<1> QED
  BY InitDelivery, <1>1, PTL DEF Spec

-----------------------------------------------------------------------------
(* The theorems.                                                            *)

\* The rows of the spool (printer_store.py) stay within their statuses and its ids in order of creation.
THEOREM SpoolTypeCorrect == Spec => []TypeOK
<1>1. Delivery => TypeOK
  BY DEF Delivery
<1> QED
  BY <1>1, AlwaysDelivery, PTL

\* A receipt that was queued stays pending until its outcome is recorded
\* (printer_store.py), however often the process stops, dies and starts again.
THEOREM ReceiptsAreKept == Spec => []NothingLost
  BY AlwaysDelivery, PTL DEF Delivery

\* A receipt is submitted once more than its submissions were interrupted, at
\* most (_deliver): the code itself never repeats an ambiguous submission.
THEOREM RepeatsHaveCause == Spec => []ResentOnlyIfInterrupted
<1>1. Delivery => ResentOnlyIfInterrupted
  BY DEF Delivery, TypeOK, Accounted, ResentOnlyIfInterrupted
<1> QED
  BY AlwaysDelivery, <1>1, PTL

\* No receipt is submitted while an earlier one has no outcome (next_pending
\* and the retry of the same job in run).
THEOREM OrderIsKept == Spec => InOrder
<1> DEFINE Ordered == \A j \in Jobs : submitted'[j] > submitted[j]
                         => \A i \in 1 .. j - 1 : outcome[i] # "none"
<1>1. Delivery /\ [Next]_vars => Ordered
  <2> SUFFICES ASSUME Delivery, [Next]_vars PROVE Ordered
    OBVIOUS
  <2>1. CASE Submit
    BY <2>1 DEF Submit, Delivery, TypeOK, InHand
  <2>2. CASE ~Submit
    <3>1. submitted' = submitted
      BY <2>2 DEF Next, Deliver, Take, ConnectFails, Retry, Responded, TaskFails, Enqueue,
                  Shutdown, Crash, Start, Record, vars, history
    <3> QED
      BY <3>1 DEF Delivery, TypeOK
  <2> QED
    BY <2>1, <2>2
<1>2. [][Ordered]_vars => InOrder
  BY DEF InOrder
<1> QED
  BY AlwaysDelivery, <1>1, <1>2, PTL DEF Spec

\* Pending receipts are bounded by refusing new ones (enqueue_event), finished
\* ones by prune_terminal, across restarts.
THEOREM SpoolStaysBounded == Spec => []SpoolIsBounded
<1>1. Init => SpoolIsBounded
  <2>1. Init => Pending = {} /\ Finished(spool) = {}
    BY DEF Init, Pending, Finished, Outcomes
  <2> QED
    BY <2>1, FS_EmptySet, BoundsAssumption DEF SpoolIsBounded
<1>2. Delivery /\ SpoolIsBounded /\ [Next]_vars => SpoolIsBounded'
  <2> SUFFICES ASSUME Delivery, SpoolIsBounded, [Next]_vars PROVE SpoolIsBounded'
    OBVIOUS
  <2>1. IsFiniteSet(Pending) /\ Cardinality(Pending) \in Nat
    <3>1. IsFiniteSet(Jobs)
      BY FS_Interval, BoundsAssumption DEF Jobs
    <3>2. Pending \subseteq Jobs
      BY DEF Pending
    <3> QED
      BY <3>1, <3>2, FS_Subset, FS_CardinalityType
  <2>2. CASE UNCHANGED spool
    BY <2>2 DEF SpoolIsBounded, Pending, Finished
  <2>3. CASE Enqueue
    <3>1. Pending' \subseteq Pending \cup {created + 1}
      BY <2>3 DEF Enqueue, Pending, Delivery, TypeOK
    <3>2. Cardinality(Pending') <= Cardinality(Pending) + 1 /\ Cardinality(Pending') \in Nat
      <4> DEFINE S == Pending \cup {created + 1}
      <4>1. IsFiniteSet(S) /\ Cardinality(S) <= Cardinality(Pending) + 1
        <5>1. \/ Cardinality(S) = Cardinality(Pending)
              \/ Cardinality(S) = Cardinality(Pending) + 1
          BY <2>1, FS_AddElement
        <5>2. IsFiniteSet(S)
          BY <2>1, FS_AddElement
        <5> QED
          BY <2>1, <5>1, <5>2
      <4>2. IsFiniteSet(Pending') /\ Cardinality(Pending') <= Cardinality(S)
        BY <3>1, <4>1, FS_Subset
      <4> QED
        BY <2>1, <4>1, <4>2, FS_CardinalityType
    <3>3. Finished(spool') = Finished(spool)
      <4>1. created + 1 \in Jobs /\ spool[created + 1] \notin Outcomes
        BY <2>3, BoundsAssumption DEF Enqueue, Delivery, TypeOK, Unborn, Jobs, Outcomes
      <4> QED
        BY <2>3, <4>1 DEF Enqueue, Finished, Delivery, TypeOK, Outcomes
    <3> QED
      BY <2>1, <2>3, <3>2, <3>3, BoundsAssumption DEF Enqueue, SpoolIsBounded
  <2>4. ASSUME NEW s \in [Jobs -> Outcomes \cup {"absent", "pending"}], spool' = Prune(s),
               \A j \in Jobs : s[j] = "pending" => spool[j] = "pending"
        PROVE  SpoolIsBounded'
    <3>1. Pending' \subseteq Pending
      BY <2>4, PruneKeeps DEF Pending
    <3>2. Cardinality(Pending') <= Cardinality(Pending) /\ Cardinality(Pending') \in Nat
      BY <2>1, <3>1, FS_Subset, FS_CardinalityType
    <3>3. Cardinality(Finished(spool')) <= QueueMax
      BY <2>4, PruneBounds
    <3> QED
      BY <2>1, <3>2, <3>3, BoundsAssumption DEF SpoolIsBounded
  <2>5. ASSUME worker = "submitted", NEW result \in Outcomes, Record(job, result)
        PROVE  SpoolIsBounded'
    <3> DEFINE s == [spool EXCEPT ![job] = result]
    <3>1. s \in [Jobs -> Outcomes \cup {"absent", "pending"}] /\ spool' = Prune(s)
      BY <2>5 DEF Delivery, TypeOK, Record
    <3>2. \A j \in Jobs : s[j] = "pending" => spool[j] = "pending"
      BY <2>5 DEF Delivery, TypeOK, Outcomes
    <3> HIDE DEF s
    <3> QED
      BY <3>1, <3>2, <2>4
  <2>6. CASE Start
    BY <2>6, <2>4 DEF Start, Delivery, TypeOK
  <2>7. CASE Responded
    BY <2>7, <2>5 DEF Responded
  <2>8. CASE Shutdown
    BY <2>8, <2>2, <2>5 DEF Shutdown, Outcomes, rows
  <2>9. CASE ~(Enqueue \/ Start \/ Responded \/ Shutdown)
    BY <2>2, <2>9
    DEF Next, Deliver, Take, ConnectFails, Retry, Submit, TaskFails, Crash, vars, rows
  <2> QED
    BY <2>3, <2>6, <2>7, <2>8, <2>9
<1> QED
  BY AlwaysDelivery, <1>1, <1>2, PTL DEF Spec
=============================================================================
