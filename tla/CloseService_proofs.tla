------------------------- MODULE CloseService_proofs -------------------------
(***************************************************************************)
(* What CloseService promises for every list of notaries, threshold and     *)
(* number of faults.                                                        *)
(*                                                                         *)
(* A close commits a payload some M distinct places of the list approved.   *)
(* The approvals are counted while the service asks; from then on the fact  *)
(* that they were given is carried by the payload, through the call, the    *)
(* calls that were abandoned, and the chain.                                *)
(***************************************************************************)
EXTENDS CloseService, FiniteSetTheorems, TLAPS

\* M distinct places approved p.
Enough(p) ==
    \E A \in SUBSET Distinct : /\ Cardinality(A) = M
                               /\ \A i \in A : <<Listed[i], p>> \in vouched

\* What collect_approvals has of the present payload.
Asked ==
    pc = "asking" =>
        /\ M > 0
        /\ current \in Distinct
        /\ approved \subseteq Distinct
        /\ unasked \subseteq Distinct
        /\ Cardinality(approved) < M
        /\ Cardinality(unasked) + Cardinality(approved) + 1 >= M
        /\ current \notin approved \cup unasked
        /\ approved \cap unasked = {}
        /\ \A i \in approved : <<Listed[i], payload>> \in vouched

\* Every payload that is sent, was abandoned or was committed had its approvals.
Vouched ==
    /\ pc = "closing" => Enough(payload)
    /\ \A p \in late : Enough(p)
    /\ chain.state # "open" => Enough(chain.top)
    /\ IsFiniteSet(vouched)

\* A record of a closed chain is made from one, in memory and on disk.
Recorded ==
    /\ record.closed \/ file.closed \/ pc = "done" => chain.state = "closed"
    /\ pc = "committed" => chain.state # "open"

IInv == TypeOK /\ Asked /\ Vouched /\ Recorded

\* The list's places are finite.
LEMMA Places == IsFiniteSet(Distinct) /\ Distinct \subseteq Place /\ 0 \notin Place
<1>1. Place = 1..Len(Listed) /\ Len(Listed) \in Nat
  BY CloseAssumption DEF Place
<1>2. IsFiniteSet(Place)
  <2>1. IsFiniteSet(1..Len(Listed))
    BY <1>1, FS_Interval, 1 \in Int
  <2>2. QED
    BY <1>1, <2>1
<1>3. Distinct \subseteq Place
  BY DEF Distinct
<1>4. 0 \notin Place
  BY <1>1
<1>5. IsFiniteSet(Distinct)
  BY <1>2, <1>3, FS_Subset
<1>6. QED
  BY <1>3, <1>4, <1>5

\* Distinct places hold different keys.
LEMMA DistinctKeys ==
    ASSUME NEW i \in Distinct, NEW j \in Distinct, Listed[i] = Listed[j]
    PROVE  i = j
<1>1. i \in Int /\ j \in Int
  BY Places, CloseAssumption DEF Place
<1>2. ~(i < j) /\ ~(j < i)
  BY Places DEF Distinct
<1>3. QED
  BY <1>1, <1>2

\* So M approving places are M approving keys.
LEMMA EnoughApprovers ==
    ASSUME NEW p, Enough(p), IsFiniteSet(vouched)
    PROVE  Cardinality(Approvers(p)) >= M
<1>1. PICK A \in SUBSET Distinct : /\ Cardinality(A) = M
                                   /\ \A i \in A : <<Listed[i], p>> \in vouched
  BY DEF Enough
<1> DEFINE keys == {Listed[i] : i \in A}
<1>2. IsFiniteSet(A)
  BY Places, FS_Subset
<1>3. Cardinality(keys) = Cardinality(A)
  <2> DEFINE f == [i \in A |-> Listed[i]]
  <2>1. f \in Surjection(A, keys)
    BY DEF Surjection
  <2>2. f \in Injection(A, keys)
    BY <2>1, DistinctKeys DEF Injection, Surjection, IsInjective
  <2>3. QED
    BY <2>1, <2>2, <1>2, FS_Surjection
<1>4. keys \subseteq Approvers(p)
  <2> SUFFICES ASSUME NEW i \in A PROVE Listed[i] \in Approvers(p)
    OBVIOUS
  <2>1. <<Listed[i], p>> \in {w \in vouched : w[2] = p} /\ <<Listed[i], p>>[1] = Listed[i]
    BY <1>1
  <2>2. QED
    BY <2>1 DEF Approvers
<1>5. IsFiniteSet(Approvers(p))
  <2> DEFINE V == {w \in vouched : w[2] = p}
             key == [v \in V |-> v[1]]
  <2>1. IsFiniteSet(V)
    BY FS_Subset
  <2>2. key \in Surjection(V, Approvers(p))
    BY DEF Surjection, Approvers
  <2>3. QED
    BY <2>1, <2>2, FS_Surjection
<1>6. Cardinality(keys) <= Cardinality(Approvers(p))
  BY <1>4, <1>5, FS_Subset
<1>7. QED
  BY <1>1, <1>3, <1>6, <1>2, <1>5, FS_CardinalityType, CloseAssumption

\* Approvals are never taken back.
LEMMA EnoughStays ==
    ASSUME NEW p, Enough(p), vouched \subseteq vouched'
    PROVE  Enough(p)'
BY DEF Enough

\* The records a process starts and ends with.
LEMMA EndRecords ==
    /\ Fresh \in Record /\ ~Fresh.closed 
    /\ [step |-> "done", closed |-> TRUE] \in Record
    /\ [step |-> "none", closed |-> FALSE] \in Record
BY DEF Fresh, Record, Step

\* The invariant holds at the start.
LEMMA InitIInv == Init => IInv
<1> SUFFICES ASSUME Init PROVE IInv
  OBVIOUS
<1>1. TypeOK
  <2>1. /\ chain \in [top : Nat, state : {"open", "summary", "closed"}, fees : BOOLEAN]
        /\ refusals \in 0..Retries
    <3>1. 0 \in Nat /\ 0 \in 0..Retries
      BY CloseAssumption
    <3>2. PICK owed \in BOOLEAN : chain = [top |-> 0, state |-> "open", fees |-> owed]
      BY DEF Init
    <3>3. QED
      BY <3>1, <3>2 DEF Init
  <2>2. record \in Record /\ file \in Record
    BY EndRecords DEF Init
  <2>3. QED
    BY <2>1, <2>2 DEF Init, TypeOK, Running, Calls
<1>2. Asked /\ Vouched /\ Recorded
  BY FS_EmptySet DEF Init, Asked, Vouched, Recorded, Fresh
<1>3. QED
  BY <1>1, <1>2 DEF IInv

\* A step outside collect_approvals that sends nothing keeps the invariant.
LEMMA QuietStep ==
    ASSUME IInv, TypeOK',
           UNCHANGED <<chain, payload, vouched>>,
           pc' # "asking",
           pc' = "closing" => pc = "closing",
           pc' = "committed" => pc = "committed",
           late' \subseteq IF pc = "closing" THEN late \cup {payload} ELSE late,
           record'.closed => record.closed \/ chain.state = "closed",
           file'.closed => file.closed \/ record.closed \/ chain.state = "closed",
           pc' = "done" => chain.state = "closed"
    PROVE  IInv'
<1>1. Asked' /\ Recorded'
  BY DEF IInv, Asked, Recorded
<1>2. Vouched'
  BY EnoughStays DEF IInv, Vouched
<1>3. QED
  BY <1>1, <1>2 DEF IInv

\* Persisting a typed record types both.
LEMMA PersistTyped ==
    ASSUME record \in Record, file \in Record, NEW s \in Step, PersistStep(s)
    PROVE  /\ record' \in Record /\ file' \in Record
           /\ record'.closed = record.closed
           /\ file'.closed => file.closed \/ record.closed
BY DEF PersistStep, Persist, Record, Step

\* The steps of an attempt that prepare or send no close.
LEMMA RunStep ==
    ASSUME IInv, Retry \/ Restart \/ Probe \/ ReadLedger \/ ConnectionLost
    PROVE  IInv'
<1> USE DEF Running, Calls, policy
<1>1. CASE Retry
  <2>1. record' \in Record /\ file' \in Record /\ record'.closed = record.closed
          /\ (file'.closed => file.closed \/ record.closed)
    BY <1>1, PersistTyped DEF Retry, IInv, TypeOK, Step
  <2>2. TypeOK'
    BY <1>1, <2>1 DEF IInv, TypeOK, Retry
  <2>3. QED
    BY <1>1, <2>1, <2>2, QuietStep DEF Retry
<1>2. CASE Restart
  <2>1. record' \in Record /\ file' \in Record /\ ~record'.closed /\ (file'.closed => file.closed)
    BY <1>2, EndRecords DEF Restart, Persist, IInv, TypeOK
  <2>2. TypeOK'
    BY <1>2, <2>1 DEF IInv, TypeOK, Restart
  <2>3. QED
    BY <1>2, <2>1, <2>2, QuietStep DEF Restart
<1>3. CASE Probe
  <2>1. /\ record' \in Record /\ file' \in Record
        /\ record'.closed => record.closed \/ chain.state = "closed"
        /\ file'.closed => file.closed \/ record.closed \/ chain.state = "closed"
    <3>1. CASE HardStop
      BY <3>1, PersistTyped DEF HardStop, IInv, TypeOK, Step
    <3>2. CASE Finish /\ chain.state = "closed"
      BY <3>2, EndRecords DEF Finish, Persist, IInv, TypeOK
    <3>3. CASE UNCHANGED <<record, file>>
      BY <3>3 DEF IInv, TypeOK
    <3>4. QED
      BY <1>3, <3>1, <3>2, <3>3 DEF Probe
  <2>2. TypeOK'
    BY <1>3, <2>1 DEF IInv, TypeOK, Probe, Finish, HardStop
  <2>3. QED
    BY <1>3, <2>1, <2>2, QuietStep DEF Probe, Finish, HardStop
<1>4. CASE ReadLedger
  <2>1. record' \in Record /\ file' \in Record /\ record'.closed = record.closed
          /\ (file'.closed => file.closed \/ record.closed)
    BY <1>4, PersistTyped DEF ReadLedger, HardStop, IInv, TypeOK, Step
  <2>2. TypeOK'
    BY <1>4, <2>1 DEF IInv, TypeOK, ReadLedger, HardStop
  <2>3. QED
    BY <1>4, <2>1, <2>2, QuietStep DEF ReadLedger, HardStop
<1>5. CASE ConnectionLost
  <2>1. record' \in Record /\ file' \in Record /\ record'.closed = record.closed
          /\ (file'.closed => file.closed \/ record.closed)
    BY <1>5, PersistTyped DEF ConnectionLost, IInv, TypeOK, Step
  <2>2. TypeOK'
    BY <1>5, <2>1 DEF IInv, TypeOK, ConnectionLost, Abandoned
  <2>3. QED
    BY <1>5, <2>1, <2>2, QuietStep DEF ConnectionLost, Abandoned
<1>6. QED
  BY <1>1, <1>2, <1>3, <1>4, <1>5

\* Persisting a step says nothing about the chain.
LEMMA StepRecorded ==
    ASSUME IInv, NEW s \in Step, PersistStep(s)
    PROVE  /\ record' \in Record /\ file' \in Record
           /\ record'.closed => record.closed
           /\ file'.closed => file.closed \/ record.closed
BY PersistTyped DEF IInv, TypeOK

\* Dropping fees moves the chain, while no close is committed.
LEMMA DropFeesStep == IInv /\ DropFees => IInv'
<1> SUFFICES ASSUME IInv, DropFees PROVE IInv'
  OBVIOUS
<1> USE DEF Running, Calls, policy
<1>1. /\ record' \in Record /\ file' \in Record
      /\ record'.closed => record.closed
      /\ file'.closed => file.closed \/ record.closed
  BY StepRecorded DEF DropFees, Transient, IInv, TypeOK, Record, Step
<1>2. CASE chain.state = "open"
  <2>1. chain' \in [top : Nat, state : {"open", "summary", "closed"}, fees : BOOLEAN]
          /\ chain'.state = "open"
    <3>1. chain.top + 1 \in Nat
      BY DEF IInv, TypeOK
    <3>2. chain' = [chain EXCEPT !.top = chain.top + 1, !.fees = FALSE]
      BY <1>2 DEF DropFees
    <3>3. QED
      BY <1>2, <3>1, <3>2 DEF IInv, TypeOK
  <2>2. faults' \in Nat
    BY <1>2 DEF DropFees, Fault, IInv, TypeOK
  <2>3. TypeOK'
    BY <1>1, <2>1, <2>2 DEF DropFees, Transient, IInv, TypeOK
  <2>4. Asked' /\ Recorded'
    BY <1>1, <1>2, <2>1 DEF DropFees, Transient, IInv, Asked, Recorded
  <2>5. Vouched'
    BY <2>1, EnoughStays DEF DropFees, Transient, IInv, Vouched
  <2>6. QED
    BY <2>3, <2>4, <2>5 DEF IInv
<1>3. CASE chain.state # "open"
  <2>1. TypeOK'
    BY <1>1, <1>3 DEF DropFees, Transient, IInv, TypeOK
  <2>2. QED
    BY <1>1, <1>3, <2>1, QuietStep DEF DropFees, Transient
<1>4. QED
  BY <1>2, <1>3

\* Preparing opens the collection with nobody's approval.
LEMMA PrepareStep == IInv /\ Prepare => IInv'
<1> SUFFICES ASSUME IInv, Prepare PROVE IInv'
  OBVIOUS
<1> USE DEF Running, Calls, policy
<1>1. /\ record' \in Record /\ file' \in Record
      /\ record'.closed => record.closed
      /\ file'.closed => file.closed \/ record.closed
  BY StepRecorded DEF Prepare, HardStop, Transient, IInv, TypeOK, Record, Step
<1>2. CASE HardStop /\ UNCHANGED <<payload, policy>>
  <2>1. TypeOK'
    BY <1>1, <1>2 DEF Prepare, HardStop, IInv, TypeOK
  <2>2. QED
    BY <1>1, <1>2, <2>1, QuietStep DEF Prepare, HardStop
<1>3. CASE Transient /\ UNCHANGED <<payload, policy>>
  <2>1. TypeOK'
    BY <1>1, <1>3 DEF Prepare, Transient, IInv, TypeOK
  <2>2. QED
    BY <1>1, <1>3, <2>1, QuietStep DEF Prepare, Transient
<1>4. CASE /\ ~Misconfigured /\ payload' = chain.top /\ approved' = {} /\ refusals' = 0
           /\ \E n \in Distinct : current' = n /\ unasked' = Distinct \ {n}
           /\ pc' = "asking"
  <2>1. PICK n \in Distinct : current' = n /\ unasked' = Distinct \ {n}
    BY <1>4
  <2>2. chain.top \in Nat /\ 0 \in 0..Retries
    BY CloseAssumption DEF IInv, TypeOK
  <2>3. M > 0
    BY <1>4, CloseAssumption DEF Misconfigured
  <2>4. TypeOK'
    BY <1>1, <1>4, <2>1, <2>2, Places DEF Prepare, IInv, TypeOK
  <2>5. Asked'
    <3>1. Cardinality(Distinct \ {n}) = Cardinality(Distinct) - 1 /\ Cardinality(Distinct) \in Nat
      BY Places, FS_RemoveElement, FS_CardinalityType
    <3>2. Cardinality(Distinct) >= M /\ Cardinality({}) = 0
      BY <1>4, <3>1, FS_EmptySet, CloseAssumption DEF Misconfigured
    <3>3. Cardinality(Distinct \ {n}) + Cardinality({}) + 1 >= M
      BY <3>1, <3>2, CloseAssumption
    <3>4. QED
      BY <1>4, <2>1, <2>3, <3>2, <3>3 DEF Asked
  <2>6. Vouched' /\ Recorded'
    BY <1>1, <1>4, EnoughStays DEF Prepare, IInv, Vouched, Recorded
  <2>7. QED
    BY <2>4, <2>5, <2>6 DEF IInv
<1>5. QED
  BY <1>2, <1>3, <1>4 DEF Prepare

\* Whom the service asks next, of those unasked.
LEMMA AskNextTyped ==
    ASSUME IInv, pc = "asking", NEW n \in unasked, AskNext(n)
    PROVE  /\ current' \in Distinct /\ current' \notin unasked'
           /\ unasked' \subseteq unasked
           /\ refusals' \in 0..Retries
           /\ Cardinality(unasked') = Cardinality(unasked) - 1
           /\ Cardinality(unasked) \in Nat
<1>1. 0 \in 0..Retries
  BY CloseAssumption
<1>2. IsFiniteSet(unasked)
  BY Places, FS_Subset DEF IInv, Asked
<1>3. Cardinality(unasked \ {n}) = Cardinality(unasked) - 1 /\ Cardinality(unasked) \in Nat
  BY <1>2, FS_RemoveElement, FS_CardinalityType
<1>4. QED
  BY <1>1, <1>3 DEF AskNext, IInv, Asked

\* What an approval adds: a place that had not approved, and its voucher.
LEMMA ApproveAdds ==
    ASSUME IInv, pc = "asking", Approve
    PROVE  /\ approved' \subseteq Distinct
           /\ vouched \subseteq vouched' /\ IsFiniteSet(vouched') /\ vouched' \subseteq STRING \X Nat
           /\ \A i \in approved' : <<Listed[i], payload>> \in vouched'
           /\ Cardinality(approved') = Cardinality(approved) + 1
           /\ Cardinality(approved) \in Nat
<1>1. current \in Distinct /\ current \notin approved /\ approved \subseteq Distinct
  BY DEF IInv, Asked
<1>2. Listed[current] \in STRING /\ payload \in Nat
  BY <1>1, Places, CloseAssumption DEF Place, IInv, TypeOK
<1>3. IsFiniteSet(approved) /\ IsFiniteSet(vouched)
  BY <1>1, Places, FS_Subset DEF IInv, Vouched
<1>4. IsFiniteSet(vouched') /\ Cardinality(approved') = Cardinality(approved) + 1
  BY <1>1, <1>3, FS_AddElement DEF Approve
<1>5. QED
  BY <1>1, <1>2, <1>3, <1>4, FS_CardinalityType DEF Approve, IInv, Asked, TypeOK

\* An approval is counted once, and the Mth sends the close.
LEMMA ApproveStep ==
    ASSUME IInv, pc = "asking", Approve,
           UNCHANGED <<chain, late, conn, payload>>, faults' \in Nat
    PROVE  IInv'
<1> USE DEF Running, Calls
<1>1. CASE /\ Cardinality(approved') = M /\ pc' = "closing" /\ PersistStep("closing")
           /\ UNCHANGED <<unasked, current, refusals>>
  <2>1. /\ record' \in Record /\ file' \in Record
        /\ record'.closed => record.closed
        /\ file'.closed => file.closed \/ record.closed
    BY <1>1, StepRecorded DEF Step
  <2>2. TypeOK'
    BY <1>1, <2>1, ApproveAdds, Places DEF IInv, TypeOK
  <2>3. Enough(payload)'
    BY <1>1, ApproveAdds DEF Enough
  <2>4. Vouched'
    BY <2>3, ApproveAdds, EnoughStays DEF IInv, Vouched
  <2>5. Asked' /\ Recorded'
    BY <1>1, <2>1 DEF IInv, Asked, Recorded
  <2>6. QED
    BY <2>2, <2>4, <2>5 DEF IInv
<1>2. CASE /\ Cardinality(approved') < M /\ \E n \in unasked : AskNext(n)
           /\ UNCHANGED <<pc, record, file>>
  <2>1. /\ current' \in Distinct /\ current' \notin unasked'
        /\ unasked' \subseteq unasked
        /\ refusals' \in 0..Retries
    BY <1>2, AskNextTyped
  <2>2. TypeOK'
    BY <1>2, <2>1, ApproveAdds, Places DEF IInv, TypeOK
  <2>3. Asked'
    <3>1. current' \in unasked
      BY <1>2 DEF AskNext
    <3>2. Cardinality(unasked') + Cardinality(approved') + 1 >= M
      BY <1>2, AskNextTyped, ApproveAdds, CloseAssumption DEF IInv, Asked
    <3>3. QED
      BY <1>2, <2>1, <3>1, <3>2, ApproveAdds DEF Approve, IInv, Asked
  <2>4. Vouched'
    BY <1>2, ApproveAdds, EnoughStays DEF IInv, Vouched
  <2>5. Recorded'
    BY <1>2 DEF IInv, Recorded
  <2>6. QED
    BY <2>2, <2>3, <2>4, <2>5 DEF IInv
<1>3. QED
  BY <1>1, <1>2 DEF Approve

\* A notary that fails is replaced, or the attempt is given up.
LEMMA SubstituteStep ==
    ASSUME IInv, pc = "asking", Substitute,
           UNCHANGED <<chain, late, conn, payload>>, faults' \in Nat
    PROVE  IInv'
<1> USE DEF Running, Calls
<1>1. CASE Reserve > 0 /\ (\E n \in unasked : AskNext(n)) /\ UNCHANGED <<pc, record, file>>
  <2>1. /\ current' \in Distinct /\ current' \notin unasked'
        /\ unasked' \subseteq unasked
        /\ refusals' \in 0..Retries
    BY <1>1, AskNextTyped
  <2>2. TypeOK'
    BY <1>1, <2>1, Places DEF Substitute, IInv, TypeOK
  <2>3. Asked'
    <3>1. current' \in unasked
      BY <1>1 DEF AskNext
    <3>2. Cardinality(approved) \in Nat
      BY Places, FS_Subset, FS_CardinalityType DEF IInv, Asked
    <3>3. Cardinality(unasked') + Cardinality(approved) + 1 >= M
      BY <1>1, <3>2, AskNextTyped, CloseAssumption DEF Reserve
    <3>4. QED
      BY <1>1, <2>1, <3>1, <3>3 DEF Substitute, IInv, Asked
  <2>4. Vouched' /\ Recorded'
    BY <1>1, EnoughStays DEF Substitute, IInv, Vouched, Recorded
  <2>5. QED
    BY <2>2, <2>3, <2>4 DEF IInv
<1>2. CASE Transient /\ UNCHANGED <<unasked, current, refusals>>
  <2>1. /\ record' \in Record /\ file' \in Record
        /\ record'.closed => record.closed
        /\ file'.closed => file.closed \/ record.closed
    BY <1>2, StepRecorded DEF Transient, IInv, TypeOK, Record
  <2>2. TypeOK'
    BY <1>2, <2>1 DEF Substitute, Transient, IInv, TypeOK
  <2>3. QED
    BY <1>2, <2>1, <2>2, QuietStep DEF Substitute, Transient
<1>3. QED
  BY <1>1, <1>2 DEF Substitute

\* One answer to request_close_check.
LEMMA CheckStep == IInv /\ Check => IInv'
<1> SUFFICES ASSUME IInv, Check PROVE IInv'
  OBVIOUS
<1> USE DEF Running, Calls, policy
<1>1. faults' \in Nat
  BY DEF Check, Fault, IInv, TypeOK
<1>2. CASE HardStop /\ UNCHANGED <<policy, vouched>>
  <2>1. /\ record' \in Record /\ file' \in Record
        /\ record'.closed => record.closed
        /\ file'.closed => file.closed \/ record.closed
    BY <1>2, StepRecorded DEF HardStop, Step
  <2>2. TypeOK'
    BY <1>1, <1>2, <2>1 DEF Check, HardStop, IInv, TypeOK
  <2>3. QED
    BY <1>2, <2>1, <2>2, QuietStep DEF Check, HardStop
<1>3. ASSUME NEW a, Checked(a) PROVE IInv'
  <2>1. CASE Approve
    BY <1>1, <2>1, ApproveStep DEF Check
  <2>2. CASE Substitute
    BY <1>1, <2>2, SubstituteStep DEF Check
  <2>3. CASE AskAgain
    <3>1. refusals' \in 0..Retries
      BY <2>3, CloseAssumption DEF AskAgain, IInv, TypeOK
    <3>2. TypeOK'
      BY <1>1, <2>3, <3>1 DEF AskAgain, Check, IInv, TypeOK
    <3>3. Asked' /\ Vouched' /\ Recorded'
      BY <2>3, EnoughStays DEF AskAgain, Check, IInv, Asked, Vouched, Recorded
    <3>4. QED
      BY <3>2, <3>3 DEF IInv
  <2>4. CASE HardStop /\ UNCHANGED <<policy, vouched>>
    BY <1>2, <2>4
  <2>5. QED
    BY <1>3, <2>1, <2>2, <2>3, <2>4 DEF Checked
<1>4. CASE HardStop /\ UNCHANGED <<policy, faults, vouched>>
  BY <1>2, <1>4 DEF IInv, TypeOK
<1>5. QED
  BY <1>3, <1>4 DEF Check

\* A close is committed only of a payload whose approvals were given.
LEMMA CommitStep ==
    ASSUME IInv, NEW p, Closable(p), Commit, Enough(p), UNCHANGED vouched
    PROVE  /\ chain' \in [top : Nat, state : {"open", "summary", "closed"}, fees : BOOLEAN]
           /\ chain'.state # "open"
           /\ Enough(chain.top)'
<1>1. chain'.top = chain.top /\ chain'.state # "open" /\ chain.top = p
  BY DEF Closable, Commit, IInv, TypeOK
<1>2. chain' \in [top : Nat, state : {"open", "summary", "closed"}, fees : BOOLEAN]
  BY DEF Commit, IInv, TypeOK
<1>3. Enough(chain.top)'
  BY <1>1 DEF Enough
<1>4. QED
  BY <1>1, <1>2, <1>3

\* The close call.
LEMMA CloseStep == IInv /\ Close => IInv'
<1> SUFFICES ASSUME IInv, Close PROVE IInv'
  OBVIOUS
<1> USE DEF Running, Calls, policy
<1>1. CASE Closable(payload) /\ Commit /\ pc' = "committed" /\ UNCHANGED <<record, file>>
  <2>1. Enough(payload) /\ ~record.closed /\ ~file.closed
    BY <1>1 DEF Close, Closable, IInv, Vouched, Recorded
  <2>2. /\ chain' \in [top : Nat, state : {"open", "summary", "closed"}, fees : BOOLEAN]
        /\ chain'.state # "open"
        /\ Enough(chain.top)'
    BY <1>1, <2>1, CommitStep DEF Close
  <2>3. TypeOK'
    BY <1>1, <2>2 DEF Close, IInv, TypeOK
  <2>4. Asked' /\ Recorded'
    BY <1>1, <2>1, <2>2 DEF Close, IInv, Asked, Recorded
  <2>5. \A q \in late' : Enough(q)'
    BY EnoughStays DEF Close, IInv, Vouched
  <2>6. Vouched'
    BY <1>1, <2>2, <2>5 DEF Close, IInv, Vouched
  <2>7. QED
    BY <2>3, <2>4, <2>6 DEF IInv
<1>2. CASE (Transient \/ HardStop) /\ UNCHANGED chain
  <2>1. /\ record' \in Record /\ file' \in Record
        /\ record'.closed => record.closed
        /\ file'.closed => file.closed \/ record.closed
    BY <1>2, StepRecorded DEF Transient, HardStop, IInv, TypeOK, Record, Step
  <2>2. TypeOK'
    BY <1>2, <2>1 DEF Close, Transient, HardStop, IInv, TypeOK
  <2>3. QED
    BY <1>2, <2>1, <2>2, QuietStep DEF Close, Transient, HardStop
<1>3. QED
  BY <1>1, <1>2 DEF Close

\* Its answer.
LEMMA CommittedStep == IInv /\ Committed => IInv'
<1> SUFFICES ASSUME IInv, Committed PROVE IInv'
  OBVIOUS
<1> USE DEF Running, Calls, policy
<1>1. CASE chain.state = "closed" /\ Finish
  <2>1. record' \in Record /\ file' \in Record
    BY <1>1, EndRecords DEF Finish, Persist, IInv, TypeOK
  <2>2. TypeOK'
    BY <1>1, <2>1 DEF Committed, Finish, IInv, TypeOK
  <2>3. QED
    BY <1>1, <2>2, QuietStep DEF Committed, Finish
<1>2. CASE Transient
  <2>1. /\ record' \in Record /\ file' \in Record
        /\ record'.closed => record.closed
        /\ file'.closed => file.closed \/ record.closed
    BY <1>2, StepRecorded DEF Transient, IInv, TypeOK, Record
  <2>2. TypeOK'
    BY <1>2, <2>1 DEF Committed, Transient, IInv, TypeOK
  <2>3. QED
    BY <1>2, <2>1, <2>2, QuietStep DEF Committed, Transient
<1>3. QED
  BY <1>1, <1>2 DEF Committed

\* A close that runs after its service has given up on it.
LEMMA LateCloseStep ==
    ASSUME IInv, NEW p \in late, LateClose(p)
    PROVE  IInv'
<1> USE DEF Running, Calls, policy
<1>1. CASE Closable(p) /\ Commit
  <2>1. Enough(p) /\ ~record.closed /\ ~file.closed /\ pc # "done"
    BY <1>1 DEF Closable, IInv, Vouched, Recorded
  <2>2. /\ chain' \in [top : Nat, state : {"open", "summary", "closed"}, fees : BOOLEAN]
        /\ chain'.state # "open"
        /\ Enough(chain.top)'
    BY <1>1, <2>1, CommitStep DEF LateClose
  <2>3. TypeOK'
    BY <2>2 DEF LateClose, IInv, TypeOK
  <2>4. Asked' /\ Recorded'
    BY <2>1, <2>2 DEF LateClose, IInv, Asked, Recorded
  <2>5. /\ \A q \in late' : Enough(q)'
        /\ pc' = "closing" => Enough(payload)'
    BY DEF LateClose, IInv, Vouched, Enough
  <2>6. Vouched'
    BY <2>2, <2>5 DEF LateClose, IInv, Vouched
  <2>7. QED
    BY <2>3, <2>4, <2>6 DEF IInv
<1>2. CASE UNCHANGED chain
  <2>1. TypeOK'
    BY <1>2 DEF LateClose, IInv, TypeOK
  <2>2. Asked' /\ Vouched' /\ Recorded'
    BY <1>2, EnoughStays DEF LateClose, IInv, Asked, Vouched, Recorded
  <2>3. QED
    BY <2>1, <2>2 DEF IInv
<1>3. QED
  BY <1>1, <1>2 DEF LateClose

\* What goes wrong, and the agent's other actions.
LEMMA EnvironmentStep ==
    ASSUME IInv, CallFails \/ Disconnect \/ Crash \/ Reboot \/ Move
    PROVE  IInv'
<1> USE DEF Running, Calls, policy
<1>1. CASE CallFails
  <2>1. /\ record' \in Record /\ file' \in Record
        /\ record'.closed => record.closed
        /\ file'.closed => file.closed \/ record.closed
    BY <1>1, StepRecorded DEF CallFails, Transient, IInv, TypeOK, Record
  <2>2. faults' \in Nat
    BY <1>1 DEF CallFails, Fault, IInv, TypeOK
  <2>3. TypeOK'
    BY <1>1, <2>1, <2>2 DEF CallFails, Transient, Abandoned, IInv, TypeOK
  <2>4. QED
    BY <1>1, <2>1, <2>3, QuietStep DEF CallFails, Transient, Abandoned
<1>2. CASE Crash \/ Reboot
  <2>1. faults' \in Nat
    BY <1>2 DEF Crash, Reboot, Fault, IInv, TypeOK
  <2>2. TypeOK'
    BY <1>2, <2>1 DEF Crash, Reboot, Abandoned, IInv, TypeOK
  <2>3. QED
    BY <1>2, <2>2, QuietStep DEF Crash, Reboot, Abandoned
<1>3. CASE Disconnect
  <2>1. faults' \in Nat
    BY <1>3 DEF Disconnect, Fault, IInv, TypeOK
  <2>2. TypeOK'
    BY <1>3, <2>1 DEF Disconnect, IInv, TypeOK
  <2>3. Asked' /\ Vouched' /\ Recorded'
    BY <1>3, EnoughStays DEF Disconnect, IInv, Asked, Vouched, Recorded
  <2>4. QED
    BY <2>2, <2>3 DEF IInv
<1>4. CASE Move
  <2>1. chain.top + 1 \in Nat
    BY DEF IInv, TypeOK
  <2>2. PICK owed \in BOOLEAN : chain' = [chain EXCEPT !.top = chain.top + 1, !.fees = owed]
    BY <1>4 DEF Move
  <2>3. /\ chain' \in [top : Nat, state : {"open", "summary", "closed"}, fees : BOOLEAN]
        /\ chain'.state = "open" /\ chain.state = "open"
    BY <1>4, <2>1, <2>2 DEF Move, IInv, TypeOK
  <2>4. TypeOK'
    BY <1>4, <2>3 DEF Move, IInv, TypeOK
  <2>5. Asked' /\ Vouched' /\ Recorded'
    BY <1>4, <2>3, EnoughStays DEF Move, IInv, Asked, Vouched, Recorded
  <2>6. QED
    BY <2>4, <2>5 DEF IInv
<1>5. QED
  BY <1>1, <1>2, <1>3, <1>4

\* The inductive invariant holds of every behaviour.
THEOREM Invariance == Spec => []IInv
<1>1. IInv /\ [Next]_vars => IInv'
  <2> SUFFICES ASSUME IInv, [Next]_vars PROVE IInv'
    OBVIOUS
  <2>1. CASE UNCHANGED vars
    <3>1. TypeOK' /\ Asked'
      BY <2>1 DEF vars, policy, IInv, TypeOK, Asked
    <3>2. Vouched' /\ Recorded'
      BY <2>1, EnoughStays DEF vars, policy, IInv, Vouched, Recorded
    <3>3. QED
      BY <3>1, <3>2 DEF IInv
  <2>2. CASE Service
    BY <2>2, RunStep, DropFeesStep, PrepareStep, CheckStep, CloseStep, CommittedStep DEF Service
  <2>3. CASE \E p \in late : LateClose(p)
    BY <2>3, LateCloseStep
  <2>4. CASE CallFails \/ Disconnect \/ Crash \/ Reboot \/ Move
    BY <2>4, EnvironmentStep
  <2>5. QED
    BY <2>1, <2>2, <2>3, <2>4 DEF Next, Idle
<1>2. QED
  BY <1>1, InitIInv, PTL DEF Spec

\* Every reachable state is well typed.
THEOREM TypeCorrect == Spec => []TypeOK
<1>1. IInv => TypeOK
  BY DEF IInv
<1>2. QED
  BY <1>1, Invariance, PTL

\* Exit 0 and a file that says closed are only seen of a closed chain.
THEOREM ClosedTheorem == Spec => []ClosedIsTrue
<1>1. IInv => ClosedIsTrue
  BY DEF IInv, Recorded, ClosedIsTrue
<1>2. QED
  BY <1>1, Invariance, PTL

\* M notaries with different keys approved the payload that was committed,
\* through any number of crashes, lost answers and abandoned calls.
THEOREM ApprovedTheorem == Spec => []CommittedWasApproved
<1>1. IInv => CommittedWasApproved
  BY EnoughApprovers DEF IInv, Vouched, CommittedWasApproved
<1>2. QED
  BY <1>1, Invariance, PTL

\* While it asks, an attempt can still reach M.
THEOREM SlotsTheorem == Spec => []SlotsCanReachM
<1>1. IInv => SlotsCanReachM
  <2> SUFFICES ASSUME IInv, pc = "asking" PROVE SlotsCanReachM
    BY DEF SlotsCanReachM
  <2>1. Cardinality(unasked) \in Nat /\ Cardinality(approved) \in Nat
    BY Places, FS_Subset, FS_CardinalityType DEF IInv, Asked
  <2>2. Reserve >= 0
    BY <2>1, CloseAssumption DEF Reserve, IInv, Asked
  <2>3. QED
    BY <2>2 DEF SlotsCanReachM, IInv, Asked
<1>2. QED
  BY <1>1, Invariance, PTL
\* The only way from asking to a backoff is Exhausted: the reserve is spent.
LEMMA BackoffIsExhausted ==
    ASSUME IInv, Next, pc = "asking", pc' = "backoff"
    PROVE  Reserve = 0
<1>1. Check
  BY DEF Next, Service, Retry, Restart, Probe, ReadLedger, DropFees, Prepare, Close,
     Committed, ConnectionLost, HardStop, PersistStep, LateClose, CallFails, Disconnect,
     Crash, Reboot, Move, Idle, vars
<1>2. ~HardStop
  BY DEF HardStop
<1>3. PICK a : Checked(a)
  BY <1>1, <1>2 DEF Check
<1>4. ~AskAgain /\ ~Approve
  BY DEF AskAgain, Approve
<1>5. Substitute
  BY <1>2, <1>3, <1>4 DEF Checked
<1>6. QED
  BY <1>5 DEF Substitute

\* An attempt gives up only when even all the notaries not asked would not make up
\* M (PolicyError::Exhausted of policy.rs), whichever of them failed before.
THEOREM GivesUpTheorem == Spec => GivesUpOnlyWhenShort
<1>1. ASSUME IInv, Next, pc = "asking", pc' = "backoff"
      PROVE  Cardinality(approved \cup unasked) < M
  <2>1. IsFiniteSet(approved) /\ IsFiniteSet(unasked) /\ approved \cap unasked = {}
    BY <1>1, Places, FS_Subset DEF IInv, Asked
  <2>2. Cardinality(approved) \in Nat /\ Cardinality(unasked) \in Nat /\ M \in Nat
    BY <2>1, FS_CardinalityType, CloseAssumption
  <2>3. Cardinality(approved \cup unasked) = Cardinality(approved) + Cardinality(unasked)
    <3>1. Cardinality(approved \cap unasked) = 0
      BY <2>1, FS_EmptySet
    <3>2. Cardinality(approved \cup unasked)
            = Cardinality(approved) + Cardinality(unasked) - Cardinality(approved \cap unasked)
      BY <2>1, FS_Union, Zenon
    <3>3. QED
      BY <2>2, <3>1, <3>2
  <2>4. Reserve = 0
    BY <1>1, BackoffIsExhausted
  <2>5. QED
    BY <2>2, <2>3, <2>4 DEF Reserve
<1>2. IInv /\ [Next]_vars =>
        [pc = "asking" /\ pc' = "backoff" => Cardinality(approved \cup unasked) < M]_vars
  BY <1>1
<1>3. QED
  BY <1>2, Invariance, PTL DEF Spec, GivesUpOnlyWhenShort

-----------------------------------------------------------------------------
(* An attempt left alone. *)

Honest == {n \in Distinct : Listed[n] \notin Faulty}

\* M honest notaries, and neither a refusal that no retry lifts nor a wrong
\* configuration: what Workable asks of the notaries.
Approvable ==
    /\ ~Misconfigured /\ HardFaults = {}
    /\ "warranted" \notin Verdicts
    /\ Cardinality(Honest) >= M

\* The chain is still open with top t, and no fault has come after the first f.
Undisturbed(t, f) == chain.state = "open" /\ chain.top = t /\ faults = f

\* An attempt that prepared the chain's present top; no honest notary is used up but
\* by its approval.
OnCourse ==
    /\ conn
    /\ \/ pc = "preparing"
       \/ pc = "asking" /\ payload = chain.top /\ Honest \subseteq approved \cup unasked \cup {current}
       \/ pc = "closing" /\ payload = chain.top

\* What was disturbed once is for good.
Course(t, f) ==
    \/ chain.state # "open" \/ chain.top > t \/ faults > f
    \/ Undisturbed(t, f) /\ OnCourse

\* Without an honest notary among the failed there is one left to ask.
LEMMA ReserveLeft ==
    ASSUME IInv, Approvable, pc = "asking", current \notin Honest,
           Honest \subseteq approved \cup unasked \cup {current}
    PROVE  Reserve > 0
<1>1. IsFiniteSet(approved) /\ IsFiniteSet(unasked) /\ approved \cap unasked = {}
  BY Places, FS_Subset DEF IInv, Asked
<1>2. Cardinality(approved) \in Nat /\ Cardinality(unasked) \in Nat /\ M \in Nat
  BY <1>1, FS_CardinalityType, CloseAssumption
<1>3. Cardinality(approved \cup unasked) = Cardinality(approved) + Cardinality(unasked)
  <2>1. Cardinality(approved \cap unasked) = 0
    BY <1>1, FS_EmptySet
  <2>2. Cardinality(approved \cup unasked)
          = Cardinality(approved) + Cardinality(unasked) - Cardinality(approved \cap unasked)
    BY <1>1, FS_Union, Zenon
  <2>3. QED
    BY <1>2, <2>1, <2>2
<1>4. IsFiniteSet(approved \cup unasked)
  BY <1>1, FS_Union, Zenon
<1>5. Honest \subseteq approved \cup unasked
  OBVIOUS
<1>6. Cardinality(Honest) <= Cardinality(approved \cup unasked) /\ Cardinality(Honest) \in Nat
  BY <1>4, <1>5, FS_Subset, FS_CardinalityType
<1>7. QED
  BY <1>2, <1>3, <1>6 DEF Approvable, Reserve

\* One answer: the honest approve, the others are replaced.
LEMMA CheckOnCourse ==
    ASSUME IInv, Approvable, NEW t \in Nat, NEW f \in Nat, Undisturbed(t, f), OnCourse, Check
    PROVE  Course(t, f)'
<1>1. /\ pc = "asking" /\ conn /\ payload = chain.top
      /\ Honest \subseteq approved \cup unasked \cup {current}
      /\ UNCHANGED <<chain, conn, payload>>
  BY DEF Check, OnCourse
<1>2. current \in Distinct /\ faults \in Nat
  BY <1>1 DEF IInv, TypeOK, Asked
<1>3. CASE Fault
  BY <1>2, <1>3 DEF Fault, Undisturbed, Course
<1>4. ASSUME faults' = faults, pc' = "closing" PROVE Course(t, f)'
  BY <1>1, <1>4 DEF Undisturbed, OnCourse, Course
<1>5. ASSUME faults' = faults, pc' = pc,
             Honest \subseteq approved' \cup unasked' \cup {current'}
      PROVE  Course(t, f)'
  BY <1>1, <1>5 DEF Undisturbed, OnCourse, Course
<1>6. CASE Approve /\ faults' = faults
  <2>1. CASE pc' = "closing"
    BY <1>4, <1>6, <2>1
  <2>2. ASSUME NEW n \in unasked, AskNext(n), pc' = pc PROVE Course(t, f)'
    <3>1. approved' = approved \cup {current} /\ current' = n /\ unasked' = unasked \ {n}
      BY <1>6, <2>2 DEF Approve, AskNext
    <3>2. Honest \subseteq approved' \cup unasked' \cup {current'}
      BY <1>1, <3>1
    <3>3. QED
      BY <1>5, <1>6, <2>2, <3>2
  <2>3. QED
    BY <1>6, <2>1, <2>2 DEF Approve
<1>7. CASE AskAgain /\ faults' = faults
  <2>1. UNCHANGED <<approved, unasked, current, pc>>
    BY <1>7 DEF AskAgain
  <2>2. QED
    BY <1>1, <1>5, <1>7, <2>1
<1>8. CASE Substitute /\ faults' = faults /\ current \notin Honest
  <2>1. Reserve > 0
    BY <1>1, <1>8, ReserveLeft
  <2>2. PICK n \in unasked : AskNext(n) /\ pc' = pc /\ approved' = approved
    <3>1. Reserve # 0
      BY <2>1
    <3>2. QED
      BY <1>8, <3>1 DEF Substitute
  <2>3. current' = n /\ unasked' = unasked \ {n}
    BY <2>2 DEF AskNext
  <2>4. Honest \subseteq approved' \cup unasked' \cup {current'}
    BY <1>1, <1>8, <2>2, <2>3
  <2>5. QED
    BY <1>5, <1>8, <2>2, <2>4
<1>9. ASSUME NEW a \in Answers(current), Checked(a), faults' = faults PROVE Course(t, f)'
  <2>1. a # "warranted"
    BY <1>9 DEF Answers, Approvable
  <2>2. current \in Honest => a = "approved"
    BY <1>1, <1>9 DEF Answers, Honest, Undisturbed
  <2>3. a = "approved" => Approve
    BY <1>9 DEF Checked, Refused
  <2>4. a # "approved" => AskAgain \/ Substitute
    BY <1>9, <2>1 DEF Checked
  <2>5. QED
    BY <1>6, <1>7, <1>8, <1>9, <2>2, <2>3, <2>4
<1>10. "decode" \notin HardFaults
  BY DEF Approvable
<1>11. QED
  BY <1>3, <1>9, <1>10 DEF Check

LEMMA CourseNext ==
    ASSUME IInv, Approvable, NEW t \in Nat, NEW f \in Nat, Course(t, f), [Next]_vars
    PROVE  Course(t, f)'
<1>1. chain.top \in Nat /\ faults \in Nat
  BY DEF IInv, TypeOK
<1>2. CASE chain.state # "open" \/ chain.top > t \/ faults > f
  <2>1. /\ faults' \in {faults, faults + 1}
        /\ chain'.top \in {chain.top, chain.top + 1}
        /\ chain.state # "open" => chain'.state # "open"
    <3>1. chain \in [top : Nat, state : {"open", "summary", "closed"}, fees : BOOLEAN]
      BY DEF IInv, TypeOK
    <3>2. CASE Retry \/ Restart \/ Probe \/ ReadLedger \/ Prepare \/ Check \/ Committed \/ ConnectionLost
      BY <3>2 DEF Retry, Restart, Probe, ReadLedger, Prepare, Check, Committed,
         ConnectionLost, Fault
    <3>3. CASE CallFails \/ Disconnect \/ Crash \/ Reboot \/ UNCHANGED vars
      BY <3>3 DEF CallFails, Disconnect, Crash, Reboot, Fault, vars
    <3>4. CASE DropFees
      BY <3>1, <3>4 DEF DropFees, Fault
    <3>5. Commit => chain'.top = chain.top /\ chain'.state # "open"
      BY <3>1 DEF Commit
    <3>6. CASE Close
      BY <3>5, <3>6 DEF Close
    <3>7. ASSUME NEW p \in late, LateClose(p)
          PROVE  /\ faults' = faults /\ chain'.top = chain.top
                 /\ chain.state # "open" => chain'.state # "open"
      BY <3>5, <3>7 DEF LateClose
    <3>8. CASE Move
      BY <3>1, <3>8 DEF Move
    <3>9. \/ Retry \/ Restart \/ Probe \/ ReadLedger \/ Prepare \/ Check \/ Committed \/ ConnectionLost
          \/ CallFails \/ Disconnect \/ Crash \/ Reboot \/ UNCHANGED vars
          \/ DropFees \/ Close \/ (\E p \in late : LateClose(p)) \/ Move
      BY DEF Next, Service, Idle
    <3>10. QED
      BY <1>1, <3>2, <3>3, <3>4, <3>6, <3>7, <3>8, <3>9
  <2>2. QED
    BY <1>1, <1>2, <2>1 DEF Course
<1>3. CASE Undisturbed(t, f) /\ OnCourse
  <2>1. pc \in {"preparing", "asking", "closing"} /\ conn
    BY <1>3 DEF OnCourse
  <2>2. CASE Check
    BY <1>3, <2>2, CheckOnCourse
  <2>3. CASE Prepare
    <3>1. ~(HardFaults # {} \/ Misconfigured) /\ chain.state = "open"
      BY <1>3 DEF Approvable, Undisturbed
    <3>2. PICK n \in Distinct : current' = n /\ unasked' = Distinct \ {n}
      BY <2>3, <3>1 DEF Prepare
    <3>3. pc' = "asking" /\ payload' = chain.top /\ UNCHANGED <<chain, conn, faults>>
      BY <2>3, <3>1 DEF Prepare
    <3>4. Honest \subseteq approved' \cup unasked' \cup {current'}
      BY <3>2 DEF Honest
    <3>5. QED
      BY <1>3, <2>1, <3>3, <3>4 DEF Course, Undisturbed, OnCourse
  <2>4. CASE Close
    <3>1. Closable(payload) /\ "target" \notin HardFaults
      BY <1>3, <2>4 DEF Close, Closable, Undisturbed, OnCourse, Approvable
    <3>2. Commit
      BY <2>4, <3>1 DEF Close
    <3>3. chain'.state # "open"
      BY <3>2 DEF Commit, IInv, TypeOK
    <3>4. QED
      BY <3>3 DEF Course
  <2>5. CASE Fault
    BY <1>1, <1>3, <2>5 DEF Fault, Undisturbed, Course
  <2>6. CASE Move
    <3>1. chain'.top = chain.top + 1
      BY <2>6 DEF Move, IInv, TypeOK
    <3>2. QED
      BY <1>1, <1>3, <3>1 DEF Undisturbed, Course
  <2>7. ASSUME NEW p \in late, LateClose(p) PROVE Course(t, f)'
    <3>1. UNCHANGED <<conn, pc, payload, approved, unasked, current, faults>>
      BY <2>7 DEF LateClose, policy
    <3>2. CASE chain' = chain
      BY <1>3, <3>1, <3>2 DEF Course, Undisturbed, OnCourse
    <3>3. CASE Commit
      <4>1. chain'.state # "open"
        BY <3>3 DEF Commit, IInv, TypeOK
      <4>2. QED
        BY <4>1 DEF Course
    <3>4. QED
      BY <2>7, <3>2, <3>3 DEF LateClose
  <2>8. CASE UNCHANGED vars
    BY <1>3, <2>8 DEF vars, policy, Course, Undisturbed, OnCourse
  <2>9. \/ Check \/ Prepare \/ Close \/ Fault \/ Move \/ UNCHANGED vars
        \/ \E p \in late : LateClose(p)
    BY <2>1 DEF Next, Service, Retry, Restart, Probe, ReadLedger, DropFees, Committed,
       ConnectionLost, CallFails, Disconnect, Crash, Reboot, Idle
  <2>10. QED
    BY <2>2, <2>3, <2>4, <2>5, <2>6, <2>7, <2>8, <2>9
<1>4. QED
  BY <1>2, <1>3 DEF Course

\* With M honest notaries an attempt that prepares is not given up: while no call fails
\* and nothing moves the chain, it is on its way to the close, whatever the others
\* answer and in whichever order they are asked; the safety half of EndsAttestable, of
\* one attempt (the substitution of collect_approvals).
THEOREM AttemptTheorem ==
    Approvable =>
        (Spec => \A t \in Nat, f \in Nat :
            [](pc = "preparing" /\ conn /\ Undisturbed(t, f)
                 => [](Undisturbed(t, f)
                         => conn /\ pc \in {"preparing", "asking", "closing"})))
<1> SUFFICES ASSUME Approvable, NEW t \in Nat, NEW f \in Nat
             PROVE  Spec => [](pc = "preparing" /\ conn /\ Undisturbed(t, f)
                                => [](Undisturbed(t, f)
                                        => conn /\ pc \in {"preparing", "asking", "closing"}))
  OBVIOUS
<1>1. pc = "preparing" /\ conn /\ Undisturbed(t, f) => Course(t, f)
  BY DEF Course, OnCourse
<1>2. IInv /\ Course(t, f) /\ [Next]_vars => Course(t, f)'
  BY CourseNext
<1>3. Course(t, f) => (Undisturbed(t, f) => conn /\ pc \in {"preparing", "asking", "closing"})
  BY DEF Course, Undisturbed, OnCourse
<1>4. QED
  BY <1>1, <1>2, <1>3, Invariance, PTL DEF Spec
=============================================================================
