------------------------- MODULE MigrateRouter_proofs -------------------------
(***************************************************************************)
(* What MigrateRouter guarantees for every registry, fleet and request.     *)
(***************************************************************************)
EXTENDS FetchPackage, FiniteSetTheorems, TLAPS

\* A daemon of s answers an answer, and is a daemon.
LEMMA AnswersAreTyped ==
    ASSUME NEW s \in Registered, NEW d \in Notaries[s]
    PROVE  d \in Daemon /\ Answers(s, d) \subseteq DaemonAnswer
<1>1. d \in Daemon
  BY RegistryAssumption DEF Daemon
<1>2. HonestAnswers(s, d) \subseteq DaemonAnswer
  <2>1. {Reply(k) : k \in HonestReplies[d]} \subseteq DaemonAnswer
    BY <1>1, DaemonAssumption DEF DaemonAnswer
  <2>2. Reply("no_close_found") \in DaemonAnswer
    BY DEF DaemonAnswer, ReplyKind, ErrorCode
  <2>3. TrueClose[s] # NoPackage => Attestation(TrueClose[s], KeyOf[d]) \in DaemonAnswer
    BY <1>1, DaemonAssumption DEF DaemonAnswer
  <2>4. QED
    BY <2>1, <2>2, <2>3 DEF HonestAnswers
<1>3. QED
  BY <1>1, <1>2, DaemonAssumption DEF Answers

\* An answer's fields, by its kind.
LEMMA AnswerFields ==
    ASSUME NEW a \in DaemonAnswer
    PROVE  /\ a.kind \in ReplyKind \cup {"attestation"}
           /\ a.signer \in Key
           /\ a.kind = "attestation" => a.package \in Package
<1>1. CASE \E k \in ReplyKind : a = Reply(k)
  BY <1>1, DaemonAssumption DEF Reply, ReplyKind, ErrorCode
<1>2. CASE \E p \in Package, k \in Key : a = Attestation(p, k)
  BY <1>2 DEF Attestation
<1>3. QED
  BY <1>1, <1>2 DEF DaemonAnswer

\* The steps of the system.
LEMMA StepCases ==
    ASSUME Next
    PROVE  \/ Migrate
           \/ \E s \in Registered : \E d \in flying[s] :
                \/ LateAnswer(s, d)
                \/ \E a \in Answers(s, d) : \/ StoppingAnswer(s, d, a)
                                            \/ AbandoningAnswer(s, d, a)
                                            \/ UncountedAnswer(s, d, a)
                                            \/ CountedAnswer(s, d, a)
           \/ UNCHANGED vars
  BY DEF Next, Answer, Done

-----------------------------------------------------------------------------
(***************************************************************************)
(* The inductive invariant.  A source is not started, being asked, or       *)
(* settled; its signatures come one to one from keys and daemons that have  *)
(* answered, all over the package that was fixed first.                     *)
(***************************************************************************)
Progress ==
    /\ source = NoDna => settled = {}
    /\ source # NoDna => (source \in settled <=> response # "none")
    /\ source \in Candidates \cup {NoDna}
    /\ settled \subseteq Candidates

Unstarted ==
    \A s \in Registered \ settled : source # s =>
        asked[s] = {} /\ flying[s] = {} /\ signatures[s] = {} /\ fixed[s] = NoPackage

Asking ==
    \A s \in Registered : /\ flying[s] \subseteq asked[s]
                          /\ asked[s] \subseteq Notaries[s]

Fixed ==
    \A s \in Registered :
        fixed[s] = NoPackage \/ fixed[s] \in [source : {s}, agent : {Agent},
                                              target : {request.to}, action : Action]

Signed ==
    \A s \in Registered : \A p \in signatures[s] :
        /\ p[1] # Agent
        /\ p[2] \in asked[s] \ flying[s]
        /\ fixed[s] # NoPackage
        /\ p[2] \notin Faulty => fixed[s] = TrueClose[s]
        /\ \A q \in signatures[s] : (p[1] = q[1] \/ p[2] = q[2]) => p = q

Full == response = "package" =>
            source # NoDna /\ Cardinality(signatures[source]) >= Threshold[source]

IInv == TypeOK /\ Progress /\ Unstarted /\ Asking /\ Fixed /\ Signed /\ Full

LEMMA InitInv == Init => IInv
  BY RegistryAssumption, DaemonAssumption
  DEF Init, IInv, TypeOK, Progress, Unstarted, Asking, Fixed, Signed, Full, Answered, Candidates

\* A daemon in flight for an unsettled source is one of the source being asked.
LEMMA AskedSource ==
    ASSUME IInv, NEW s \in Registered, NEW d \in flying[s], s \notin settled
    PROVE  /\ source = s /\ response = "none"
           /\ s \in Candidates
           /\ d \in asked[s] /\ d \in Notaries[s] /\ d \in Daemon
<1>1. source = s
  BY DEF IInv, Unstarted
<1>2. d \in asked[s] /\ d \in Notaries[s]
  BY DEF IInv, Asking
<1>3. d \in Daemon
  BY <1>2, AnswersAreTyped
<1>4. s \in Candidates /\ response = "none"
  BY <1>1, RegistryAssumption DEF IInv, Progress, TypeOK
<1>5. QED
  BY <1>1, <1>2, <1>3, <1>4

-----------------------------------------------------------------------------
(***************************************************************************)
(* The three ways an answer moves the request: the source goes on, with     *)
(* none or one more daemon asked; it settles and the request is answered;   *)
(* it settles and the next source begins.                                   *)
(***************************************************************************)
Stays(s, d) ==
    /\ UNCHANGED <<source, settled, response>>
    /\ \E E \in SUBSET (Notaries[s] \ asked[s]) :
          /\ asked' = [asked EXCEPT ![s] = @ \cup E]
          /\ flying' = [flying EXCEPT ![s] = (@ \ {d}) \cup E]

Ends(s, d) ==
    /\ UNCHANGED <<source, asked>>
    /\ settled' = settled \cup {s}
    /\ response' \in Answered \ {"none"}
    /\ flying' = Landed(s, d)

Advances(s, d) ==
    /\ UNCHANGED response
    /\ settled' = settled \cup {s}
    /\ \E t \in Candidates \ settled' : \E D \in SUBSET Notaries[t] :
          /\ source' = t
          /\ asked' = [asked EXCEPT ![t] = D]
          /\ flying' = [Landed(s, d) EXCEPT ![t] = D]

Moves(s, d) == Stays(s, d) \/ Ends(s, d) \/ Advances(s, d)

LEMMA NextSourceMoves ==
    ASSUME NEW s \in Registered, NEW d, NEW flags \in SUBSET Flag,
           NextSource(s, d, flags)
    PROVE  /\ Ends(s, d) \/ Advances(s, d)
           /\ tally' = flags
           /\ response' = response \/ response' # "package"
<1>1. CASE Candidates \subseteq settled' /\ UNCHANGED <<source, asked>>
           /\ response' = ShortResponse(flags) /\ flying' = Landed(s, d)
  BY <1>1 DEF NextSource, Ends, ShortResponse, Answered
<1>2. CASE (\E t \in Registered : IsNext(t, settled') /\ Begin(t, Landed(s, d)))
           /\ UNCHANGED response
  BY <1>2 DEF NextSource, Advances, IsNext, Begin, Openings
<1>3. QED
  BY <1>1, <1>2 DEF NextSource

LEMMA SettleIfIdleMoves ==
    ASSUME TypeOK, NEW s \in Registered, NEW d \in flying[s], NEW sigs,
           NEW flags \in SUBSET Flag, SettleIfIdle(s, d, sigs, flags)
    PROVE  /\ Moves(s, d) /\ tally' \subseteq Flag
           /\ response' = response \/ response' # "package"
<1> DEFINE more == flags \cup (IF sigs = {} THEN {} ELSE {"unableToVerify"})
<1>1. CASE NextSource(s, d, more)
  <2>1. more \in SUBSET Flag
    BY DEF Flag
  <2>2. QED
    BY <1>1, <2>1, NextSourceMoves DEF Moves
<1>2. CASE /\ flying' = Landed(s, d)
           /\ tally' = flags
           /\ UNCHANGED <<source, settled, asked, response>>
  <2>1. asked' = [asked EXCEPT ![s] = @ \cup {}] /\ flying' = [flying EXCEPT ![s] = (@ \ {d}) \cup {}]
    BY <1>2 DEF TypeOK, Landed
  <2>2. QED
    BY <1>2, <2>1 DEF Moves, Stays
<1>3. QED
  BY <1>1, <1>2 DEF SettleIfIdle

LEMMA AskMoves ==
    ASSUME TypeOK, NEW s \in Registered, NEW d \in flying[s],
           NEW flags \in SUBSET Flag, Ask(s, d, flags)
    PROVE  /\ Moves(s, d) /\ tally' \subseteq Flag
           /\ response' = response \/ response' # "package"
<1>1. CASE SettleIfIdle(s, d, signatures[s], flags)
  BY <1>1, SettleIfIdleMoves
<1>2. ASSUME NEW e \in Notaries[s] \ asked[s],
             asked' = [asked EXCEPT ![s] = @ \cup {e}],
             flying' = [flying EXCEPT ![s] = (@ \ {d}) \cup {e}],
             tally' = flags,
             UNCHANGED <<source, settled, response>>
      PROVE  /\ Moves(s, d) /\ tally' \subseteq Flag
             /\ response' = response \/ response' # "package"
  BY <1>2 DEF Moves, Stays
<1>3. QED
  BY <1>1, <1>2 DEF Ask

\* A move keeps the control part of the invariant.
LEMMA MovesKeepControl ==
    ASSUME IInv, NEW s \in Registered, NEW d \in flying[s], s \notin settled,
           Moves(s, d), UNCHANGED request,
           \A x \in Registered \ {s} : signatures'[x] = signatures[x] /\ fixed'[x] = fixed[x]
    PROVE  /\ source' \in Registered \cup {NoDna}
           /\ settled' \subseteq Registered
           /\ asked' \in [Registered -> SUBSET Daemon]
           /\ flying' \in [Registered -> SUBSET Daemon]
           /\ response' \in Answered
           /\ Progress' /\ Unstarted' /\ Asking'
<1>0. /\ source = s /\ response = "none" /\ s \in Candidates
      /\ d \in asked[s] /\ d \in Notaries[s]
  BY AskedSource
<1>a. Candidates' = Candidates /\ Candidates \subseteq Registered /\ NoDna \notin Registered
  BY RegistryAssumption DEF Candidates
<1>b. \A x \in Registered : Notaries[x] \subseteq Daemon
  BY RegistryAssumption DEF Daemon
<1>1. CASE Stays(s, d)
  BY <1>0, <1>1, <1>a, <1>b DEF Stays, IInv, TypeOK, Progress, Unstarted, Asking
<1>2. CASE Ends(s, d)
  BY <1>0, <1>2, <1>a, <1>b DEF Ends, Landed, IInv, TypeOK, Progress, Unstarted, Asking
<1>3. CASE Advances(s, d)
  <2>0. PICK t \in Candidates \ settled' : \E D \in SUBSET Notaries[t] :
           /\ source' = t
           /\ asked' = [asked EXCEPT ![t] = D]
           /\ flying' = [Landed(s, d) EXCEPT ![t] = D]
    BY <1>3 DEF Advances
  <2>1. PICK D \in SUBSET Notaries[t] :
           /\ source' = t
           /\ asked' = [asked EXCEPT ![t] = D]
           /\ flying' = [Landed(s, d) EXCEPT ![t] = D]
    BY <2>0
  <2>2. t # s /\ settled' = settled \cup {s} /\ response' = response
    BY <1>3 DEF Advances
  <2>3. /\ asked' \in [Registered -> SUBSET Daemon]
        /\ flying' \in [Registered -> SUBSET Daemon]
        /\ asked'[t] = D /\ flying'[t] = D
        /\ flying'[s] = flying[s] \ {d}
        /\ \A x \in Registered \ {t} : asked'[x] = asked[x]
        /\ \A x \in Registered \ {s, t} : flying'[x] = flying[x]
    BY <2>1, <2>2, <1>a, <1>b DEF IInv, TypeOK, Landed
  <2>4. Asking'
    BY <2>1, <2>2, <2>3 DEF Asking, IInv
  <2>5. Unstarted'
    BY <1>0, <2>1, <2>2, <2>3 DEF Unstarted, IInv
  <2>6. Progress'
    BY <1>0, <1>a, <2>1, <2>2 DEF Progress, IInv
  <2>7. QED
    BY <1>a, <2>1, <2>2, <2>3, <2>4, <2>5, <2>6 DEF IInv, TypeOK
<1>4. QED
  BY <1>1, <1>2, <1>3 DEF Moves

\* A move leaves the answered daemons answered, and d is one of them.
LEMMA MovesKeepAnswered ==
    ASSUME IInv, NEW s \in Registered, NEW d \in flying[s], s \notin settled, Moves(s, d)
    PROVE  /\ d \in asked'[s] \ flying'[s]
           /\ \A x \in Registered : signatures[x] # {} =>
                 (asked[x] \ flying[x]) \subseteq (asked'[x] \ flying'[x])
<1>0. /\ source = s /\ s \in Candidates /\ d \in asked[s]
      /\ \A t \in Candidates \ (settled \cup {s}) : signatures[t] = {}
  BY AskedSource DEF IInv, Unstarted, Candidates
<1>1. CASE Stays(s, d)
  BY <1>0, <1>1 DEF Stays, IInv, TypeOK
<1>2. CASE Ends(s, d)
  BY <1>0, <1>2 DEF Ends, Landed, IInv, TypeOK
<1>3. CASE Advances(s, d)
  <2>0. PICK t \in Candidates \ (settled \cup {s}) : \E D \in SUBSET Notaries[t] :
           /\ asked' = [asked EXCEPT ![t] = D]
           /\ flying' = [Landed(s, d) EXCEPT ![t] = D]
    BY <1>3 DEF Advances
  <2>1. PICK D \in SUBSET Notaries[t] :
           /\ asked' = [asked EXCEPT ![t] = D]
           /\ flying' = [Landed(s, d) EXCEPT ![t] = D]
    BY <2>0
  <2>2. t # s /\ t \in Registered
    BY DEF Candidates
  <2>3. QED
    BY <1>0, <2>1, <2>2 DEF Landed, IInv, TypeOK
<1>4. QED
  BY <1>1, <1>2, <1>3 DEF Moves

\* What a judged answer does to the signatures and the package keeps their part
\* of the invariant.
LEMMA JudgingKeepsSignatures ==
    ASSUME IInv, NEW s \in Registered, NEW d \in flying[s], s \notin settled,
           Moves(s, d), UNCHANGED request,
           NEW f, NEW sigs,
           fixed' = [fixed EXCEPT ![s] = f],
           signatures' = [signatures EXCEPT ![s] = sigs],
           f = fixed[s] \/ (/\ fixed[s] = NoPackage
                           /\ f \in [source : {s}, agent : {Agent},
                                     target : {request.to}, action : Action]),
           \/ sigs = signatures[s]
           \/ \E k \in Key \ ({Agent} \cup Signers(s)) :
                 /\ sigs = signatures[s] \cup {<<k, d>>}
                 /\ f # NoPackage
                 /\ d \notin Faulty => f = TrueClose[s]
    PROVE  /\ fixed' \in [Registered -> Package \cup {NoPackage}]
           /\ signatures' \in [Registered -> SUBSET (Key \X Daemon)]
           /\ Fixed' /\ Signed'
<1>0. /\ source = s /\ s \in Candidates /\ d \in Daemon /\ d \notin asked[s] \ flying[s]
      /\ request.to \in Dna
  BY AskedSource, RegistryAssumption DEF Candidates
<1>1. d \in asked'[s] \ flying'[s]
  BY MovesKeepAnswered
<1>2. \A x \in Registered : signatures[x] # {} =>
         (asked[x] \ flying[x]) \subseteq (asked'[x] \ flying'[x])
  BY MovesKeepAnswered
<1>3. fixed' \in [Registered -> Package \cup {NoPackage}] /\ Fixed'
  BY <1>0, RegistryAssumption, DaemonAssumption DEF IInv, TypeOK, Fixed, Package
<1>4. signatures' \in [Registered -> SUBSET (Key \X Daemon)]
  BY <1>0 DEF IInv, TypeOK
<1>5. \A x \in Registered \ {s} : signatures'[x] = signatures[x] /\ fixed'[x] = fixed[x]
  BY DEF IInv, TypeOK
<1>6. signatures'[s] = sigs /\ fixed'[s] = f
  BY DEF IInv, TypeOK
<1>7. \A p \in signatures[s] : f = fixed[s]
  BY DEF IInv, Signed
<1>8. ASSUME NEW x \in Registered \ {s}, NEW p \in signatures'[x]
      PROVE  /\ p[1] # Agent
             /\ p[2] \in asked'[x] \ flying'[x]
             /\ fixed'[x] # NoPackage
             /\ p[2] \notin Faulty => fixed'[x] = TrueClose[x]
             /\ \A q \in signatures'[x] : (p[1] = q[1] \/ p[2] = q[2]) => p = q
  BY <1>2, <1>5, <1>8 DEF IInv, Signed
<1>9. CASE sigs = signatures[s]
  <2>1. ASSUME NEW p \in signatures'[s]
        PROVE  /\ p[1] # Agent
               /\ p[2] \in asked'[s] \ flying'[s]
               /\ fixed'[s] # NoPackage
               /\ p[2] \notin Faulty => fixed'[s] = TrueClose[s]
               /\ \A q \in signatures'[s] : (p[1] = q[1] \/ p[2] = q[2]) => p = q
    BY <1>2, <1>6, <1>7, <1>9, <2>1 DEF IInv, Signed
  <2>2. QED
    BY <1>3, <1>4, <1>8, <2>1 DEF Signed
<1>10. ASSUME NEW k \in Key \ ({Agent} \cup Signers(s)),
              sigs = signatures[s] \cup {<<k, d>>},
              f # NoPackage,
              d \notin Faulty => f = TrueClose[s]
       PROVE  Signed'
  <2>1. \A p \in signatures[s] : /\ p[1] # k /\ p[2] # d
                                 /\ p[1] # Agent
                                 /\ p[2] \in asked'[s] \ flying'[s]
                                 /\ p[2] \notin Faulty => f = TrueClose[s]
    BY <1>0, <1>2, <1>7, <1>10 DEF IInv, Signed, Signers
  <2>2. \A p, q \in signatures[s] : (p[1] = q[1] \/ p[2] = q[2]) => p = q
    BY DEF IInv, Signed
  <2>3. <<k, d>>[1] = k /\ <<k, d>>[2] = d
    OBVIOUS
  <2>4. ASSUME NEW p \in signatures'[s]
        PROVE  /\ p[1] # Agent
               /\ p[2] \in asked'[s] \ flying'[s]
               /\ fixed'[s] # NoPackage
               /\ p[2] \notin Faulty => fixed'[s] = TrueClose[s]
               /\ \A q \in signatures'[s] : (p[1] = q[1] \/ p[2] = q[2]) => p = q
    BY <1>1, <1>6, <1>10, <2>1, <2>2, <2>3, <2>4
  <2>5. QED
    BY <1>8, <2>4 DEF Signed
<1>11. QED
  BY <1>3, <1>4, <1>9, <1>10

-----------------------------------------------------------------------------
(* Each action keeps the invariant. *)

LEMMA MigrateInv == ASSUME IInv, Migrate PROVE IInv'
<1>1. /\ source = NoDna /\ settled = {} /\ response = "none"
      /\ Candidates' = Candidates /\ Candidates \subseteq Registered
      /\ NoDna \notin Registered
      /\ UNCHANGED <<request, settled, signatures, fixed, tally>>
  BY RegistryAssumption DEF Migrate, IInv, Progress, Candidates
<1>2. \A x \in Registered : /\ asked[x] = {} /\ flying[x] = {}
                            /\ signatures[x] = {} /\ fixed[x] = NoPackage
  BY <1>1 DEF IInv, Unstarted
<1>3. response' \in Answered /\ response' # "package" /\ response' = Refusal
  BY DEF Migrate, Refusal, Answered
<1>4. CASE Refusal = "none"
  <2>1. PICK s \in Registered : IsNext(s, {}) /\ Begin(s, flying)
    BY <1>4 DEF Migrate
  <2>2. PICK D \in SUBSET Notaries[s] :
           asked' = [asked EXCEPT ![s] = D] /\ flying' = [flying EXCEPT ![s] = D]
    BY <2>1 DEF Begin, Openings
  <2>3. source' = s /\ s \in Candidates
    BY <2>1 DEF Begin, IsNext
  <2>4. Notaries[s] \subseteq Daemon
    BY RegistryAssumption DEF Daemon
  <2>5. TypeOK'
    BY <1>1, <1>3, <2>2, <2>3, <2>4 DEF IInv, TypeOK
  <2>6. Progress'
    BY <1>1, <1>3, <1>4, <2>3 DEF Progress
  <2>7. Unstarted' /\ Asking'
    BY <1>1, <1>2, <2>2, <2>3 DEF Unstarted, Asking, IInv, TypeOK
  <2>8. Fixed' /\ Signed' /\ Full'
    BY <1>1, <1>2, <1>3 DEF Fixed, Signed, Full
  <2>9. QED
    BY <2>5, <2>6, <2>7, <2>8 DEF IInv
<1>5. CASE Refusal # "none"
  <2>1. UNCHANGED <<source, asked, flying>>
    BY <1>5 DEF Migrate
  <2>2. QED
    BY <1>1, <1>2, <1>3, <2>1
    DEF IInv, TypeOK, Progress, Unstarted, Asking, Fixed, Signed, Full
<1>6. QED
  BY <1>4, <1>5

LEMMA LateAnswerInv ==
    ASSUME IInv, NEW s \in Registered, NEW d, LateAnswer(s, d)
    PROVE  IInv'
<1>1. flying' = [flying EXCEPT ![s] = @ \ {d}]
      /\ UNCHANGED <<request, source, settled, asked, signatures, fixed, tally, response>>
  BY DEF LateAnswer, Landed
<1>2. /\ \A x \in Registered : flying'[x] \subseteq flying[x]
      /\ flying' \in [Registered -> SUBSET Daemon]
  BY <1>1 DEF IInv, TypeOK
<1>3. TypeOK' /\ Progress' /\ Asking' /\ Fixed' /\ Full'
  BY <1>1, <1>2 DEF IInv, TypeOK, Progress, Asking, Fixed, Full, Candidates
<1>4. Unstarted'
  BY <1>1, <1>2 DEF IInv, Unstarted
<1>5. Signed'
  BY <1>1, <1>2 DEF IInv, Signed
<1>6. QED
  BY <1>3, <1>4, <1>5 DEF IInv

\* What the actions on a judged answer have in common.
LEMMA JudgedInv ==
    ASSUME IInv, NEW s \in Registered, NEW d \in flying[s], s \notin settled,
           Moves(s, d), UNCHANGED request, tally' \subseteq Flag,
           NEW f, NEW sigs,
           fixed' = [fixed EXCEPT ![s] = f],
           signatures' = [signatures EXCEPT ![s] = sigs],
           f = fixed[s] \/ (/\ fixed[s] = NoPackage
                           /\ f \in [source : {s}, agent : {Agent},
                                     target : {request.to}, action : Action]),
           \/ sigs = signatures[s]
           \/ \E k \in Key \ ({Agent} \cup Signers(s)) :
                 /\ sigs = signatures[s] \cup {<<k, d>>}
                 /\ f # NoPackage
                 /\ d \notin Faulty => f = TrueClose[s],
           response' = "package" => /\ UNCHANGED source
                                    /\ Cardinality(sigs) >= Threshold[s]
    PROVE  IInv'
<1>1. source = s /\ response = "none"
  BY AskedSource
<1>2. \A x \in Registered \ {s} : signatures'[x] = signatures[x] /\ fixed'[x] = fixed[x]
  BY DEF IInv, TypeOK
<1>3. /\ source' \in Registered \cup {NoDna} /\ settled' \subseteq Registered
      /\ asked' \in [Registered -> SUBSET Daemon] /\ flying' \in [Registered -> SUBSET Daemon]
      /\ response' \in Answered
      /\ Progress' /\ Unstarted' /\ Asking'
  BY <1>2, MovesKeepControl
<1>4. /\ fixed' \in [Registered -> Package \cup {NoPackage}]
      /\ signatures' \in [Registered -> SUBSET (Key \X Daemon)]
      /\ Fixed' /\ Signed'
  BY JudgingKeepsSignatures
<1>5. TypeOK'
  BY <1>3, <1>4 DEF IInv, TypeOK
<1>6. Full'
  BY <1>1, RegistryAssumption DEF Full, IInv, TypeOK
<1>7. QED
  BY <1>3, <1>4, <1>5, <1>6 DEF IInv

LEMMA FixingFixes ==
    ASSUME IInv, NEW s \in Registered, NEW a \in DaemonAnswer, ~BindsElsewhere(s, a)
    PROVE  Fixing(s, a) = fixed[s]
             \/ (/\ fixed[s] = NoPackage
                 /\ Fixing(s, a) \in [source : {s}, agent : {Agent},
                                      target : {request.to}, action : Action])
<1>1. CASE Own(s, a) /\ fixed[s] = NoPackage
  <2>1. a.package \in Package
    BY <1>1, AnswerFields DEF Own
  <2>2. a.package.source = s /\ a.package.agent = Agent /\ a.package.target = request.to
    BY <1>1 DEF Own, BindsElsewhere
  <2>3. QED
    BY <1>1, <2>1, <2>2 DEF Fixing, Package
<1>2. QED
  BY <1>1 DEF Fixing

\* An honest daemon's attestation is of the close the agent made.
LEMMA HonestAttestation ==
    ASSUME NEW s \in Registered, NEW d \in Notaries[s], NEW a \in Answers(s, d),
           d \notin Faulty, Agrees(s, a)
    PROVE  Fixing(s, a) = TrueClose[s]
<1>1. a.kind = "attestation" /\ a.package = Fixing(s, a)
  BY DEF Agrees, Own
<1>2. a \in HonestAnswers(s, d)
  BY DEF Answers
<1>3. ASSUME NEW k \in ReplyKind, a = Reply(k) PROVE FALSE
  BY <1>1, <1>3 DEF Reply, ReplyKind, ErrorCode
<1>4. "no_close_found" \in ReplyKind /\ HonestReplies[d] \subseteq ReplyKind
  BY AnswersAreTyped, DaemonAssumption DEF ReplyKind, ErrorCode
<1>5. a = Attestation(TrueClose[s], KeyOf[d])
  BY <1>2, <1>3, <1>4 DEF HonestAnswers
<1>6. QED
  BY <1>1, <1>5 DEF Attestation

LEMMA StoppingAnswerInv ==
    ASSUME IInv, NEW s \in Registered, NEW d \in flying[s], NEW a \in Answers(s, d),
           StoppingAnswer(s, d, a)
    PROVE  IInv'
<1>1. s \notin settled /\ UNCHANGED <<request, tally, signatures, fixed>>
  BY DEF StoppingAnswer, Judged, Respond
<1>2. Moves(s, d) /\ response' # "package"
  BY DEF StoppingAnswer, Stops, Respond, Moves, Ends, Answered
<1>3. fixed' = [fixed EXCEPT ![s] = fixed[s]] /\ signatures' = [signatures EXCEPT ![s] = signatures[s]]
  BY <1>1 DEF IInv, TypeOK
<1>4. tally' \subseteq Flag
  BY <1>1 DEF IInv, TypeOK
<1>5. QED
  BY <1>1, <1>2, <1>3, <1>4, JudgedInv

LEMMA AbandoningAnswerInv ==
    ASSUME IInv, NEW s \in Registered, NEW d \in flying[s], NEW a \in Answers(s, d),
           AbandoningAnswer(s, d, a)
    PROVE  IInv'
<1>1. s \notin settled /\ UNCHANGED <<request, signatures, fixed>> /\ NextSource(s, d, tally)
  BY DEF AbandoningAnswer, Judged
<1>2. tally \in SUBSET Flag /\ response = "none"
  BY <1>1, AskedSource DEF IInv, TypeOK
<1>3. Moves(s, d) /\ tally' \subseteq Flag /\ response' # "package"
  BY <1>1, <1>2, NextSourceMoves DEF Moves
<1>4. fixed' = [fixed EXCEPT ![s] = fixed[s]] /\ signatures' = [signatures EXCEPT ![s] = signatures[s]]
  BY <1>1 DEF IInv, TypeOK
<1>5. QED
  BY <1>1, <1>3, <1>4, JudgedInv

LEMMA BlameIsFlags == ASSUME NEW s, NEW a PROVE Blame(s, a) \subseteq Flag
  BY DEF Blame, Flag

LEMMA UncountedAnswerInv ==
    ASSUME IInv, NEW s \in Registered, NEW d \in flying[s], NEW a \in Answers(s, d),
           UncountedAnswer(s, d, a)
    PROVE  IInv'
<1>1. /\ s \notin settled /\ ~BindsElsewhere(s, a)
      /\ UNCHANGED <<request, signatures>>
      /\ fixed' = [fixed EXCEPT ![s] = Fixing(s, a)]
      /\ Ask(s, d, tally \cup Blame(s, a))
  BY DEF UncountedAnswer, Judged
<1>2. response = "none" /\ a \in DaemonAnswer
  BY <1>1, AskedSource, AnswersAreTyped
<1>3. tally \cup Blame(s, a) \in SUBSET Flag /\ TypeOK
  BY BlameIsFlags DEF IInv, TypeOK
<1>4. Moves(s, d) /\ tally' \subseteq Flag /\ response' # "package"
  BY <1>1, <1>2, <1>3, AskMoves
<1>5. signatures' = [signatures EXCEPT ![s] = signatures[s]]
  BY <1>1 DEF IInv, TypeOK
<1>6. QED
  BY <1>1, <1>2, <1>4, <1>5, FixingFixes, JudgedInv

LEMMA CountedAnswerInv ==
    ASSUME IInv, NEW s \in Registered, NEW d \in flying[s], NEW a \in Answers(s, d),
           CountedAnswer(s, d, a)
    PROVE  IInv'
<1> DEFINE sigs == signatures[s] \cup {<<a.signer, d>>}
           f == Fixing(s, a)
<1>1. /\ s \notin settled /\ ~BindsElsewhere(s, a) /\ Counts(s, a)
      /\ UNCHANGED request
      /\ fixed' = [fixed EXCEPT ![s] = f]
      /\ signatures' = [signatures EXCEPT ![s] = sigs]
  BY DEF CountedAnswer, Judged
<1>2. response = "none" /\ a \in DaemonAnswer /\ d \in Notaries[s]
  BY <1>1, AskedSource, AnswersAreTyped
<1>3. TypeOK /\ tally \in SUBSET Flag
  BY DEF IInv, TypeOK
<1>4. \/ SettleIfIdle(s, d, sigs, tally)
      \/ Cardinality(sigs) >= Threshold[s] /\ Respond(s, d, "package")
  BY DEF CountedAnswer
<1>5. /\ Moves(s, d) /\ tally' \subseteq Flag
      /\ response' = "package" => UNCHANGED source /\ Cardinality(sigs) >= Threshold[s]
  <2>1. CASE SettleIfIdle(s, d, sigs, tally)
    <3> HIDE DEF sigs
    <3> QED
      BY <2>1, <1>2, <1>3, SettleIfIdleMoves
  <2>2. CASE Cardinality(sigs) >= Threshold[s] /\ Respond(s, d, "package")
    BY <2>2, <1>3 DEF Respond, Moves, Ends, Answered
  <2>3. QED
    BY <1>4, <2>1, <2>2
<1>6. a.signer \in Key \ ({Agent} \cup Signers(s))
  BY <1>1, <1>2, AnswerFields DEF Counts
<1>7. f # NoPackage
  BY <1>1, <1>2, AnswerFields, DaemonAssumption DEF Counts, Agrees, Own
<1>8. d \notin Faulty => f = TrueClose[s]
  BY <1>1, <1>2, HonestAttestation DEF Counts
<1>9. f = fixed[s] \/ (/\ fixed[s] = NoPackage
                      /\ f \in [source : {s}, agent : {Agent},
                                target : {request.to}, action : Action])
  BY <1>1, <1>2, FixingFixes
<1>10. \E k \in Key \ ({Agent} \cup Signers(s)) :
          /\ sigs = signatures[s] \cup {<<k, d>>}
          /\ f # NoPackage
          /\ d \notin Faulty => f = TrueClose[s]
  BY <1>6, <1>7, <1>8
<1>11. QED
  <2> HIDE DEF sigs, f
  <2> QED
    BY <1>1, <1>5, <1>9, <1>10, JudgedInv

\* The invariant holds throughout.
THEOREM Invariance == Spec => []IInv
<1>1. IInv /\ [Next]_vars => IInv'
  <2> SUFFICES ASSUME IInv, [Next]_vars PROVE IInv'
    OBVIOUS
  <2>1. CASE UNCHANGED vars
    BY <2>1 DEF vars, IInv, TypeOK, Progress, Unstarted, Asking, Fixed, Signed, Full, Candidates
  <2>2. CASE Migrate
    BY <2>2, MigrateInv
  <2>3. ASSUME NEW s \in Registered, NEW d \in flying[s], LateAnswer(s, d)
        PROVE  IInv'
    BY <2>3, LateAnswerInv
  <2>4. ASSUME NEW s \in Registered, NEW d \in flying[s], NEW a \in Answers(s, d),
               \/ StoppingAnswer(s, d, a) \/ AbandoningAnswer(s, d, a)
               \/ UncountedAnswer(s, d, a) \/ CountedAnswer(s, d, a)
        PROVE  IInv'
    BY <2>4, StoppingAnswerInv, AbandoningAnswerInv, UncountedAnswerInv, CountedAnswerInv
  <2>5. QED
    BY <2>1, <2>2, <2>3, <2>4, StepCases
<1>2. QED
  BY InitInv, <1>1, PTL DEF Spec

\* Type correctness of the router's request.
THEOREM TypeCorrect == Spec => []TypeOK
<1>1. IInv => TypeOK
  BY DEF IInv
<1>2. QED
  BY <1>1, Invariance, PTL

-----------------------------------------------------------------------------
(***************************************************************************)
(* Counting.  The signatures of a source are finite and as many as their    *)
(* keys and as the daemons they came from.                                  *)
(***************************************************************************)
LEMMA SignaturesAreFinite ==
    ASSUME IInv, NEW s \in Registered
    PROVE  IsFiniteSet(signatures[s]) /\ IsFiniteSet(flying[s]) /\ IsFiniteSet(asked[s])
<1> DEFINE from == [p \in signatures[s] |-> p[2]]
<1>1. IsFiniteSet(Notaries[s]) /\ flying[s] \subseteq Notaries[s] /\ asked[s] \subseteq Notaries[s]
  BY RegistryAssumption DEF IInv, Asking
<1>2. from \in Injection(signatures[s], Notaries[s])
  <2>1. from \in [signatures[s] -> Notaries[s]]
    BY <1>1 DEF IInv, Signed, Asking
  <2>2. IsInjective(from)
    BY DEF IInv, Signed, IsInjective
  <2>3. QED
    BY <2>1, <2>2 DEF Injection
<1>3. QED
  BY <1>1, <1>2, FS_Injection, FS_Subset

LEMMA CountingSignatures ==
    ASSUME IInv, NEW s \in Registered
    PROVE  /\ Cardinality(Signers(s)) = Cardinality(signatures[s])
           /\ Cardinality(Attesters(s)) = Cardinality(signatures[s])
<1> DEFINE key == [p \in signatures[s] |-> p[1]]
           from == [p \in signatures[s] |-> p[2]]
<1>1. key \in Surjection(signatures[s], Signers(s)) /\ from \in Surjection(signatures[s], Attesters(s))
  BY DEF Surjection, Signers, Attesters
<1>2. key \in Injection(signatures[s], Signers(s)) /\ from \in Injection(signatures[s], Attesters(s))
  <2>1. IsInjective(key) /\ IsInjective(from)
    BY DEF IInv, Signed, IsInjective
  <2>2. QED
    BY <1>1, <2>1 DEF Injection, Surjection
<1>3. QED
  BY <1>1, <1>2, FS_Surjection, SignaturesAreFinite

\* Fewer than M faulty daemons cannot make up a package: one of the M that
\* signed is honest, and it signed the close the agent made.
THEOREM PackageIsHonest == Spec => []PackageIsTheAgentsClose
<1>1. IInv => PackageIsTheAgentsClose
  <2> SUFFICES ASSUME IInv, response = "package",
                      Cardinality(Faulty \cap Notaries[source]) < Threshold[source]
               PROVE  fixed[source] = TrueClose[source]
    BY DEF PackageIsTheAgentsClose
  <2>1. source \in Registered /\ Cardinality(signatures[source]) >= Threshold[source]
    BY RegistryAssumption DEF IInv, TypeOK, Full
  <2>2. IsFiniteSet(Faulty \cap Notaries[source]) /\ Threshold[source] \in Nat
    BY <2>1, RegistryAssumption, FS_Intersection
  <2>3. Attesters(source) \subseteq Notaries[source]
    BY <2>1 DEF IInv, Signed, Asking, Attesters
  <2>4. PICK d \in Attesters(source) : d \notin Faulty
    <3>1. CASE Attesters(source) \subseteq Faulty
      <4>1. Attesters(source) \in SUBSET (Faulty \cap Notaries[source])
        BY <2>3, <3>1
      <4>2. Cardinality(Attesters(source)) <= Cardinality(Faulty \cap Notaries[source])
        BY <2>2, <4>1, FS_Subset
      <4>3. /\ Cardinality(Attesters(source)) \in Nat
            /\ Cardinality(Faulty \cap Notaries[source]) \in Nat
        BY <2>2, <4>1, FS_Subset, FS_CardinalityType
      <4>4. QED
        BY <2>1, <2>2, <4>2, <4>3, CountingSignatures
    <3>2. QED
      BY <3>1
  <2>5. QED
    BY <2>1, <2>4 DEF IInv, Signed, Attesters
<1>2. QED
  BY <1>1, Invariance, PTL

-----------------------------------------------------------------------------
(***************************************************************************)
(* The window.  WindowIsKept is inductive over IInv, and it is what makes   *)
(* the package hold M signatures and no more.                               *)
(***************************************************************************)
Exact == response = "package" => Cardinality(signatures[source]) = Threshold[source]

IWindow == WindowIsKept /\ Exact

\* A source that just began awaits M answers, at least one.
LEMMA BeginWindow ==
    ASSUME TypeOK, NEW t \in Candidates, NEW inFlight \in [Registered -> SUBSET Daemon],
           Begin(t, inFlight), signatures'[t] = {}
    PROVE  /\ source' = t
           /\ Cardinality(signatures'[t]) + Cardinality(flying'[t]) = Threshold[t]
           /\ Threshold[t] \in Nat
           /\ flying'[t] # {}
<1>1. t \in Registered /\ Threshold[t] \in Nat /\ Threshold[t] >= 1
  BY RegistryAssumption DEF Candidates
<1>2. PICK D \in Openings(t) : flying' = [inFlight EXCEPT ![t] = D]
  BY DEF Begin
<1>3. flying'[t] = D /\ Cardinality(D) = Threshold[t]
  BY <1>1, <1>2 DEF Openings
<1>4. Cardinality({}) = 0 /\ D # {}
  BY <1>1, <1>3, FS_EmptySet
<1>5. QED
  BY <1>1, <1>3, <1>4 DEF Begin

\* Where the window stands when an answer of an unsettled source lands.
LEMMA LandingWindow ==
    ASSUME IInv, IWindow, NEW s \in Registered, NEW d \in flying[s], s \notin settled
    PROVE  /\ Cardinality(signatures[s]) \in Nat
           /\ Cardinality(flying[s]) \in Nat
           /\ Threshold[s] \in Nat
           /\ Cardinality(signatures[s]) + Cardinality(flying[s]) <= Threshold[s]
           /\ asked[s] # Notaries[s] =>
                 Cardinality(signatures[s]) + Cardinality(flying[s]) = Threshold[s]
           /\ Cardinality(flying[s]) >= 1
           /\ Cardinality(flying[s] \ {d}) = Cardinality(flying[s]) - 1
<1>1. source = s
  BY AskedSource
<1>2. IsFiniteSet(signatures[s]) /\ IsFiniteSet(flying[s])
  BY SignaturesAreFinite
<1>3. Cardinality(signatures[s]) \in Nat /\ Cardinality(flying[s]) \in Nat
  BY <1>2, FS_CardinalityType
<1>4. Cardinality(flying[s]) # 0
  BY <1>2, FS_EmptySet
<1>5. Cardinality(flying[s] \ {d}) = Cardinality(flying[s]) - 1
  BY <1>2, FS_RemoveElement
<1>6. Threshold[s] \in Nat
  BY RegistryAssumption
<1>7. QED
  BY <1>1, <1>3, <1>4, <1>5, <1>6 DEF IWindow, WindowIsKept

LEMMA NextSourceWindow ==
    ASSUME IInv, NEW s \in Registered, NEW d, source = s, s \in Candidates, NEW flags,
           NextSource(s, d, flags), UNCHANGED request,
           \A x \in Registered \ {s} : signatures'[x] = signatures[x]
    PROVE  WindowIsKept'
<1>1. settled' = settled \cup {s} /\ Candidates' = Candidates
  BY DEF NextSource, Candidates
<1>2. CASE UNCHANGED source
  BY <1>1, <1>2 DEF WindowIsKept
<1>3. ASSUME NEW t \in Registered, IsNext(t, settled'), Begin(t, Landed(s, d))
      PROVE  WindowIsKept'
  <2>1. t \in Candidates /\ t \notin settled /\ t # s
    BY <1>1, <1>3 DEF IsNext
  <2>2. signatures'[t] = {}
    BY <2>1 DEF IInv, Unstarted
  <2>3. Landed(s, d) \in [Registered -> SUBSET Daemon] /\ TypeOK
    BY DEF Landed, IInv, TypeOK
  <2>4. /\ source' = t
        /\ Cardinality(signatures'[t]) + Cardinality(flying'[t]) = Threshold[t]
        /\ Threshold[t] \in Nat
        /\ flying'[t] # {}
    BY <1>3, <2>1, <2>2, <2>3, BeginWindow
  <2>5. QED
    BY <2>4 DEF WindowIsKept
<1>4. QED
  BY <1>2, <1>3 DEF NextSource

LEMMA SettleIfIdleWindow ==
    ASSUME IInv, IWindow, NEW s \in Registered, NEW d \in flying[s], s \notin settled,
           NEW sigs, NEW flags, SettleIfIdle(s, d, sigs, flags), UNCHANGED request,
           Cardinality(sigs) \in Nat,
           Cardinality(sigs) + Cardinality(flying[s] \ {d}) <= Threshold[s],
           asked[s] # Notaries[s] =>
              /\ Cardinality(sigs) + Cardinality(flying[s] \ {d}) = Threshold[s]
              /\ Cardinality(sigs) < Threshold[s],
           signatures' = [signatures EXCEPT ![s] = sigs]
    PROVE  WindowIsKept'
<1>1. source = s /\ s \in Candidates
  BY AskedSource
<1>2. signatures'[s] = sigs /\ \A x \in Registered \ {s} : signatures'[x] = signatures[x]
  BY DEF IInv, TypeOK
<1>3. CASE NextSource(s, d, flags \cup (IF sigs = {} THEN {} ELSE {"unableToVerify"}))
  BY <1>1, <1>2, <1>3, NextSourceWindow
<1>4. CASE /\ flying[s] # {d} \/ asked[s] # Notaries[s]
           /\ flying' = Landed(s, d)
           /\ UNCHANGED <<source, settled, asked, response>>
  <2>1. flying'[s] = flying[s] \ {d}
    BY <1>4 DEF Landed, IInv, TypeOK
  <2>2. flying'[s] # {}
    <3>1. CASE flying[s] # {d}
      BY <2>1, <3>1
    <3>2. CASE asked[s] # Notaries[s]
      BY <2>1, <3>2, FS_EmptySet, RegistryAssumption
    <3>3. QED
      BY <1>4, <3>1, <3>2
  <2>3. QED
    BY <1>1, <1>2, <1>4, <2>1, <2>2 DEF WindowIsKept
<1>5. QED
  BY <1>3, <1>4 DEF SettleIfIdle

LEMMA WindowStep == ASSUME IInv, IInv', IWindow, Next PROVE IWindow'
<1>1. CASE UNCHANGED vars
  BY <1>1 DEF vars, IWindow, WindowIsKept, Exact
<1>2. CASE Migrate
  <2>1. /\ source = NoDna /\ response' # "package" /\ response' = Refusal
        /\ UNCHANGED <<settled, signatures>> /\ settled = {}
    BY <1>2 DEF Migrate, Refusal, IInv, Progress
  <2>2. CASE Refusal # "none"
    BY <1>2, <2>1, <2>2, RegistryAssumption DEF Migrate, IWindow, WindowIsKept, Exact
  <2>3. CASE Refusal = "none"
    <3>1. PICK t \in Registered : IsNext(t, {}) /\ Begin(t, flying)
      BY <1>2, <2>3 DEF Migrate
    <3>2. t \in Candidates /\ signatures'[t] = {}
      BY <2>1, <3>1, RegistryAssumption DEF IsNext, IInv, Unstarted
    <3>3. /\ source' = t
          /\ Cardinality(signatures'[t]) + Cardinality(flying'[t]) = Threshold[t]
          /\ Threshold[t] \in Nat
          /\ flying'[t] # {}
      BY <3>1, <3>2, BeginWindow DEF IInv, TypeOK
    <3>4. QED
      BY <2>1, <3>3 DEF IWindow, WindowIsKept, Exact
  <2>4. QED
    BY <2>2, <2>3
<1>3. ASSUME NEW s \in Registered, NEW d \in flying[s], LateAnswer(s, d)
      PROVE  IWindow'
  <2>1. /\ \A x \in Registered \ {s} : flying'[x] = flying[x]
        /\ s \in settled
        /\ UNCHANGED <<source, settled, asked, signatures, response>>
    BY <1>3 DEF LateAnswer, Landed, IInv, TypeOK
  <2>2. QED
    BY <2>1 DEF IWindow, WindowIsKept, Exact
<1>4. ASSUME NEW s \in Registered, NEW d \in flying[s], NEW a \in Answers(s, d),
             StoppingAnswer(s, d, a)
      PROVE  IWindow'
  <2>1. /\ s \notin settled /\ settled' = settled \cup {s} /\ UNCHANGED source
        /\ response' # "package"
    BY <1>4 DEF StoppingAnswer, Judged, Respond, Stops
  <2>2. source = s
    BY <2>1, AskedSource
  <2>3. QED
    BY <2>1, <2>2 DEF IWindow, WindowIsKept, Exact
<1>5. ASSUME NEW s \in Registered, NEW d \in flying[s], NEW a \in Answers(s, d),
             AbandoningAnswer(s, d, a)
      PROVE  IWindow'
  <2>1. s \notin settled /\ UNCHANGED <<request, signatures>> /\ NextSource(s, d, tally)
    BY <1>5 DEF AbandoningAnswer, Judged
  <2>2. source = s /\ s \in Candidates /\ response = "none" /\ tally \in SUBSET Flag
    BY <2>1, AskedSource DEF IInv, TypeOK
  <2>3. response' # "package"
    BY <2>1, <2>2, NextSourceMoves
  <2>4. WindowIsKept'
    BY <2>1, <2>2, NextSourceWindow
  <2>5. QED
    BY <2>3, <2>4 DEF IWindow, Exact
<1>6. ASSUME NEW s \in Registered, NEW d \in flying[s], NEW a \in Answers(s, d),
             UncountedAnswer(s, d, a)
      PROVE  IWindow'
  <2> DEFINE flags == tally \cup Blame(s, a)
  <2>1. s \notin settled /\ UNCHANGED <<request, signatures>> /\ Ask(s, d, flags)
    BY <1>6 DEF UncountedAnswer, Judged
  <2>2. source = s /\ response = "none" /\ flags \in SUBSET Flag /\ TypeOK
    BY <2>1, AskedSource, BlameIsFlags DEF IInv, TypeOK
  <2>3. response' # "package"
    <3> HIDE DEF flags
    <3> QED
      BY <2>1, <2>2, AskMoves
  <2>4. CASE asked[s] = Notaries[s] /\ SettleIfIdle(s, d, signatures[s], flags)
    <3>1. signatures' = [signatures EXCEPT ![s] = signatures[s]]
      BY <2>1 DEF IInv, TypeOK
    <3>2. /\ Cardinality(signatures[s]) \in Nat
          /\ Cardinality(signatures[s]) + Cardinality(flying[s] \ {d}) <= Threshold[s]
      BY <2>1, LandingWindow
    <3> HIDE DEF flags
    <3>3. WindowIsKept'
      BY <2>1, <2>4, <3>1, <3>2, SettleIfIdleWindow
    <3>4. QED
      BY <2>3, <3>3 DEF IWindow, Exact
  <2>5. ASSUME NEW e \in Notaries[s] \ asked[s],
               asked' = [asked EXCEPT ![s] = @ \cup {e}],
               flying' = [flying EXCEPT ![s] = (@ \ {d}) \cup {e}],
               UNCHANGED <<source, settled, response>>
        PROVE  IWindow'
    <3>1. flying'[s] = (flying[s] \ {d}) \cup {e} /\ e \notin flying[s] \ {d}
      BY <2>5 DEF IInv, TypeOK, Asking
    <3>2. IsFiniteSet(flying[s] \ {d})
      BY SignaturesAreFinite, FS_RemoveElement
    <3>3. Cardinality(flying'[s]) = Cardinality(flying[s] \ {d}) + 1
      BY <3>1, <3>2, FS_AddElement
    <3>4. Cardinality(signatures'[s]) + Cardinality(flying'[s]) = Threshold[s]
      BY <2>1, <2>5, <3>3, LandingWindow
    <3>5. Threshold[s] \in Nat
      BY RegistryAssumption
    <3>6. QED
      BY <2>2, <2>5, <3>1, <3>4, <3>5 DEF IWindow, WindowIsKept, Exact
  <2>6. QED
    BY <2>1, <2>4, <2>5 DEF Ask
<1>7. ASSUME NEW s \in Registered, NEW d \in flying[s], NEW a \in Answers(s, d),
             CountedAnswer(s, d, a)
      PROVE  IWindow'
  <2> DEFINE sigs == signatures[s] \cup {<<a.signer, d>>}
  <2>1. /\ s \notin settled /\ Counts(s, a) /\ UNCHANGED request
        /\ signatures' = [signatures EXCEPT ![s] = sigs]
    BY <1>7 DEF CountedAnswer, Judged
  <2>2. source = s /\ response = "none" /\ TypeOK /\ tally \in SUBSET Flag
    BY <2>1, AskedSource DEF IInv, TypeOK
  <2>3. <<a.signer, d>> \notin signatures[s]
    BY <2>1 DEF Counts, Signers
  <2>4. Cardinality(sigs) = Cardinality(signatures[s]) + 1
    BY <2>3, SignaturesAreFinite, FS_AddElement
  <2>5. /\ Cardinality(sigs) \in Nat
        /\ Threshold[s] \in Nat
        /\ Cardinality(sigs) <= Threshold[s]
        /\ Cardinality(sigs) + Cardinality(flying[s] \ {d}) <= Threshold[s]
        /\ asked[s] # Notaries[s] =>
              Cardinality(sigs) + Cardinality(flying[s] \ {d}) = Threshold[s]
    BY <2>1, <2>4, LandingWindow
  <2>6. signatures'[s] = sigs
    BY <2>1, <2>2 DEF TypeOK
  <2> HIDE DEF sigs
  <2>7. CASE Cardinality(sigs) < Threshold[s] /\ SettleIfIdle(s, d, sigs, tally)
    <3>1. WindowIsKept'
      BY <2>1, <2>5, <2>7, SettleIfIdleWindow
    <3>2. response' # "package"
      BY <2>2, <2>7, SettleIfIdleMoves
    <3>3. QED
      BY <3>1, <3>2 DEF IWindow, Exact
  <2>8. CASE Cardinality(sigs) >= Threshold[s] /\ Respond(s, d, "package")
    <3>1. settled' = settled \cup {s} /\ UNCHANGED source
      BY <2>8 DEF Respond
    <3>2. Cardinality(signatures'[s]) = Threshold[s]
      BY <2>5, <2>6, <2>8
    <3>3. QED
      BY <2>2, <3>1, <3>2 DEF IWindow, WindowIsKept, Exact
  <2>9. QED
    BY <1>7, <2>7, <2>8 DEF CountedAnswer, sigs
<1>8. QED
  BY <1>1, <1>2, <1>3, <1>4, <1>5, <1>6, <1>7, StepCases

\* The window invariant, carried by IInv.
THEOREM WindowInvariance == Spec => []IWindow
<1>1. Init => IWindow
  BY RegistryAssumption DEF Init, IWindow, WindowIsKept, Exact
<1>2. IInv /\ IInv' /\ IWindow /\ [Next]_vars => IWindow'
  <2>1. CASE UNCHANGED vars
    BY <2>1 DEF vars, IWindow, WindowIsKept, Exact
  <2>2. QED
    BY <2>1, WindowStep
<1>3. QED
  BY <1>1, <1>2, Invariance, PTL DEF Spec

\* The sliding window is kept, so a source always has an answer to wait for.
THEOREM WindowTheorem == Spec => []WindowIsKept
<1>1. IWindow => WindowIsKept
  BY DEF IWindow
<1>2. QED
  BY <1>1, WindowInvariance, PTL

\* A package carries exactly M signatures, by as many keys and daemons.
THEOREM QuorumTheorem == Spec => []PackageIsAQuorum
<1>1. IInv /\ IWindow => PackageIsAQuorum
  <2> SUFFICES ASSUME IInv, IWindow, response = "package" PROVE PackageIsAQuorum
    BY DEF PackageIsAQuorum
  <2>1. source \in Registered
    BY RegistryAssumption DEF IInv, TypeOK, Full
  <2>2. /\ Cardinality(Signers(source)) = Threshold[source]
        /\ Cardinality(Attesters(source)) = Threshold[source]
    BY <2>1, CountingSignatures DEF IWindow, Exact
  <2>3. Attesters(source) \subseteq Notaries[source] /\ Agent \notin Signers(source)
    BY <2>1 DEF IInv, Signed, Asking, Attesters, Signers
  <2>4. signatures[source] # {}
    <3>1. Threshold[source] >= 1
      BY <2>1, RegistryAssumption DEF IInv, Progress, Full, Candidates
    <3>2. QED
      BY <3>1, FS_EmptySet DEF IWindow, Exact
  <2>5. fixed[source] # NoPackage
    BY <2>1, <2>4 DEF IInv, Signed
  <2>6. QED
    BY <2>1, <2>2, <2>3, <2>5 DEF PackageIsAQuorum, IInv, Fixed
<1>2. QED
  BY <1>1, Invariance, WindowInvariance, PTL

-----------------------------------------------------------------------------
(***************************************************************************)
(* How a request ends.  A source that falls short leaves its mark on the    *)
(* tally if it signed anything, and only an answer that stops the request,  *)
(* a quorum or the tally of all the sources gives a response.               *)
(***************************************************************************)
Stopping == {"warranted", "bad_request"}

\* What an answer a of daemon d did to source s, sigs being its signatures after.
Ended(s, a, sigs, flags) ==
    /\ settled' \subseteq settled \cup {s}
    /\ tally' \in {flags, flags \cup {"unableToVerify"}}
    /\ \/ response' \in {"none", "package"}
       \/ Stops(a) /\ response' = a.kind
       \/ Candidates \subseteq settled' /\ response' = ShortResponse(tally')
    /\ s \in settled' => \/ sigs = {} \/ "unableToVerify" \in tally'
                         \/ response' = "package" \/ (Stops(a) /\ response' = a.kind)

LEMMA NextSourceEnds ==
    ASSUME NEW s, NEW d, NEW a, NEW flags, response = "none", NextSource(s, d, flags)
    PROVE  /\ settled' = settled \cup {s} /\ tally' = flags
           /\ \/ response' = "none"
              \/ Candidates \subseteq settled' /\ response' = ShortResponse(tally')
  BY DEF NextSource

LEMMA SettleIfIdleEnds ==
    ASSUME NEW s, s \notin settled, NEW d, NEW a, NEW sigs, NEW flags, response = "none",
           SettleIfIdle(s, d, sigs, flags)
    PROVE  Ended(s, a, sigs, flags)
<1>1. CASE NextSource(s, d, flags \cup (IF sigs = {} THEN {} ELSE {"unableToVerify"}))
  BY <1>1, NextSourceEnds DEF Ended
<1>2. CASE tally' = flags /\ UNCHANGED <<source, settled, asked, response>>
  BY <1>2 DEF Ended
<1>3. QED
  BY <1>1, <1>2 DEF SettleIfIdle

\* The four kinds of answer that are judged.
LEMMA AnswerEnds ==
    ASSUME IInv, NEW s \in Registered, NEW d \in flying[s], NEW a \in Answers(s, d),
           \/ StoppingAnswer(s, d, a) \/ AbandoningAnswer(s, d, a)
           \/ UncountedAnswer(s, d, a) \/ CountedAnswer(s, d, a)
    PROVE  /\ response = "none" /\ UNCHANGED request
           /\ s \in Candidates /\ d \in Notaries[s]
           /\ \E flags \in {tally, tally \cup Blame(s, a)} : Ended(s, a, signatures'[s], flags)
           /\ \A x \in Registered : x # s => signatures'[x] = signatures[x]
           /\ \A x \in Registered : fixed'[x] \in {fixed[x], IF x = s THEN Fixing(s, a)
                                                                      ELSE fixed[x]}
<1>0. s \notin settled /\ UNCHANGED request
  BY DEF StoppingAnswer, AbandoningAnswer, UncountedAnswer, CountedAnswer, Judged
<1>1. response = "none" /\ s \in Candidates /\ d \in Notaries[s] /\ TypeOK
  BY <1>0, AskedSource DEF IInv
<1>2. CASE StoppingAnswer(s, d, a)
  BY <1>0, <1>1, <1>2 DEF StoppingAnswer, Respond, Ended
<1>3. CASE AbandoningAnswer(s, d, a)
  <2>1. signatures[s] = {}
    BY <1>3 DEF AbandoningAnswer, BindsElsewhere, IInv, Signed
  <2>2. NextSource(s, d, tally) /\ UNCHANGED <<signatures, fixed>>
    BY <1>3 DEF AbandoningAnswer
  <2>3. Ended(s, a, signatures'[s], tally)
    BY <1>1, <2>1, <2>2, NextSourceEnds DEF Ended
  <2>4. QED
    BY <1>0, <1>1, <2>2, <2>3
<1>4. CASE UncountedAnswer(s, d, a)
  <2>1. /\ Ask(s, d, tally \cup Blame(s, a)) /\ UNCHANGED signatures
        /\ fixed' = [fixed EXCEPT ![s] = Fixing(s, a)]
    BY <1>4 DEF UncountedAnswer
  <2>2. Ended(s, a, signatures[s], tally \cup Blame(s, a))
    <3>1. CASE SettleIfIdle(s, d, signatures[s], tally \cup Blame(s, a))
      BY <1>0, <1>1, <3>1, SettleIfIdleEnds
    <3>2. CASE tally' = tally \cup Blame(s, a) /\ UNCHANGED <<source, settled, response>>
      BY <1>0, <1>1, <3>2 DEF Ended
    <3>3. QED
      BY <2>1, <3>1, <3>2 DEF Ask
  <2>3. \A x \in Registered : fixed'[x] \in {fixed[x], IF x = s THEN Fixing(s, a) ELSE fixed[x]}
    BY <1>1, <2>1 DEF TypeOK
  <2>4. QED
    BY <1>0, <1>1, <2>1, <2>2, <2>3
<1>5. CASE CountedAnswer(s, d, a)
  <2> DEFINE sigs == signatures[s] \cup {<<a.signer, d>>}
  <2>1. /\ signatures' = [signatures EXCEPT ![s] = sigs]
        /\ fixed' = [fixed EXCEPT ![s] = Fixing(s, a)]
        /\ SettleIfIdle(s, d, sigs, tally) \/ Respond(s, d, "package")
    BY <1>5 DEF CountedAnswer
  <2> HIDE DEF sigs
  <2>2. Ended(s, a, sigs, tally)
    <3>1. CASE SettleIfIdle(s, d, sigs, tally)
      BY <1>0, <1>1, <3>1, SettleIfIdleEnds
    <3>2. CASE Respond(s, d, "package")
      BY <3>2 DEF Respond, Ended
    <3>3. QED
      BY <2>1, <3>1, <3>2
  <2>3. /\ signatures'[s] = sigs
        /\ \A x \in Registered : x # s => signatures'[x] = signatures[x]
        /\ \A x \in Registered : fixed'[x] \in {fixed[x], IF x = s THEN Fixing(s, a) ELSE fixed[x]}
    BY <1>1, <2>1 DEF TypeOK
  <2>4. QED
    BY <1>0, <1>1, <2>2, <2>3
<1>6. QED
  BY <1>2, <1>3, <1>4, <1>5

\* What the tally keeps of a source that signed and fell short.
Marked == \A s \in settled : \/ signatures[s] = {} \/ "unableToVerify" \in tally
                             \/ response \in Stopping \cup {"package"}

Whole == response = "no_close_found" => Candidates \subseteq settled /\ tally = {}

\* No daemon attests what the chain does not hold: what is fixed is the close.
Truthful == Unforged => \A s \in Registered : fixed[s] \in {NoPackage, TrueClose[s]}

IEnd == Marked /\ Whole /\ Truthful /\ OutagesAreNotFaults /\ LagIsWaitedOut

LEMMA RefusalCodes ==
    Refusal \in {"bad_request", "unknown_to_dna", "to_is_chain_root", "unknown_from_dna",
                 "unreachable_target", "none"}
  BY DEF Refusal

LEMMA ShortCodes ==
    ASSUME NEW flags
    PROVE  /\ ShortResponse(flags) \in Retryable
           /\ flags \subseteq Flag /\ ShortResponse(flags) = "no_close_found" => flags = {}
  BY DEF ShortResponse, Retryable, Flag

\* The answer of a daemon is one that it says.
LEMMA SaidByDaemon ==
    ASSUME NEW s \in Registered, NEW d \in Notaries[s], NEW a \in Answers(s, d), NEW kinds,
           a.kind \in kinds, kinds \subseteq ReplyKind, "no_close_found" \notin kinds
    PROVE  Says(d, kinds)
<1>1. CASE d \in Faulty
  BY <1>1 DEF Answers, Says
<1>2. CASE d \notin Faulty
  <2>1. a \in HonestAnswers(s, d)
    BY <1>2 DEF Answers
  <2>2. a.kind \notin {"no_close_found", "attestation"}
    BY DEF ReplyKind, ErrorCode
  <2>3. PICK k \in HonestReplies[d] : a = Reply(k)
    BY <2>1, <2>2 DEF HonestAnswers, Reply, Attestation
  <2>4. a.kind = k
    BY <2>3 DEF Reply
  <2>5. QED
    BY <1>2, <2>3, <2>4 DEF Says
<1>3. QED
  BY <1>1, <1>2

LEMMA InitEnd == Init => IEnd
<1> SUFFICES ASSUME Init PROVE IEnd
  OBVIOUS
<1>1. Marked /\ Whole /\ OutagesAreNotFaults
  BY DEF Init, Marked, Whole, OutagesAreNotFaults
<1>2. Truthful
  BY DEF Init, Truthful
<1>3. Taken = "none"
  BY DEF Init, Taken
<1>4. LagIsWaitedOut
  BY <1>3 DEF LagIsWaitedOut
<1>5. QED
  BY <1>1, <1>2, <1>4 DEF IEnd

LEMMA MigrateEnd == ASSUME IInv, IEnd, Migrate PROVE IEnd'
<1>1. /\ response' = Refusal /\ UNCHANGED <<request, settled, signatures, fixed, tally>>
      /\ source = NoDna
  BY DEF Migrate
<1>2. Refusal' = Refusal /\ Candidates' = Candidates /\ Concerned' = Concerned
  BY <1>1 DEF Refusal, Candidates, Concerned
<1>3. settled = {}
  BY <1>1 DEF IInv, Progress
<1>4. Marked' /\ Whole'
  BY <1>1, <1>3, RefusalCodes DEF Marked, Whole
<1>5. Truthful' /\ OutagesAreNotFaults'
  BY <1>1, <1>2 DEF IEnd, Truthful, Unforged, OutagesAreNotFaults
<1>6. LagIsWaitedOut'
  BY <1>1, <1>2 DEF LagIsWaitedOut
<1>7. QED
  BY <1>4, <1>5, <1>6 DEF IEnd

LEMMA JudgedEnd ==
    ASSUME IInv, IEnd, NEW s \in Registered, NEW d \in flying[s], NEW a \in Answers(s, d),
           \/ StoppingAnswer(s, d, a) \/ AbandoningAnswer(s, d, a)
           \/ UncountedAnswer(s, d, a) \/ CountedAnswer(s, d, a)
    PROVE  IEnd'
<1>1. /\ response = "none" /\ UNCHANGED request
      /\ s \in Candidates /\ d \in Notaries[s]
      /\ \A x \in Registered : x # s => signatures'[x] = signatures[x]
      /\ \A x \in Registered : fixed'[x] \in {fixed[x], IF x = s THEN Fixing(s, a) ELSE fixed[x]}
  BY AnswerEnds
<1>2. PICK flags \in {tally, tally \cup Blame(s, a)} : Ended(s, a, signatures'[s], flags)
  BY AnswerEnds
<1>3. Candidates' = Candidates /\ Concerned' = Concerned /\ Refusal' = Refusal /\ d \in Concerned
  BY <1>1 DEF Candidates, Concerned, Refusal
<1>4. tally \subseteq tally' /\ settled \subseteq Registered /\ tally' \subseteq Flag
  BY <1>2, BlameIsFlags DEF Ended, IInv, TypeOK, Flag
<1>5. Marked'
  <2> SUFFICES ASSUME NEW x \in settled'
               PROVE  \/ signatures'[x] = {} \/ "unableToVerify" \in tally'
                      \/ response' \in Stopping \cup {"package"}
    BY DEF Marked
  <2>1. CASE x = s
    BY <1>2, <2>1 DEF Ended, Stops, Stopping
  <2>2. CASE x # s
    <3>1. x \in settled /\ x \in Registered /\ signatures'[x] = signatures[x]
      BY <1>1, <1>2, <1>4, <2>2 DEF Ended
    <3>2. signatures[x] = {} \/ "unableToVerify" \in tally
      BY <1>1, <3>1 DEF IEnd, Marked, Stopping
    <3>3. QED
      BY <1>4, <3>1, <3>2
  <2>3. QED
    BY <2>1, <2>2
<1>6. Whole'
  <2> SUFFICES ASSUME response' = "no_close_found"
               PROVE  Candidates \subseteq settled' /\ tally' = {}
    BY <1>3 DEF Whole
  <2>1. Candidates \subseteq settled' /\ response' = ShortResponse(tally')
    BY <1>2 DEF Ended, Stops
  <2>2. QED
    BY <1>4, <2>1, ShortCodes
<1>7. Truthful'
  <2> SUFFICES ASSUME Unforged, NEW x \in Registered PROVE fixed'[x] \in {NoPackage, TrueClose[x]}
    BY <1>3 DEF Truthful, Unforged
  <2>1. fixed[x] \in {NoPackage, TrueClose[x]}
    BY DEF IEnd, Truthful
  <2>2. CASE x = s /\ fixed'[x] = Fixing(s, a) /\ Fixing(s, a) # fixed[s]
    <3>1. Own(s, a) /\ fixed[s] = NoPackage /\ Fixing(s, a) = a.package
      BY <2>2 DEF Fixing
    <3>2. d \notin Faulty
      BY <1>3, <3>1 DEF Unforged, Says, Answers, Own
    <3>3. Agrees(s, a)
      BY <3>1 DEF Agrees
    <3>4. QED
      BY <1>1, <2>2, <3>2, <3>3, HonestAttestation
  <2>3. QED
    BY <1>1, <2>1, <2>2
<1>8. OutagesAreNotFaults'
  <2> SUFFICES ASSUME Unforged, \A e \in Concerned : ~Says(e, {"internal", "malformed"})
               PROVE  "fault" \notin tally'
    BY <1>3 DEF OutagesAreNotFaults, Unforged
  <2>1. "fault" \notin tally
    BY DEF IEnd, OutagesAreNotFaults
  <2>2. a.kind \notin {"internal", "malformed"}
    <3>1. ~Says(d, {"internal", "malformed"})
      BY <1>3
    <3>2. QED
      BY <1>1, <3>1, SaidByDaemon DEF ReplyKind, ErrorCode
  <2>3. a.kind = "attestation" => Agrees(s, a)
    <3> SUFFICES ASSUME a.kind = "attestation" PROVE Agrees(s, a)
      OBVIOUS
    <3>1. d \notin Faulty
      BY <1>3 DEF Unforged, Says, Answers
    <3>2. a \in HonestAnswers(s, d) /\ d \in Daemon
      BY <1>1, <3>1, AnswersAreTyped DEF Answers
    <3>3. ASSUME NEW k \in ReplyKind, a = Reply(k) PROVE FALSE
      BY <3>3 DEF Reply, ReplyKind, ErrorCode
    <3>4. "no_close_found" \in ReplyKind /\ HonestReplies[d] \subseteq ReplyKind
      BY <3>2, DaemonAssumption DEF ReplyKind, ErrorCode
    <3>5. TrueClose[s] # NoPackage /\ a = Attestation(TrueClose[s], KeyOf[d])
      BY <3>2, <3>3, <3>4 DEF HonestAnswers
    <3>6. a.package = TrueClose[s]
      BY <3>5 DEF Attestation
    <3>7. Own(s, a)
      BY <3>5, <3>6, DaemonAssumption DEF Own
    <3>8. fixed[s] \in {NoPackage, TrueClose[s]}
      BY DEF IEnd, Truthful
    <3>9. QED
      BY <3>6, <3>7, <3>8 DEF Agrees, Fixing
  <2>4. "fault" \notin Blame(s, a)
    BY <2>2, <2>3 DEF Blame
  <2>5. QED
    BY <1>2, <2>1, <2>4 DEF Ended
<1>9. LagIsWaitedOut'
  <2> SUFFICES ASSUME Taken' = "stop", response' # Refusal
               PROVE  \E e \in Concerned : Says(e, {response'} \cap Stopping)
    BY <1>3 DEF LagIsWaitedOut, Stopping
  <2>1. response' \notin Retryable \cup {"none", "package"}
    <3>1. Retryable \cap HardStops = {}
      BY DEF Retryable, HardStops
    <3>2. QED
      BY <3>1 DEF Taken
  <2>2. Stops(a) /\ response' = a.kind
    BY <1>2, <2>1, ShortCodes DEF Ended
  <2>3. a.kind \in {response'} \cap Stopping /\ {response'} \cap Stopping \subseteq ReplyKind
    BY <2>2 DEF Stops, Stopping, ReplyKind, ErrorCode
  <2>4. "no_close_found" \notin {response'} \cap Stopping
    BY DEF Stopping
  <2>5. QED
    BY <1>1, <1>3, <2>3, <2>4, SaidByDaemon
<1>10. QED
  BY <1>5, <1>6, <1>7, <1>8, <1>9 DEF IEnd

THEOREM EndInvariance == Spec => []IEnd
<1>1. IInv /\ IEnd /\ [Next]_vars => IEnd'
  <2> SUFFICES ASSUME IInv, IEnd, [Next]_vars PROVE IEnd'
    OBVIOUS
  <2>1. CASE UNCHANGED <<request, settled, signatures, fixed, tally, response>>
    BY <2>1 DEF IEnd, Marked, Whole, Truthful, OutagesAreNotFaults, LagIsWaitedOut, Unforged,
                Concerned, Candidates, Taken, Refusal
  <2>2. CASE UNCHANGED vars
    BY <2>1, <2>2 DEF vars
  <2>3. ASSUME NEW s \in Registered, NEW d \in flying[s], LateAnswer(s, d) PROVE IEnd'
    BY <2>1, <2>3 DEF LateAnswer
  <2>4. QED
    BY <2>2, <2>3, StepCases, MigrateEnd, JudgedEnd
<1>2. QED
  BY InitEnd, <1>1, Invariance, PTL DEF Spec

\* A fleet that only fails is never reported as one that disagrees.
THEOREM OutageTheorem == Spec => []OutagesAreNotFaults
<1>1. IEnd => OutagesAreNotFaults
  BY DEF IEnd
<1>2. QED
  BY <1>1, EndInvariance, PTL

\* The open service gives up only on a refusal of its request or of its chain.
THEOREM LagTheorem == Spec => []LagIsWaitedOut
<1>1. IEnd => LagIsWaitedOut
  BY DEF IEnd
<1>2. QED
  BY <1>1, EndInvariance, PTL

-----------------------------------------------------------------------------
(***************************************************************************)
(* How a request runs out.  An answer of an unsettled source takes d out    *)
(* of the daemons that source can still hear of, and adds none.             *)
(***************************************************************************)

\* Of s: the daemons not asked yet and those whose answer is awaited.
Awaited(s) == (Notaries[s] \ asked[s]) \cup flying[s]

\* Each answer uses up one daemon of one source, for good: nobody is asked
\* twice, and a request is over after as many answers as its sources list daemons.
OneAnswerLess ==
    \E s \in Registered : \E d \in Awaited(s) :
        \A x \in Registered : Awaited(x)' = IF x = s THEN Awaited(s) \ {d} ELSE Awaited(x)

\* Once a request is answered, what arrives late changes nothing but what is
\* still in flight.
LateChangesNothing ==
    response # "none" =>
        UNCHANGED <<request, source, settled, asked, signatures, fixed, tally, response>>

LEMMA MovesUseUp ==
    ASSUME IInv, NEW s \in Registered, NEW d \in flying[s], s \notin settled, Moves(s, d)
    PROVE  OneAnswerLess
<1>0. /\ source = s /\ s \in Candidates /\ d \in asked[s]
      /\ \A t \in Candidates \ (settled \cup {s}) : asked[t] = {} /\ flying[t] = {}
  BY AskedSource DEF IInv, Unstarted, Candidates
<1>1. d \in Awaited(s)
  BY DEF Awaited
<1>2. CASE Stays(s, d)
  <2>1. PICK E \in SUBSET (Notaries[s] \ asked[s]) :
           /\ asked' = [asked EXCEPT ![s] = @ \cup E]
           /\ flying' = [flying EXCEPT ![s] = (@ \ {d}) \cup E]
    BY <1>2 DEF Stays
  <2>2. /\ asked'[s] = asked[s] \cup E /\ flying'[s] = (flying[s] \ {d}) \cup E
        /\ \A x \in Registered \ {s} : asked'[x] = asked[x] /\ flying'[x] = flying[x]
    BY <2>1 DEF IInv, TypeOK
  <2>3. Awaited(s)' = Awaited(s) \ {d}
    BY <1>0, <2>2 DEF Awaited
  <2>4. QED
    BY <1>1, <2>2, <2>3 DEF OneAnswerLess, Awaited
<1>3. CASE Ends(s, d)
  <2>1. /\ asked' = asked /\ flying'[s] = flying[s] \ {d}
        /\ \A x \in Registered \ {s} : flying'[x] = flying[x]
    BY <1>3 DEF Ends, Landed, IInv, TypeOK
  <2>2. Awaited(s)' = Awaited(s) \ {d}
    BY <1>0, <2>1 DEF Awaited
  <2>3. QED
    BY <1>1, <2>1, <2>2 DEF OneAnswerLess, Awaited
<1>4. CASE Advances(s, d)
  <2>1. PICK t \in Candidates \ (settled \cup {s}) : \E D \in SUBSET Notaries[t] :
           /\ asked' = [asked EXCEPT ![t] = D]
           /\ flying' = [Landed(s, d) EXCEPT ![t] = D]
    BY <1>4 DEF Advances
  <2>2. PICK D \in SUBSET Notaries[t] :
           /\ asked' = [asked EXCEPT ![t] = D]
           /\ flying' = [Landed(s, d) EXCEPT ![t] = D]
    BY <2>1
  <2>3. t # s /\ t \in Registered
    BY DEF Candidates
  <2>4. /\ asked'[t] = D /\ flying'[t] = D
        /\ asked'[s] = asked[s] /\ flying'[s] = flying[s] \ {d}
        /\ \A x \in Registered \ {s, t} : asked'[x] = asked[x] /\ flying'[x] = flying[x]
    BY <2>2, <2>3 DEF Landed, IInv, TypeOK
  <2>5. Awaited(s)' = Awaited(s) \ {d}
    BY <1>0, <2>4 DEF Awaited
  <2>6. Awaited(t)' = Awaited(t)
    BY <1>0, <2>4 DEF Awaited
  <2>7. QED
    BY <1>1, <2>3, <2>4, <2>5, <2>6 DEF OneAnswerLess, Awaited
<1>5. QED
  BY <1>2, <1>3, <1>4 DEF Moves

\* The judged answers are moves.
LEMMA JudgedMoves ==
    ASSUME IInv, NEW s \in Registered, NEW d \in flying[s], NEW a \in Answers(s, d),
           \/ StoppingAnswer(s, d, a) \/ AbandoningAnswer(s, d, a)
           \/ UncountedAnswer(s, d, a) \/ CountedAnswer(s, d, a)
    PROVE  s \notin settled /\ Moves(s, d)
<1>0. s \notin settled
  BY DEF StoppingAnswer, AbandoningAnswer, UncountedAnswer, CountedAnswer, Judged
<1>1. TypeOK /\ tally \in SUBSET Flag /\ tally \cup Blame(s, a) \in SUBSET Flag
  BY BlameIsFlags DEF IInv, TypeOK
<1>2. CASE StoppingAnswer(s, d, a)
  BY <1>0, <1>2 DEF StoppingAnswer, Stops, Respond, Moves, Ends, Answered
<1>3. CASE AbandoningAnswer(s, d, a)
  <2>1. NextSource(s, d, tally)
    BY <1>3 DEF AbandoningAnswer
  <2>2. QED
    BY <1>0, <1>1, <2>1, NextSourceMoves DEF Moves
<1>4. CASE UncountedAnswer(s, d, a)
  <2>1. Ask(s, d, tally \cup Blame(s, a))
    BY <1>4 DEF UncountedAnswer
  <2>2. QED
    BY <1>0, <1>1, <2>1, AskMoves
<1>5. CASE CountedAnswer(s, d, a)
  <2> DEFINE sigs == signatures[s] \cup {<<a.signer, d>>}
  <2>1. SettleIfIdle(s, d, sigs, tally) \/ Respond(s, d, "package")
    BY <1>5 DEF CountedAnswer
  <2> HIDE DEF sigs
  <2>2. CASE SettleIfIdle(s, d, sigs, tally)
    BY <1>0, <1>1, <2>2, SettleIfIdleMoves
  <2>3. CASE Respond(s, d, "package")
    BY <1>0, <2>3 DEF Respond, Moves, Ends, Answered
  <2>4. QED
    BY <2>1, <2>2, <2>3
<1>6. QED
  BY <1>0, <1>2, <1>3, <1>4, <1>5

LEMMA LateUsesUp ==
    ASSUME IInv, NEW s \in Registered, NEW d \in flying[s], LateAnswer(s, d)
    PROVE  OneAnswerLess
<1>1. /\ asked' = asked /\ flying'[s] = flying[s] \ {d} /\ d \in asked[s]
      /\ \A x \in Registered \ {s} : flying'[x] = flying[x]
  BY DEF LateAnswer, Landed, IInv, TypeOK, Asking
<1>2. d \in Awaited(s) /\ Awaited(s)' = Awaited(s) \ {d}
  BY <1>1 DEF Awaited
<1>3. QED
  BY <1>1, <1>2 DEF OneAnswerLess, Awaited

\* After the first asks every step is an answer, and uses one daemon up.  With
\* WindowTheorem, by which an unanswered request always awaits an answer, a
\* request over finitely many daemons is answered once those answer.
THEOREM RunOutTheorem == Spec => [][source # NoDna => OneAnswerLess]_vars
<1>1. IInv /\ [Next]_vars => [source # NoDna => OneAnswerLess]_vars
  <2> SUFFICES ASSUME IInv, Next, source # NoDna
               PROVE  OneAnswerLess \/ UNCHANGED vars
    OBVIOUS
  <2>1. ~Migrate
    BY DEF Migrate
  <2>2. ASSUME NEW s \in Registered, NEW d \in flying[s], LateAnswer(s, d)
        PROVE  OneAnswerLess
    BY <2>2, LateUsesUp
  <2>3. ASSUME NEW s \in Registered, NEW d \in flying[s], NEW a \in Answers(s, d),
               \/ StoppingAnswer(s, d, a) \/ AbandoningAnswer(s, d, a)
               \/ UncountedAnswer(s, d, a) \/ CountedAnswer(s, d, a)
        PROVE  OneAnswerLess
    BY <2>3, JudgedMoves, MovesUseUp
  <2>4. QED
    BY <2>1, <2>2, <2>3, StepCases
<1>2. QED
  BY <1>1, Invariance, PTL DEF Spec

\* A request is answered once, and what arrives later changes nothing of it.
THEOREM FinalTheorem == Spec => [][LateChangesNothing]_vars
<1>1. IInv /\ [Next]_vars => [LateChangesNothing]_vars
  <2> SUFFICES ASSUME IInv, Next, response # "none"
               PROVE  LateChangesNothing \/ UNCHANGED vars
    BY DEF LateChangesNothing
  <2>1. ~Migrate
    BY DEF Migrate
  <2>2. ASSUME NEW s \in Registered, NEW d \in flying[s], LateAnswer(s, d)
        PROVE  LateChangesNothing
    BY <2>2 DEF LateAnswer, LateChangesNothing
  <2>3. ASSUME NEW s \in Registered, NEW d \in flying[s], NEW a \in Answers(s, d),
               \/ StoppingAnswer(s, d, a) \/ AbandoningAnswer(s, d, a)
               \/ UncountedAnswer(s, d, a) \/ CountedAnswer(s, d, a)
        PROVE  FALSE
    BY <2>3, JudgedMoves, AskedSource
  <2>4. QED
    BY <2>1, <2>2, <2>3, StepCases
<1>2. QED
  BY <1>1, Invariance, PTL DEF Spec

-----------------------------------------------------------------------------
(***************************************************************************)
(* A close that can be served is served.  When of the daemons of a source   *)
(* those that see the close hold M keys, each honest one whose answer has    *)
(* landed has its key among the signatures, so that the source cannot run    *)
(* out of daemons short of M.                                                *)
(***************************************************************************)
Seen ==
    Servable => \A s \in Candidates \ settled : Serves(s) =>
        \A d \in asked[s] \ (flying[s] \cup Faulty) : KeyOf[d] \in Signers(s) \cup {Agent}

ISeen == Seen /\ ServableIsServed

\* An honest daemon of such a source attests the close, which is the one fixed.
LEMMA HonestSees ==
    ASSUME IInv, IEnd, Servable, NEW s \in Registered, Serves(s),
           NEW d \in Notaries[s], d \notin Faulty, NEW a \in Answers(s, d)
    PROVE  Agrees(s, a) /\ ~BindsElsewhere(s, a) /\ a.signer = KeyOf[d]
<1>1. a = Attestation(TrueClose[s], KeyOf[d])
  BY DEF Answers, HonestAnswers, Serves
<1>2. a.kind = "attestation" /\ a.package = TrueClose[s] /\ a.signer = KeyOf[d]
  BY <1>1 DEF Attestation
<1>3. TrueClose[s].source = s /\ TrueClose[s].agent = Agent /\ TrueClose[s].target = request.to
  BY DaemonAssumption DEF Serves
<1>4. fixed[s] \in {NoPackage, TrueClose[s]}
  BY DEF IEnd, Truthful, Servable
<1>5. QED
  BY <1>2, <1>3, <1>4 DEF Agrees, Own, BindsElsewhere, Fixing

\* Distinct keys are no more than the signatures they come from.
LEMMA KeysOfSignatures ==
    ASSUME NEW sigs, IsFiniteSet(sigs)
    PROVE  /\ IsFiniteSet({g[1] : g \in sigs})
           /\ Cardinality({g[1] : g \in sigs}) <= Cardinality(sigs)
           /\ Cardinality({g[1] : g \in sigs}) \in Nat
           /\ Cardinality(sigs) \in Nat
<1> DEFINE keys == {g[1] : g \in sigs}
           key == [g \in sigs |-> g[1]]
<1>1. key \in Surjection(sigs, keys)
  BY DEF Surjection
<1>2. IsFiniteSet(keys) /\ Cardinality(keys) <= Cardinality(sigs)
  BY <1>1, FS_Surjection
<1>3. QED
  BY <1>2, FS_CardinalityType

\* The last daemon of such a source cannot leave it short of M.
LEMMA LastIsEnough ==
    ASSUME IInv, ISeen, Servable, NEW s \in Candidates, Serves(s), s \notin settled,
           NEW d, flying[s] = {d}, asked[s] = Notaries[s],
           NEW sigs, IsFiniteSet(sigs), signatures[s] \subseteq sigs,
           d \notin Faulty => KeyOf[d] \in {g[1] : g \in sigs} \cup {Agent}
    PROVE  Cardinality(sigs) >= Threshold[s]
<1> DEFINE keys == {g[1] : g \in sigs}
<1>1. Signers(s) \subseteq keys
  BY DEF Signers
<1>2. \A e \in Notaries[s] \ Faulty : KeyOf[e] \in keys \cup {Agent}
  <2> SUFFICES ASSUME NEW e \in Notaries[s] \ Faulty PROVE KeyOf[e] \in keys \cup {Agent}
    OBVIOUS
  <2>1. CASE e = d
    BY <2>1
  <2>2. CASE e # d
    <3>1. e \in asked[s] \ (flying[s] \cup Faulty)
      BY <2>2
    <3>2. KeyOf[e] \in Signers(s) \cup {Agent}
      BY <3>1 DEF ISeen, Seen
    <3>3. QED
      BY <1>1, <3>2
  <2>3. QED
    BY <2>1, <2>2
<1>3. KeysSeeing(s) \subseteq keys
  BY <1>2 DEF KeysSeeing
<1>4. /\ IsFiniteSet(keys) /\ Cardinality(keys) <= Cardinality(sigs)
      /\ Cardinality(keys) \in Nat /\ Cardinality(sigs) \in Nat
  BY KeysOfSignatures
<1>5. Cardinality(KeysSeeing(s)) <= Cardinality(keys) /\ Cardinality(KeysSeeing(s)) \in Nat
  BY <1>3, <1>4, FS_Subset, FS_CardinalityType
<1>6. Threshold[s] \in Nat /\ Cardinality(KeysSeeing(s)) >= Threshold[s]
  BY RegistryAssumption DEF Candidates, Serves
<1>7. QED
  BY <1>4, <1>5, <1>6

\* An answer lands d alone, and begins a source with everyone in flight.
LEMMA MovesLand ==
    ASSUME IInv, NEW s \in Registered, NEW d \in flying[s], s \notin settled, Moves(s, d)
    PROVE  \A x \in Registered : \A e \in asked'[x] \ flying'[x] :
               e \in asked[x] \ flying[x] \/ (x = s /\ e = d)
<1>0. /\ source = s /\ s \in Candidates /\ d \in asked[s]
  BY AskedSource
<1>1. CASE Stays(s, d)
  BY <1>0, <1>1 DEF Stays, IInv, TypeOK
<1>2. CASE Ends(s, d)
  BY <1>0, <1>2 DEF Ends, Landed, IInv, TypeOK
<1>3. CASE Advances(s, d)
  <2>0. PICK t \in Candidates \ (settled \cup {s}) : \E D \in SUBSET Notaries[t] :
           /\ asked' = [asked EXCEPT ![t] = D]
           /\ flying' = [Landed(s, d) EXCEPT ![t] = D]
    BY <1>3 DEF Advances
  <2>1. PICK D \in SUBSET Notaries[t] :
           /\ asked' = [asked EXCEPT ![t] = D]
           /\ flying' = [Landed(s, d) EXCEPT ![t] = D]
    BY <2>0
  <2>2. t # s /\ t \in Registered
    BY DEF Candidates
  <2>3. QED
    BY <1>0, <2>1, <2>2 DEF Landed, IInv, TypeOK
<1>4. QED
  BY <1>1, <1>2, <1>3 DEF Moves

\* How an answer that neither stops the request nor abandons its source settles it.
LEMMA SettledShort ==
    ASSUME IInv, IWindow, NEW s \in Registered, NEW d \in flying[s], NEW a \in Answers(s, d),
           UncountedAnswer(s, d, a) \/ CountedAnswer(s, d, a), s \in settled'
    PROVE  \/ response' = "package"
           \/ /\ flying[s] = {d} /\ asked[s] = Notaries[s]
              /\ Cardinality(signatures'[s]) < Threshold[s]
<1>0. s \notin settled /\ TypeOK
  BY DEF UncountedAnswer, CountedAnswer, Judged, IInv
<1>1. CASE UncountedAnswer(s, d, a)
  <2>1. Ask(s, d, tally \cup Blame(s, a)) /\ UNCHANGED signatures
    BY <1>1 DEF UncountedAnswer
  <2>2. flying[s] = {d} /\ asked[s] = Notaries[s]
    BY <1>0, <2>1 DEF Ask, SettleIfIdle
  <2>3. Cardinality(signatures[s]) < Threshold[s]
    <3>1. /\ Cardinality(signatures[s]) \in Nat /\ Cardinality(flying[s]) \in Nat
          /\ Threshold[s] \in Nat /\ Cardinality(flying[s]) >= 1
          /\ Cardinality(signatures[s]) + Cardinality(flying[s]) <= Threshold[s]
      BY <1>0, LandingWindow
    <3>2. QED
      BY <3>1
  <2>4. QED
    BY <2>1, <2>2, <2>3
<1>2. CASE CountedAnswer(s, d, a)
  <2> DEFINE sigs == signatures[s] \cup {<<a.signer, d>>}
  <2>1. /\ signatures' = [signatures EXCEPT ![s] = sigs]
        /\ \/ Cardinality(sigs) < Threshold[s] /\ SettleIfIdle(s, d, sigs, tally)
           \/ Respond(s, d, "package")
    BY <1>2 DEF CountedAnswer
  <2>2. signatures'[s] = sigs
    BY <1>0, <2>1 DEF TypeOK
  <2> HIDE DEF sigs
  <2>3. CASE Cardinality(sigs) < Threshold[s] /\ SettleIfIdle(s, d, sigs, tally)
    BY <1>0, <2>2, <2>3 DEF SettleIfIdle
  <2>4. CASE Respond(s, d, "package")
    BY <2>4 DEF Respond
  <2>5. QED
    BY <2>1, <2>3, <2>4
<1>3. QED
  BY <1>1, <1>2

\* While the close can be served no answer stops the request, a source that can
\* serve it is not abandoned, and an honest daemon of it leaves its key.
LEMMA ServableAnswer ==
    ASSUME IInv, IEnd, Servable, NEW s \in Registered, NEW d \in flying[s],
           NEW a \in Answers(s, d), s \in Candidates, d \in Notaries[s],
           \/ StoppingAnswer(s, d, a) \/ AbandoningAnswer(s, d, a)
           \/ UncountedAnswer(s, d, a) \/ CountedAnswer(s, d, a)
    PROVE  /\ ~Stops(a)
           /\ signatures[s] \subseteq signatures'[s]
           /\ Serves(s) =>
                 /\ UncountedAnswer(s, d, a) \/ CountedAnswer(s, d, a)
                 /\ d \notin Faulty => KeyOf[d] \in {g[1] : g \in signatures'[s]} \cup {Agent}
<1>1. d \in Concerned
  BY DEF Concerned
<1>2. ~Stops(a)
  <2>1. ~Says(d, {"warranted", "bad_request"})
    BY <1>1 DEF Servable
  <2>2. QED
    BY <2>1, SaidByDaemon DEF Stops, ReplyKind, ErrorCode
<1>3. signatures[s] \subseteq signatures'[s]
  BY DEF StoppingAnswer, AbandoningAnswer, UncountedAnswer, CountedAnswer, IInv, TypeOK
<1>4. ASSUME Serves(s) PROVE UncountedAnswer(s, d, a) \/ CountedAnswer(s, d, a)
  <2>1. ~StoppingAnswer(s, d, a)
    BY <1>2 DEF StoppingAnswer
  <2>2. ~BindsElsewhere(s, a)
    <3>1. CASE d \in Faulty
      <4>1. a.kind # "attestation"
        BY <1>1, <3>1 DEF Servable, Unforged, Says, Answers
      <4>2. QED
        BY <4>1 DEF BindsElsewhere, Own
    <3>2. CASE d \notin Faulty
      BY <1>4, <3>2, HonestSees
    <3>3. QED
      BY <3>1, <3>2
  <2>3. QED
    BY <2>1, <2>2 DEF AbandoningAnswer
<1>5. ASSUME Serves(s), d \notin Faulty
      PROVE  KeyOf[d] \in {g[1] : g \in signatures'[s]} \cup {Agent}
  <2>1. Agrees(s, a) /\ a.signer = KeyOf[d]
    BY <1>5, HonestSees
  <2>2. CASE UncountedAnswer(s, d, a)
    <3>1. KeyOf[d] \in Signers(s) \cup {Agent} /\ UNCHANGED signatures
      BY <2>1, <2>2 DEF UncountedAnswer, Counts
    <3>2. QED
      BY <3>1 DEF Signers
  <2>3. CASE CountedAnswer(s, d, a)
    <3>1. signatures'[s] = signatures[s] \cup {<<a.signer, d>>}
      BY <2>3 DEF CountedAnswer, IInv, TypeOK
    <3>2. <<a.signer, d>>[1] = KeyOf[d]
      BY <2>1
    <3>3. QED
      BY <3>1, <3>2
  <2>4. QED
    BY <1>4, <1>5, <2>2, <2>3
<1>6. QED
  BY <1>2, <1>3, <1>4, <1>5

LEMMA JudgedSeen ==
    ASSUME IInv, IInv', IWindow, IEnd, ISeen,
           NEW s \in Registered, NEW d \in flying[s], NEW a \in Answers(s, d),
           \/ StoppingAnswer(s, d, a) \/ AbandoningAnswer(s, d, a)
           \/ UncountedAnswer(s, d, a) \/ CountedAnswer(s, d, a)
    PROVE  ISeen'
<1>1. /\ response = "none" /\ UNCHANGED request
      /\ s \in Candidates /\ d \in Notaries[s]
      /\ \A x \in Registered : x # s => signatures'[x] = signatures[x]
  BY AnswerEnds
<1>2. PICK flags \in {tally, tally \cup Blame(s, a)} : Ended(s, a, signatures'[s], flags)
  BY AnswerEnds
<1>3. s \notin settled /\ Moves(s, d)
  BY JudgedMoves
<1>4. /\ Servable' = Servable /\ Candidates' = Candidates
      /\ \A x : Serves(x)' = Serves(x)
  BY <1>1 DEF Servable, Refusal, Unforged, Concerned, Candidates, Serves
<1> SUFFICES ASSUME Servable PROVE ISeen'
  BY <1>4 DEF ISeen, Seen, ServableIsServed
<1>5. /\ ~Stops(a)
      /\ signatures[s] \subseteq signatures'[s]
      /\ Serves(s) =>
            /\ UncountedAnswer(s, d, a) \/ CountedAnswer(s, d, a)
            /\ d \notin Faulty => KeyOf[d] \in {g[1] : g \in signatures'[s]} \cup {Agent}
  BY <1>1, ServableAnswer
<1>6. IsFiniteSet(signatures'[s])
  <2>1. signatures'[s] \in {signatures[s], signatures[s] \cup {<<a.signer, d>>}}
    BY DEF StoppingAnswer, AbandoningAnswer, UncountedAnswer, CountedAnswer, IInv, TypeOK
  <2>2. QED
    BY <2>1, SignaturesAreFinite, FS_AddElement
<1>7. s \in settled' /\ Serves(s) => response' = "package"
  <2> SUFFICES ASSUME s \in settled', Serves(s), response' # "package" PROVE FALSE
    OBVIOUS
  <2>1. UncountedAnswer(s, d, a) \/ CountedAnswer(s, d, a)
    BY <1>5
  <2>2. /\ flying[s] = {d} /\ asked[s] = Notaries[s]
        /\ Cardinality(signatures'[s]) < Threshold[s]
    BY <2>1, SettledShort
  <2>3. Cardinality(signatures'[s]) >= Threshold[s]
    BY <1>1, <1>3, <1>5, <1>6, <2>2, LastIsEnough
  <2>4. Cardinality(signatures'[s]) \in Nat /\ Threshold[s] \in Nat
    BY <1>6, FS_CardinalityType, RegistryAssumption
  <2>5. QED
    BY <2>2, <2>3, <2>4
<1>8. settled' \subseteq settled \cup {s}
  BY <1>2 DEF Ended
<1>9. \A x \in settled : ~Serves(x)
  BY <1>1 DEF ISeen, ServableIsServed
<1>10. response' \in {"none", "package"}
  <2>1. PICK t \in Candidates : Serves(t)
    BY DEF Servable
  <2>2. CASE Candidates \subseteq settled'
    BY <1>4, <1>7, <1>8, <1>9, <2>1, <2>2
  <2>3. QED
    BY <1>2, <1>4, <1>5, <2>2 DEF Ended
<1>11. ServableIsServed'
  BY <1>4, <1>7, <1>8, <1>9, <1>10 DEF ServableIsServed
<1>12. Seen'
  <2> SUFFICES ASSUME NEW x \in Candidates, x \notin settled', Serves(x),
                      NEW e \in asked'[x] \ (flying'[x] \cup Faulty)
               PROVE  KeyOf[e] \in {g[1] : g \in signatures'[x]} \cup {Agent}
    BY <1>4 DEF Seen, Signers
  <2>0. x \in Registered
    BY DEF Candidates
  <2>1. e \in asked[x] \ flying[x] \/ (x = s /\ e = d)
    BY <1>3, <2>0, MovesLand
  <2>2. CASE x = s /\ e = d
    BY <1>5, <2>2
  <2>3. CASE e \in asked[x] \ flying[x]
    <3>1. x \notin settled
      <4>1. settled \subseteq settled'
        BY <1>3 DEF Moves, Stays, Ends, Advances
      <4>2. QED
        BY <4>1
    <3>2. KeyOf[e] \in Signers(x) \cup {Agent}
      BY <2>3, <3>1 DEF ISeen, Seen
    <3>3. signatures[x] \subseteq signatures'[x]
      BY <1>1, <1>5, <2>0
    <3>4. QED
      BY <3>2, <3>3 DEF Signers
  <2>4. QED
    BY <2>1, <2>2, <2>3
<1>13. QED
  BY <1>11, <1>12 DEF ISeen

LEMMA MigrateSeen == ASSUME IInv, ISeen, Migrate PROVE ISeen'
<1>1. /\ response' = Refusal /\ UNCHANGED <<request, settled, signatures>>
      /\ settled = {}
  BY DEF Migrate, IInv, Progress
<1>2. /\ Servable' = Servable /\ Candidates' = Candidates
      /\ \A x : Serves(x)' = Serves(x)
  BY <1>1 DEF Servable, Refusal, Unforged, Concerned, Candidates, Serves
<1> SUFFICES ASSUME Servable PROVE ISeen'
  BY <1>2 DEF ISeen, Seen, ServableIsServed
<1>3. Refusal = "none"
  BY DEF Servable
<1>4. ServableIsServed'
  BY <1>1, <1>3 DEF ServableIsServed
<1>5. \A x \in Registered : asked'[x] \subseteq flying'[x]
  <2>1. \A x \in Registered : asked[x] = {} /\ flying[x] = {}
    BY RegistryAssumption DEF Migrate, IInv, Progress, Unstarted
  <2>2. PICK t \in Registered : Begin(t, flying)
    BY <1>3 DEF Migrate
  <2>3. PICK D : asked' = [asked EXCEPT ![t] = D] /\ flying' = [flying EXCEPT ![t] = D]
    BY <2>2 DEF Begin
  <2>4. QED
    BY <2>1, <2>3 DEF IInv, TypeOK
<1>6. Seen'
  BY <1>5 DEF Seen, Candidates
<1>7. QED
  BY <1>4, <1>6 DEF ISeen

LEMMA LateSeen ==
    ASSUME IInv, ISeen, NEW s \in Registered, NEW d \in flying[s], LateAnswer(s, d)
    PROVE  ISeen'
<1>1. /\ s \in settled /\ UNCHANGED <<request, settled, asked, signatures, response>>
      /\ \A x \in Registered \ {s} : flying'[x] = flying[x]
  BY DEF LateAnswer, Landed, IInv, TypeOK
<1>2. /\ Servable' = Servable /\ Candidates' = Candidates
      /\ \A x : Serves(x)' = Serves(x) /\ Signers(x)' = Signers(x)
  BY <1>1 DEF Servable, Refusal, Unforged, Concerned, Candidates, Serves, Signers
<1>3. Seen'
  <2> SUFFICES ASSUME Servable, NEW x \in Candidates \ settled, Serves(x),
                      NEW e \in asked'[x] \ (flying'[x] \cup Faulty)
               PROVE  KeyOf[e] \in Signers(x) \cup {Agent}
    BY <1>1, <1>2 DEF Seen
  <2>1. x # s /\ x \in Registered
    BY <1>1 DEF Candidates
  <2>2. QED
    BY <1>1, <2>1 DEF ISeen, Seen
<1>4. ServableIsServed'
  BY <1>1, <1>2 DEF ISeen, ServableIsServed
<1>5. QED
  BY <1>3, <1>4 DEF ISeen

\* A request for a close that can be served is never answered anything but the
\* package, in whatever order the daemons answer and whatever the others fail with.
THEOREM ServableTheorem == Spec => []ServableIsServed
<1>1. Init => ISeen
  BY DEF Init, ISeen, Seen, ServableIsServed
<1>2. IInv /\ IInv' /\ IWindow /\ IEnd /\ ISeen /\ [Next]_vars => ISeen'
  <2> SUFFICES ASSUME IInv, IInv', IWindow, IEnd, ISeen, [Next]_vars PROVE ISeen'
    OBVIOUS
  <2>1. CASE UNCHANGED vars
    BY <2>1 DEF vars, ISeen, Seen, ServableIsServed, Servable, Refusal, Unforged, Concerned,
                Candidates, Serves, Signers
  <2>2. ASSUME NEW s \in Registered, NEW d \in flying[s], LateAnswer(s, d) PROVE ISeen'
    BY <2>2, LateSeen
  <2>3. QED
    BY <2>1, <2>2, StepCases, MigrateSeen, JudgedSeen
<1>3. ISeen => ServableIsServed
  BY DEF ISeen
<1>4. QED
  BY <1>1, <1>2, <1>3, Invariance, WindowInvariance, EndInvariance, PTL DEF Spec

-----------------------------------------------------------------------------
(***************************************************************************)
(* What "no_close_found" leaves out.  Until a fault is tallied, an honest   *)
(* daemon that attests the requested close has left its key among the       *)
(* signatures once its answer has landed, and a source that no close of     *)
(* another target ends settles only when all have.                          *)
(***************************************************************************)
Straight(s) == \A d \in Notaries[s] \cap Faulty : ~Redirects(s, d)

Left(s, d) == KeyOf[d] \in Signers(s) \cup {Agent}

Told ==
    "fault" \notin tally =>
        \A s \in Candidates \ settled : Straight(s) =>
            \A d \in Attesting(s) : d \in asked[s] \ flying[s] => Left(s, d)

ToldAll ==
    "fault" \notin tally /\ response \in {"none", "no_close_found"} =>
        \A s \in settled : Straight(s) => \A d \in Attesting(s) : Left(s, d)

ITold == Told /\ ToldAll

\* An honest daemon that attests the requested close: its answer is judged against
\* the package and ends nothing.
LEMMA AttestingAnswers ==
    ASSUME NEW s \in Registered, NEW d \in Attesting(s), NEW a \in Answers(s, d)
    PROVE  /\ Own(s, a) /\ a.package.target = request.to /\ a.signer = KeyOf[d]
           /\ a.kind = "attestation"
           /\ ~Stops(a) /\ ~BindsElsewhere(s, a)
<1>1. /\ TrueClose[s] # NoPackage /\ TrueClose[s].target = request.to
      /\ d \in Notaries[s] \ Faulty /\ HonestReplies[d] = {}
  BY DEF Attesting
<1>2. a = Attestation(TrueClose[s], KeyOf[d])
  BY <1>1 DEF Answers, HonestAnswers
<1>3. a.kind = "attestation" /\ a.package = TrueClose[s] /\ a.signer = KeyOf[d]
  BY <1>2 DEF Attestation
<1>4. TrueClose[s].source = s /\ TrueClose[s].agent = Agent
  BY <1>1, DaemonAssumption
<1>5. QED
  BY <1>1, <1>3, <1>4 DEF Own, Stops, BindsElsewhere

\* What an uncounted answer is blamed for is tallied.
LEMMA BlameIsTallied ==
    ASSUME NEW s, NEW d, NEW a, UncountedAnswer(s, d, a)
    PROVE  Blame(s, a) \subseteq tally'
  BY DEF UncountedAnswer, Ask, SettleIfIdle, NextSource

\* A judged answer of such a daemon leaves its key, or a fault.
LEMMA AttestingIsLeft ==
    ASSUME TypeOK, NEW s \in Registered, NEW d \in Attesting(s), NEW a \in Answers(s, d),
           UncountedAnswer(s, d, a) \/ CountedAnswer(s, d, a), "fault" \notin tally'
    PROVE  KeyOf[d] \in {g[1] : g \in signatures'[s]} \cup {Agent}
<1>1. Own(s, a) /\ a.signer = KeyOf[d] /\ a.kind = "attestation"
  BY AttestingAnswers
<1>2. CASE UncountedAnswer(s, d, a)
  <2>1. Agrees(s, a)
    BY <1>1, <1>2, BlameIsTallied DEF Blame
  <2>2. KeyOf[d] \in Signers(s) \cup {Agent} /\ UNCHANGED signatures
    BY <1>1, <1>2, <2>1 DEF UncountedAnswer, Counts
  <2>3. QED
    BY <2>2 DEF Signers
<1>3. CASE CountedAnswer(s, d, a)
  <2>1. signatures'[s] = signatures[s] \cup {<<a.signer, d>>}
    BY <1>3 DEF CountedAnswer, TypeOK
  <2>2. <<a.signer, d>>[1] = KeyOf[d]
    BY <1>1
  <2>3. QED
    BY <2>1, <2>2
<1>4. QED
  BY <1>2, <1>3

\* No answer of a straight source that has such a daemon binds elsewhere.
LEMMA StraightAnswers ==
    ASSUME NEW s \in Registered, NEW d \in Notaries[s], NEW a \in Answers(s, d),
           Straight(s), NEW e \in Attesting(s)
    PROVE  ~BindsElsewhere(s, a)
<1>1. CASE d \in Faulty
  BY <1>1 DEF Straight, Redirects, Answers, BindsElsewhere
<1>2. CASE d \notin Faulty
  <2>1. TrueClose[s].target = request.to /\ TrueClose[s] # NoPackage
    BY DEF Attesting
  <2>2. CASE a = Attestation(TrueClose[s], KeyOf[d])
    BY <2>1, <2>2 DEF Attestation, BindsElsewhere
  <2>3. CASE \E k \in HonestReplies[d] : a = Reply(k)
    <3>1. PICK k \in HonestReplies[d] : a = Reply(k)
      BY <2>3
    <3>2. k \in ReplyKind
      BY <1>2, DaemonAssumption, AnswersAreTyped
    <3>3. a.kind # "attestation"
      BY <3>1, <3>2 DEF Reply, ReplyKind, ErrorCode
    <3>4. QED
      BY <3>3 DEF BindsElsewhere, Own
  <2>4. QED
    BY <1>2, <2>1, <2>2, <2>3 DEF Answers, HonestAnswers
<1>3. QED
  BY <1>1, <1>2

LEMMA JudgedTold ==
    ASSUME IInv, IInv', IWindow, ITold,
           NEW s \in Registered, NEW d \in flying[s], NEW a \in Answers(s, d),
           \/ StoppingAnswer(s, d, a) \/ AbandoningAnswer(s, d, a)
           \/ UncountedAnswer(s, d, a) \/ CountedAnswer(s, d, a)
    PROVE  ITold'
<1>1. /\ response = "none" /\ UNCHANGED request
      /\ s \in Candidates /\ d \in Notaries[s]
      /\ \A x \in Registered : x # s => signatures'[x] = signatures[x]
  BY AnswerEnds
<1>2. PICK flags \in {tally, tally \cup Blame(s, a)} : Ended(s, a, signatures'[s], flags)
  BY AnswerEnds
<1>3. s \notin settled /\ Moves(s, d)
  BY JudgedMoves
<1>4. /\ Candidates' = Candidates
      /\ \A x : Straight(x)' = Straight(x) /\ Attesting(x)' = Attesting(x)
  BY <1>1 DEF Candidates, Straight, Redirects, Own, Attesting
<1>5. settled \subseteq settled' /\ settled' \subseteq settled \cup {s} /\ tally \subseteq tally'
  BY <1>2, <1>3 DEF Ended, Moves, Stays, Ends, Advances
<1>6. signatures[s] \subseteq signatures'[s]
  BY DEF StoppingAnswer, AbandoningAnswer, UncountedAnswer, CountedAnswer, IInv, TypeOK
<1>7. \A x \in Registered : \A e : Left(x, e) => Left(x, e)'
  BY <1>1, <1>6 DEF Left, Signers
<1> SUFFICES ASSUME "fault" \notin tally' PROVE ITold'
  BY DEF ITold, Told, ToldAll
<1>8. "fault" \notin tally
  BY <1>5
<1>9. ASSUME UncountedAnswer(s, d, a) \/ CountedAnswer(s, d, a), d \in Attesting(s)
      PROVE  Left(s, d)'
  BY <1>9, AttestingIsLeft DEF IInv, Left, Signers
<1>10. ASSUME NEW e \in Attesting(s), Straight(s)
       PROVE  ~AbandoningAnswer(s, d, a)
  BY <1>1, <1>10, StraightAnswers DEF AbandoningAnswer
<1>11. ASSUME StoppingAnswer(s, d, a)
       PROVE  s \in settled' /\ response' \notin {"none", "no_close_found"}
  BY <1>11 DEF StoppingAnswer, Respond, Stops
<1>12. Told'
  <2> SUFFICES ASSUME NEW x \in Candidates, x \notin settled', Straight(x),
                      NEW e \in Attesting(x), e \in asked'[x] \ flying'[x]
               PROVE  Left(x, e)'
    BY <1>4 DEF Told
  <2>0. x \in Registered /\ x \notin settled
    BY <1>5 DEF Candidates
  <2>1. e \in asked[x] \ flying[x] \/ (x = s /\ e = d)
    BY <1>3, <2>0, MovesLand
  <2>2. CASE x = s /\ e = d
    BY <1>9, <1>10, <1>11, <2>2
  <2>3. CASE e \in asked[x] \ flying[x]
    BY <1>7, <1>8, <2>0, <2>3 DEF ITold, Told
  <2>4. QED
    BY <2>1, <2>2, <2>3
<1>13. ToldAll'
  <2> SUFFICES ASSUME response' \in {"none", "no_close_found"}, NEW x \in settled', Straight(x),
                      NEW e \in Attesting(x)
               PROVE  Left(x, e)'
    BY <1>4 DEF ToldAll
  <2>1. CASE x \in settled
    <3>1. x \in Registered
      BY <2>1 DEF IInv, TypeOK
    <3>2. Left(x, e)
      BY <1>1, <1>8, <2>1 DEF ITold, ToldAll
    <3>3. QED
      BY <1>7, <3>1, <3>2
  <2>2. CASE x = s
    <3>1. UncountedAnswer(s, d, a) \/ CountedAnswer(s, d, a)
      BY <1>10, <1>11, <2>2
    <3>2. flying[s] = {d} /\ asked[s] = Notaries[s]
      BY <2>2, <3>1, SettledShort
    <3>3. CASE e = d
      BY <1>9, <2>2, <3>1, <3>3
    <3>4. CASE e # d
      <4>1. e \in asked[s] \ flying[s]
        BY <2>2, <3>2, <3>4 DEF Attesting
      <4>2. Left(s, e)
        BY <1>1, <1>3, <1>8, <2>2, <4>1 DEF ITold, Told
      <4>3. QED
        BY <1>7, <2>2, <4>2
    <3>5. QED
      BY <3>3, <3>4
  <2>3. QED
    BY <1>5, <2>1, <2>2
<1>14. QED
  BY <1>12, <1>13 DEF ITold

LEMMA MigrateTold == ASSUME IInv, Migrate PROVE ITold'
<1>1. settled' = {}
  BY DEF Migrate, IInv, Progress
<1>2. \A x \in Registered : asked'[x] \subseteq flying'[x]
  <2>1. \A x \in Registered : asked[x] = {} /\ flying[x] = {}
    BY RegistryAssumption DEF Migrate, IInv, Progress, Unstarted
  <2>2. CASE UNCHANGED <<asked, flying>>
    BY <2>1, <2>2
  <2>3. CASE \E t \in Registered : Begin(t, flying)
    <3>1. PICK t \in Registered : Begin(t, flying)
      BY <2>3
    <3>2. PICK D : asked' = [asked EXCEPT ![t] = D] /\ flying' = [flying EXCEPT ![t] = D]
      BY <3>1 DEF Begin
    <3>3. QED
      BY <2>1, <3>2 DEF IInv, TypeOK
  <2>4. QED
    BY <2>2, <2>3 DEF Migrate
<1>3. QED
  BY <1>1, <1>2 DEF ITold, Told, ToldAll, Candidates

LEMMA LateTold ==
    ASSUME IInv, ITold, NEW s \in Registered, NEW d \in flying[s], LateAnswer(s, d)
    PROVE  ITold'
<1>1. /\ s \in settled /\ UNCHANGED <<request, settled, asked, signatures, tally, response>>
      /\ \A x \in Registered \ {s} : flying'[x] = flying[x]
  BY DEF LateAnswer, Landed, IInv, TypeOK
<1>2. /\ Candidates' = Candidates
      /\ \A x : Straight(x)' = Straight(x) /\ Attesting(x)' = Attesting(x)
      /\ \A x, e : Left(x, e)' = Left(x, e)
  BY <1>1 DEF Candidates, Straight, Redirects, Own, Attesting, Left, Signers
<1>3. Told'
  <2> SUFFICES ASSUME "fault" \notin tally, NEW x \in Candidates \ settled, Straight(x),
                      NEW e \in Attesting(x), e \in asked'[x] \ flying'[x]
               PROVE  Left(x, e)
    BY <1>1, <1>2 DEF Told
  <2>1. x # s /\ x \in Registered
    BY <1>1 DEF Candidates
  <2>2. QED
    BY <1>1, <2>1 DEF ITold, Told
<1>4. ToldAll'
  BY <1>1, <1>2 DEF ITold, ToldAll
<1>5. QED
  BY <1>3, <1>4 DEF ITold

\* no_close_found says that every candidate was asked, that no attestation was
\* counted, and that of no source a daemon but one of the agent's own key attests
\* the requested close whenever asked, unless a close of another target cut it short.
THEOREM NotFoundTheorem == Spec => []NotFoundMeansUnattested
<1>1. Init => ITold
  BY DEF Init, ITold, Told, ToldAll
<1>2. IInv /\ IInv' /\ IWindow /\ ITold /\ [Next]_vars => ITold'
  <2> SUFFICES ASSUME IInv, IInv', IWindow, ITold, [Next]_vars PROVE ITold'
    OBVIOUS
  <2>1. CASE UNCHANGED vars
    BY <2>1 DEF vars, ITold, Told, ToldAll, Candidates, Straight, Redirects, Own, Attesting,
                Left, Signers
  <2>2. ASSUME NEW s \in Registered, NEW d \in flying[s], LateAnswer(s, d) PROVE ITold'
    BY <2>2, LateTold
  <2>3. QED
    BY <2>1, <2>2, StepCases, MigrateTold, JudgedTold
<1>3. IInv /\ IEnd /\ ITold => NotFoundMeansUnattested
  <2> SUFFICES ASSUME IEnd, ITold, response = "no_close_found"
               PROVE  NotFoundMeansUnattested
    BY DEF NotFoundMeansUnattested
  <2>1. Candidates \subseteq settled /\ tally = {}
    BY DEF IEnd, Whole
  <2>2. \A s \in Candidates : signatures[s] = {}
    BY <2>1 DEF IEnd, Marked, Stopping
  <2>3. ASSUME NEW s \in Candidates, Straight(s), NEW d \in Attesting(s)
        PROVE  KeyOf[d] = Agent
    <3>1. Left(s, d)
      BY <2>1, <2>3 DEF ITold, ToldAll
    <3>2. QED
      BY <2>2, <3>1 DEF Left, Signers
  <2>4. QED
    BY <2>1, <2>2, <2>3 DEF NotFoundMeansUnattested, Straight
<1>4. QED
  BY <1>1, <1>2, <1>3, Invariance, WindowInvariance, EndInvariance, PTL DEF Spec
=============================================================================
