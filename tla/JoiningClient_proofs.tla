-------------------------- MODULE JoiningClient_proofs --------------------------
(***************************************************************************)
(* The types of JoiningClient, and that it implements Provisioning as long *)
(* as a tunnel that is up stays up.                                        *)
(***************************************************************************)
EXTENDS JoiningClient, TLAPS

\* An answered reconnect names a session or none.
LEMMA ReconnectNames ==
    ASSUME NEW a \in Answer, Meets(a, ServeReconnect(a)), a.http = 200
    PROVE  a.session \in Session \cup {NoSession}
<1>1. CASE "tunnel" \in missing
  BY <1>1 DEF Meets, Bare, Error
<1>2. CASE "tunnel" \notin missing
  <2>1. ServeReconnect(a)
    BY <1>2 DEF Meets
  <2>2. CASE \E s \in Session \cup {NoSession} : a = Ok("ready", s)
    BY <2>2 DEF Ok
  <2>3. CASE ~\E s \in Session \cup {NoSession} : a = Ok("ready", s)
    <3>1. \/ a = Bare
          \/ a = Error(400, "timestamp_out_of_range") \/ a = Error(400, "invalid_signature")
          \/ a = Error(403, "agent_revoked") \/ a = Error(403, "agent_not_joined")
      BY <2>1, <2>3 DEF ServeReconnect
    <3> QED BY <3>1 DEF Bare, Error
  <2> QED BY <2>2, <2>3
<1> QED BY <1>1, <1>2

\* A join that is answered with a session names one of the service's.
LEMMA JoinNames ==
    ASSUME NEW a \in Answer, Meets(a, ServeJoin(a)), a.code \in {"ready", "pending"}
    PROVE  a.session \in Session
<1>1. CASE "tunnel" \in missing
  <2>1. a = Bare
    BY <1>1 DEF Meets
  <2> QED BY <2>1 DEF Bare, Error
<1>2. CASE "tunnel" \notin missing
  BY <1>2 DEF Meets, ServeJoin, Ok, Error
<1> QED BY <1>1, <1>2

\* What is out of the client's hands: its type is kept by a step that leaves it.
Around == /\ missing \subseteq Needs
          /\ allowed \in BOOLEAN /\ revoked \in BOOLEAN
          /\ terms \in Terms

LEMMA AroundKept ==
    ASSUME TypeOK, UNCHANGED <<missing, operator, terms>>
    PROVE  Around'
<1>1. allowed' \in BOOLEAN /\ revoked' \in BOOLEAN
  BY DEF TypeOK, operator
<1>2. missing' \subseteq Needs /\ terms' \in Terms
  BY DEF TypeOK
<1> QED BY <1>1, <1>2 DEF Around

LEMMA Counted ==
    ASSUME TypeOK, Fault \/ UNCHANGED faults
    PROVE  faults' \in 0..MaxFaults
<1>1. faults \in 0..MaxFaults /\ MaxFaults \in Nat
  BY JoiningAssumption DEF TypeOK
<1> QED BY <1>1 DEF Fault

\* The client's own part of the types.
Own == /\ pc \in Requests \cup {"backoff", "failed", "down", "provided"}
       /\ held \in Session \cup {NoSession}
       /\ pc \in {"verifying", "provisioning"} => held \in Session

Table == session \in [Session -> {"free", "pending", "ready"}] /\ late \subseteq Late

LEMMA Parts == ASSUME Own', Table', Around', (faults \in 0..MaxFaults)' PROVE TypeOK'
BY DEF TypeOK, Own, Table, Around

\* A request that is given up.
LEMMA GivenUp ==
    ASSUME TypeOK, NEW call \in SUBSET Late, GiveUp(call)
    PROVE  Own' /\ Table' /\ faults' \in 0..MaxFaults
<1>1. Own'
  BY DEF GiveUp, Refused, Stop, Wait, Own, TypeOK, Requests
<1>2. Table'
  BY DEF GiveUp, Table, TypeOK
<1> QED BY <1>1, <1>2, Counted DEF GiveUp

\* The type invariant holds of every set-up, session space and number of faults.
THEOREM TypeCorrect == Spec => []TypeOK
<1>1. Init => TypeOK
  <2> SUFFICES ASSUME Init PROVE TypeOK
    OBVIOUS
  <2>1. Own /\ Table
    BY DEF Init, Own, Table, Requests
  <2>2. allowed \in BOOLEAN /\ revoked \in BOOLEAN
    BY DEF Init
  <2>3. missing \subseteq Needs /\ terms \in Terms /\ faults \in 0..MaxFaults
    BY JoiningAssumption DEF Init
  <2> QED BY <2>1, <2>2, <2>3 DEF TypeOK, Own, Table
<1>2. TypeOK /\ [Next]_vars => TypeOK'
  <2> SUFFICES ASSUME TypeOK, [Next]_vars PROVE TypeOK'
    OBVIOUS
  <2>0. Own /\ Table
    BY DEF TypeOK, Own, Table
  <2>1. CASE PostJoin
    <3>0. Around'
      BY <2>1, AroundKept DEF PostJoin
    <3>1. CASE GiveUp({<<"join", NoSession>>})
      BY <3>0, <3>1, GivenUp, Parts DEF Late
    <3>2. ASSUME NEW a \in Answer, Meets(a, ServeJoin(a)), UNCHANGED <<late, faults>>,
                 \/ a.http = 200 /\ TakeJoin(a)
                 \/ a.code = "agent_already_joined" /\ Recover
                 \/ a.code # "agent_already_joined" /\ Refused(a)
          PROVE  TypeOK'
      <4>1. Table'
        BY <2>0, <3>2 DEF Meets, ServeJoin, Table
      <4>2. Own'
        BY <2>0, <2>1, <3>2, JoinNames
           DEF PostJoin, TakeJoin, Recover, Refused, Stop, Wait, Own, Requests
      <4> QED BY <3>0, <3>2, <4>1, <4>2, Counted, Parts
    <3> QED BY <2>1, <3>1, <3>2 DEF PostJoin
  <2>2. CASE PostVerify
    <3>0. Around' /\ held \in Session
      BY <2>0, <2>2, AroundKept DEF PostVerify, Own
    <3>1. CASE GiveUp({<<"verify", held>>})
      BY <3>0, <3>1, GivenUp, Parts DEF Late
    <3>2. ASSUME NEW a \in Answer, Meets(a, ServeVerify(a, held)), UNCHANGED <<late, faults>>,
                 \/ a.code = "ready" /\ pc' = "provisioning" /\ UNCHANGED held
                 \/ a.http = 200 /\ a.code # "ready" /\ Stop
                 \/ Refused(a)
          PROVE  TypeOK'
      <4>1. Table'
        BY <2>0, <3>0, <3>2 DEF Meets, ServeVerify, Table
      <4>2. Own'
        BY <3>0, <3>2 DEF Refused, Stop, Wait, Own, Requests
      <4> QED BY <3>0, <3>2, <4>1, <4>2, Counted, Parts
    <3> QED BY <2>2, <3>1, <3>2 DEF PostVerify
  <2>3. CASE PostReconnect
    <3>0. Around'
      BY <2>3, AroundKept DEF PostReconnect
    <3>1. CASE GiveUp({})
      BY <3>0, <3>1, GivenUp, Parts
    <3>2. CASE ~GiveUp({})
      <4>1. Table' /\ UNCHANGED faults
        BY <2>0, <2>3, <3>2 DEF PostReconnect, Table, service
      <4>2. Own'
        <5>1. CASE Wait
          BY <2>0, <2>3, <5>1 DEF PostReconnect, Wait, Own, Requests
        <5>2. ASSUME NEW a \in Answer, Meets(a, ServeReconnect(a)), a.http = 200,
                     TakeSession(a.session)
              PROVE  Own'
          <6>1. a.session \in Session \cup {NoSession}
            BY <5>2, ReconnectNames
          <6> QED BY <2>0, <2>3, <5>2, <6>1 DEF PostReconnect, TakeSession, Wait, Own, Requests
        <5>3. ASSUME NEW a \in Answer, ReconnectOutcome(a)
              PROVE  Own'
          BY <2>0, <2>3, <5>3
             DEF PostReconnect, ReconnectOutcome, Refused, Stop, Wait, Own, Requests
        <5> QED BY <2>3, <3>2, <5>1, <5>2, <5>3 DEF PostReconnect
      <4> QED BY <3>0, <4>1, <4>2, Counted, Parts
    <3> QED BY <3>1, <3>2
  <2>4. CASE GetProvision
    <3>0. Around'
      BY <2>4, AroundKept DEF GetProvision
    <3>1. CASE GiveUp({})
      BY <3>0, <3>1, GivenUp, Parts
    <3>2. CASE ~GiveUp({})
      <4>1. Table' /\ UNCHANGED faults
        BY <2>0, <2>4, <3>2 DEF GetProvision, Table, service
      <4>2. Own'
        BY <2>0, <2>4, <3>2 DEF GetProvision, TakeProvision, Refused, Stop, Wait, Own, Requests
      <4> QED BY <3>0, <4>1, <4>2, Counted, Parts
    <3> QED BY <3>1, <3>2
  <2>5. CASE Again \/ InstallFails \/ Crash
    <3>1. Own'
      BY <2>0, <2>5 DEF Again, InstallFails, Crash, Wait, Own, Requests
    <3>2. Table'
      BY <2>0, <2>5 DEF Again, InstallFails, Crash, Table, service
    <3>3. Around' /\ faults' \in 0..MaxFaults
      BY <2>5, AroundKept, Counted DEF Again, InstallFails, Crash
    <3> QED BY <3>1, <3>2, <3>3, Parts
  <2>6. CASE LateCall
    <3>1. PICK call \in late, a \in Answer :
             /\ late' = late \ {call}
             /\ \/ call[1] = "join" /\ ServeJoin(a)
                \/ call[1] = "verify" /\ ServeVerify(a, call[2])
      BY <2>6 DEF LateCall
    <3>2. call[1] = "verify" => call[2] \in Session
      <4>1. call = <<"join", NoSession>> \/ \E s \in Session : call = <<"verify", s>>
        BY <2>0 DEF Table, Late
      <4> QED BY <4>1
    <3>3. Table'
      BY <2>0, <3>1, <3>2 DEF Table, ServeJoin, ServeVerify
    <3>4. Own' /\ Around' /\ faults' \in 0..MaxFaults
      BY <2>0, <2>6, AroundKept, Counted DEF LateCall, Own
    <3> QED BY <3>3, <3>4, Parts
  <2>7. CASE Expire
    <3>1. Table'
      BY <2>0, <2>7 DEF Expire, Table
    <3>2. Own' /\ Around' /\ faults' \in 0..MaxFaults
      BY <2>0, <2>7, AroundKept, Counted DEF Expire, Own
    <3> QED BY <3>1, <3>2, Parts
  <2>8. CASE Operator
    <3>1. Own' /\ Table' /\ faults' \in 0..MaxFaults
      BY <2>0, <2>8, Counted DEF Operator, Own, Table, service
    <3>2. allowed' \in BOOLEAN /\ revoked' \in BOOLEAN
      BY <2>8 DEF Operator, TypeOK
    <3>3. missing' \subseteq Needs /\ terms' \in Terms
      BY <2>8 DEF Operator, TypeOK
    <3> QED BY <3>1, <3>2, <3>3, Parts DEF Around
  <2>9. ASSUME NEW x \in Needs, Arrive(x) \/ Drop(x) PROVE TypeOK'
    <3>1. Own' /\ Table' /\ faults' \in 0..MaxFaults
      BY <2>0, <2>9, Counted DEF Arrive, Drop, Own, Table, service
    <3>2. allowed' \in BOOLEAN /\ revoked' \in BOOLEAN
      BY <2>9 DEF Arrive, Drop, TypeOK, operator
    <3>3. missing' \subseteq Needs /\ terms' \in Terms
      BY <2>9 DEF Arrive, Drop, TypeOK
    <3> QED BY <3>1, <3>2, <3>3, Parts DEF Around
  <2>10. CASE UNCHANGED vars
    <3>1. Own' /\ Table' /\ Around' /\ faults' \in 0..MaxFaults
      BY <2>0, <2>10, AroundKept, Counted DEF vars, Own, Table, service
    <3> QED BY <3>1, Parts
  <2> QED BY <2>1, <2>2, <2>3, <2>4, <2>5, <2>6, <2>7, <2>8, <2>9, <2>10 DEF Next, Client
<1> QED BY <1>1, <1>2, PTL DEF Spec
-----------------------------------------------------------------------------
\* A pass that is past its join has seen the tunnel up, and it stays up.
PastJoin == pc \in {"verifying", "reconnecting", "provisioning"} => "tunnel" \notin missing

LEMMA PastJoinInit == Init => PastJoin
BY DEF Init, PastJoin

LEMMA PastJoinNext ==
    ASSUME "tunnel" \notin Drops, PastJoin, [Next]_vars
    PROVE  PastJoin'
<1>1. CASE PostJoin
  <2>1. UNCHANGED missing
    BY <1>1 DEF PostJoin
  <2>2. CASE "tunnel" \notin missing
    BY <2>1, <2>2 DEF PastJoin
  <2>3. CASE "tunnel" \in missing
    <3>1. CASE GiveUp({<<"join", NoSession>>})
      BY <3>1 DEF GiveUp, Refused, Stop, Wait, PastJoin
    <3>2. ASSUME NEW a \in Answer, Meets(a, ServeJoin(a)),
                 \/ a.http = 200 /\ TakeJoin(a)
                 \/ a.code = "agent_already_joined" /\ Recover
                 \/ a.code # "agent_already_joined" /\ Refused(a)
          PROVE  PastJoin'
      <4>1. a = Bare
        BY <2>3, <3>2 DEF Meets
      <4>2. a.http = 404 /\ a.code = "none"
        BY <4>1 DEF Bare, Error
      <4>3. a.http # 200 /\ a.code # "agent_already_joined"
        BY <4>2
      <4>4. Refused(a)
        BY <3>2, <4>3, Zenon
      <4> QED BY <4>4 DEF Refused, Stop, Wait, PastJoin
    <3> QED BY <1>1, <3>1, <3>2 DEF PostJoin
  <2> QED BY <2>2, <2>3
<1>2. CASE PostVerify \/ PostReconnect \/ GetProvision
  <2>1. pc \in {"verifying", "reconnecting", "provisioning"} /\ UNCHANGED missing
    BY <1>2 DEF PostVerify, PostReconnect, GetProvision
  <2> QED BY <2>1 DEF PastJoin
<1>3. CASE Again \/ InstallFails \/ Crash
  BY <1>3 DEF Again, InstallFails, Crash, Wait, PastJoin
<1>4. CASE LateCall \/ Expire \/ Operator
  BY <1>4 DEF LateCall, Expire, Operator, PastJoin
<1>5. ASSUME NEW x \in Needs, Arrive(x) \/ Drop(x) PROVE PastJoin'
  BY <1>5 DEF Arrive, Drop, PastJoin
<1>6. CASE UNCHANGED vars
  BY <1>6 DEF vars, PastJoin
<1> QED BY <1>1, <1>2, <1>3, <1>4, <1>5, <1>6 DEF Next, Client

\* How steps of the client show: asking goes on, or ends one way or the other.
Asking == pc \notin {"provided", "failed"}

\* What the service and the operator hold against the key stays as it is.
Same == UNCHANGED <<operator, terms>> /\ Joined' = Joined

LEMMA GoesOn == ASSUME Asking, Asking' PROVE Promise!World
BY DEF Asking, Promise!World, Outcome, Served, Denied

LEMMA Stops == ASSUME Asking, pc' = "failed", Same, Denied PROVE Promise!Refuse
<1>1. Outcome = "asking" /\ Outcome' = "refused"
  BY DEF Asking, Outcome
<1>2. Served' = Served /\ Denied' = Denied
  BY DEF Same, Served, Denied, Listed, operator
<1> QED BY <1>1, <1>2 DEF Promise!Refuse

LEMMA Provides == ASSUME Asking, pc' = "provided", Same, Served PROVE Promise!Provide
<1>1. Outcome = "asking" /\ Outcome' = "provided"
  BY DEF Asking, Outcome
<1>2. Served' = Served /\ Denied' = Denied
  BY DEF Same, Served, Denied, Listed, operator
<1> QED BY <1>1, <1>2 DEF Promise!Provide

\* A refused join is a denied key, and leaves the ready sessions alone.
LEMMA JoinStops ==
    ASSUME TypeOK, NEW a \in Answer, Meets(a, ServeJoin(a)), UNCHANGED <<operator, terms>>,
           \/ a.http = 200 /\ TakeJoin(a) /\ a.code # "ready"
           \/ a.code # "agent_already_joined" /\ Permanent(a),
           a.code = "pending" => ~Listed
    PROVE  Denied /\ Same
<1>1. CASE "tunnel" \in missing
  <2>1. a = Bare
    BY <1>1 DEF Meets
  <2>2. a.http = 404 /\ a.code = "none"
    BY <2>1 DEF Bare, Error
  <2> QED BY <2>2 DEF Permanent
<1>2. CASE "tunnel" \notin missing
  <2>0. ServeJoin(a)
    BY <1>2 DEF Meets
  <2>1. CASE ~terms.known /\ UNCHANGED session
    BY <2>1 DEF Denied, Same, Joined
  <2>2. CASE terms.known /\ Joined /\ a = Error(409, "agent_already_joined")
    <3>1. a.http = 409 /\ a.http # 200
      BY <2>2 DEF Error
    <3>2. a.code = "agent_already_joined"
      BY <2>2 DEF Error
    <3> QED BY <3>1, <3>2, Zenon
  <2>3. CASE (revoked \/ (Listed /\ ~allowed)) /\ UNCHANGED session
    BY <2>3 DEF Denied, Same, Joined
  <2>4. ASSUME ~Joined, NEW s \in Session,
               a = Ok(CASE terms.flow = "open" -> "ready"
                        [] terms.flow = "drifted" -> "drifted"
                        [] OTHER -> "pending", s),
               session' = [session EXCEPT ![s] = IF terms.flow = "open" THEN "ready"
                                                                        ELSE "pending"]
        PROVE  Denied /\ Same
    <3>1. a.http = 200 /\ a.code = CASE terms.flow = "open" -> "ready"
                                      [] terms.flow = "drifted" -> "drifted"
                                      [] OTHER -> "pending"
      BY <2>4 DEF Ok
    <3>2. a.code # "ready"
      BY <3>1 DEF Permanent
    <3>3. terms.flow # "open" /\ ~Listed
      BY <3>1, <3>2 DEF Listed
    <3>4. Denied
      BY <3>3 DEF Denied, Listed
    <3>5. Joined' = Joined
      BY <2>4, <3>3 DEF Joined, TypeOK
    <3> QED BY <3>4, <3>5 DEF Same
  <2> QED BY <2>0, <2>1, <2>2, <2>3, <2>4 DEF ServeJoin
<1> QED BY <1>1, <1>2

\* Only an answered join says pending.
LEMMA JoinPends ==
    ASSUME NEW a \in Answer, Meets(a, ServeJoin(a)), a.http # 200
    PROVE  a.code # "pending"
<1>1. CASE "tunnel" \in missing
  BY <1>1 DEF Meets, Bare, Error
<1>2. CASE "tunnel" \notin missing
  BY <1>2 DEF Meets, ServeJoin, Ok, Error
<1> QED BY <1>1, <1>2

LEMMA OutagesWait == ASSUME NEW a \in Outages, Refused(a) PROVE Wait
<1>1. a.code \in {"service_unavailable", "internal_error", "rate_limited"}
  BY DEF Outages, Error
<1> QED BY <1>1 DEF Refused, Permanent, Retryable

LEMMA GiveUpWaits == ASSUME NEW call, GiveUp(call) PROVE pc' = "backoff"
BY OutagesWait DEF GiveUp, Wait

LEMMA VerifyStops ==
    ASSUME NEW a \in Answer, ServeVerify(a, held), UNCHANGED <<operator, terms>>,
           \/ a.http = 200 /\ a.code # "ready"
           \/ Permanent(a)
    PROVE  Denied /\ Same
<1>1. CASE a \in Lapses
  <2>1. a.http # 200 /\ a.code \in Retryable
    BY <1>1 DEF Lapses, Error, Retryable
  <2> QED BY <2>1 DEF Permanent
<1>2. CASE terms.signer = "wrong" /\ UNCHANGED session
  BY <1>2 DEF Denied, Same, Joined
<1>3. CASE revoked /\ UNCHANGED session
  BY <1>3 DEF Denied, Same, Joined
<1>4. CASE terms.flow = "two_challenges" /\ UNCHANGED session
  BY <1>4 DEF Denied, Same, Joined
<1>5. CASE a = Ok("ready", held)
  <2>1. a.http = 200 /\ a.code = "ready"
    BY <1>5 DEF Ok
  <2> QED BY <2>1 DEF Permanent
<1> QED BY <1>1, <1>2, <1>3, <1>4, <1>5 DEF ServeVerify

LEMMA ReconnectStops ==
    ASSUME NEW a \in Answer, ServeReconnect(a), a.code # "agent_not_joined",
           a = Bare \/ Permanent(a)
    PROVE  Denied
<1>1. CASE ~terms.route
  BY <1>1 DEF Denied
<1>2. CASE terms.route /\ a = Error(400, "timestamp_out_of_range")
  <2>1. a.code = "timestamp_out_of_range"
    BY <1>2 DEF Error
  <2>2. a # Bare
    BY <2>1 DEF Bare, Error
  <2> QED BY <2>1, <2>2 DEF Permanent, Retryable
<1>3. CASE terms.signer = "wrong" \/ revoked
  BY <1>3 DEF Denied
<1>4. CASE a = Error(403, "agent_not_joined")
  BY <1>4 DEF Error
<1>5. ASSUME NEW s, a = Ok("ready", s) PROVE Denied
  <2>1. a.http = 200
    BY <1>5 DEF Ok
  <2>2. a # Bare
    BY <2>1 DEF Bare, Error
  <2> QED BY <2>1, <2>2 DEF Permanent
<1> QED BY <1>1, <1>2, <1>3, <1>4, <1>5 DEF ServeReconnect

LEMMA ProvisionEnds ==
    ASSUME NEW a \in Answer, ServeProvision(a), held \in Session
    PROVE  /\ a.http = 200 /\ a.code \in {"no_role", "garbled"} => Denied
           /\ a.http = 200 /\ a.code \notin {"no_role", "garbled"} => Served
           /\ Permanent(a) => Denied
<1>1. CASE a = Error(401, "invalid_session")
  <2>1. a.http = 401 /\ a.code = "invalid_session"
    BY <1>1 DEF Error
  <2> QED BY <2>1 DEF Permanent, Retryable
<1>2. CASE revoked
  <2>1. Denied
    BY <1>2 DEF Denied
  <2>2. a = Error(401, "invalid_session") \/ a = Error(403, "agent_revoked")
    BY <1>2 DEF ServeProvision
  <2>3. a.http # 200
    BY <2>2 DEF Error
  <2> QED BY <2>1, <2>3
<1>3. CASE /\ session[held] = "ready" /\ ~revoked
           /\ a = Ok(CASE ~terms.role -> "no_role"
                       [] terms.role /\ ~terms.decodes -> "garbled"
                       [] OTHER -> "ready", held)
  <2>0. a.http = 200
    BY <1>3 DEF Ok
  <2>1. a.code = CASE ~terms.role -> "no_role"
                   [] terms.role /\ ~terms.decodes -> "garbled"
                   [] OTHER -> "ready"
    BY <1>3 DEF Ok
  <2>2. Joined
    BY <1>3 DEF Joined
  <2>3. ~Permanent(a)
    BY <2>0 DEF Permanent
  <2>4. a.code \in {"no_role", "garbled"} => Denied
    BY <2>1 DEF Denied
  <2>5. a.code \notin {"no_role", "garbled"} => terms.role /\ terms.decodes
    BY <2>1
  <2> QED BY <1>3, <2>2, <2>3, <2>4, <2>5 DEF Served
<1> QED BY <1>1, <1>2, <1>3 DEF ServeProvision

LEMMA StepKeepsPromise ==
    ASSUME "tunnel" \notin Drops, TypeOK, PastJoin, [Next]_vars
    PROVE  [Promise!Next]_(Promise!vars)
<1> SUFFICES \/ Promise!Next
             \/ UNCHANGED <<Outcome, Served, Denied>>
  BY DEF Promise!vars
<1>a. Asking /\ Asking' => Promise!Next
  BY GoesOn DEF Promise!Next
<1>b. Asking /\ pc' = "failed" /\ Same /\ Denied => Promise!Next
  BY Stops DEF Promise!Next
<1>c. Asking /\ pc' = "provided" /\ Same /\ Served => Promise!Next
  BY Provides DEF Promise!Next
<1>1. CASE PostJoin
  <2>1. Asking /\ UNCHANGED <<operator, terms>>
    BY <1>1 DEF PostJoin, Asking
  <2>2. CASE GiveUp({<<"join", NoSession>>})
    BY <2>1, <2>2, <1>a, GiveUpWaits DEF Asking
  <2>3. ASSUME NEW a \in Answer, Meets(a, ServeJoin(a)),
               \/ a.http = 200 /\ TakeJoin(a)
               \/ a.code = "agent_already_joined" /\ Recover
               \/ a.code # "agent_already_joined" /\ Refused(a)
        PROVE  Promise!Next
    <3>1. Asking' \/ pc' = "failed"
      BY <2>3 DEF TakeJoin, Recover, Refused, Stop, Wait, Asking
    <3>2. ASSUME pc' = "failed" PROVE Denied /\ Same
      <4>1. \/ a.http = 200 /\ TakeJoin(a)
            \/ a.code # "agent_already_joined" /\ Refused(a)
        BY <2>3, <3>2 DEF Recover
      <4>2. CASE a.http = 200 /\ TakeJoin(a)
        <5>1. a.code # "ready" /\ (a.code = "pending" => ~Listed)
          BY <3>2, <4>2 DEF TakeJoin, Wait
        <5> QED BY <2>1, <2>3, <4>2, <5>1, JoinStops
      <4>3. CASE a.code # "agent_already_joined" /\ Refused(a)
        <5>1. Permanent(a)
          BY <3>2, <4>3 DEF Refused, Wait
        <5>2. a.code # "pending"
          BY <2>3, <4>3, JoinPends DEF Refused
        <5> QED BY <2>1, <2>3, <4>3, <5>1, <5>2, JoinStops
      <4> QED BY <4>1, <4>2, <4>3
    <3> QED BY <2>1, <3>1, <3>2, <1>a, <1>b
  <2> QED BY <1>1, <2>2, <2>3 DEF PostJoin
<1>2. CASE PostVerify
  <2>1. Asking /\ UNCHANGED <<operator, terms>> /\ "tunnel" \notin missing
    BY <1>2 DEF PostVerify, Asking, PastJoin
  <2>2. CASE GiveUp({<<"verify", held>>})
    BY <2>1, <2>2, <1>a, GiveUpWaits DEF Asking
  <2>3. ASSUME NEW a \in Answer, Meets(a, ServeVerify(a, held)),
               \/ a.code = "ready" /\ pc' = "provisioning" /\ UNCHANGED held
               \/ a.http = 200 /\ a.code # "ready" /\ Stop
               \/ Refused(a)
        PROVE  Promise!Next
    <3>1. Asking' \/ pc' = "failed"
      BY <2>3 DEF Refused, Stop, Wait, Asking
    <3>2. ServeVerify(a, held)
      BY <2>1, <2>3 DEF Meets
    <3>3. ASSUME pc' = "failed" PROVE Denied /\ Same
      <4>1. \/ a.http = 200 /\ a.code # "ready"
            \/ Permanent(a)
        BY <2>3, <3>3 DEF Refused, Wait
      <4> QED BY <2>1, <3>2, <4>1, VerifyStops
    <3> QED BY <2>1, <3>1, <3>3, <1>a, <1>b
  <2> QED BY <1>2, <2>2, <2>3 DEF PostVerify
<1>3. CASE PostReconnect
  <2>1. Asking /\ UNCHANGED <<operator, terms>> /\ "tunnel" \notin missing
    BY <1>3 DEF PostReconnect, Asking, PastJoin
  <2>2. CASE GiveUp({})
    BY <2>1, <2>2, <1>a, GiveUpWaits DEF Asking
  <2>3. CASE Wait
    BY <2>1, <2>3, <1>a DEF Wait, Asking
  <2>4. ASSUME NEW a \in Answer, Meets(a, ServeReconnect(a)), UNCHANGED service,
               \/ a.http = 200 /\ TakeSession(a.session)
               \/ a.http # 200 /\ ReconnectOutcome(a)
        PROVE  Promise!Next
    <3>1. Asking' \/ pc' = "failed"
      BY <2>4 DEF TakeSession, ReconnectOutcome, Refused, Stop, Wait, Asking
    <3>2. ServeReconnect(a)
      BY <2>1, <2>4 DEF Meets
    <3>3. ASSUME pc' = "failed" PROVE Denied
      <4>1. a.code # "agent_not_joined" /\ (a = Bare \/ Permanent(a))
        <5>1. ReconnectOutcome(a)
          BY <2>4, <3>3 DEF TakeSession, Wait
        <5>2. Bare.code = "none"
          BY DEF Bare, Error
        <5> QED BY <3>3, <5>1, <5>2 DEF ReconnectOutcome, Refused, Wait
      <4> QED BY <3>2, <4>1, ReconnectStops
    <3>4. Same
      BY <2>1, <2>4 DEF Same, service, Joined
    <3> QED BY <2>1, <3>1, <3>3, <3>4, <1>a, <1>b
  <2> QED BY <1>3, <2>2, <2>3, <2>4 DEF PostReconnect
<1>4. CASE GetProvision
  <2>1. Asking /\ UNCHANGED <<operator, terms>> /\ "tunnel" \notin missing /\ held \in Session
    BY <1>4 DEF GetProvision, Asking, PastJoin, TypeOK
  <2>2. CASE GiveUp({})
    BY <2>1, <2>2, <1>a, GiveUpWaits DEF Asking
  <2>3. ASSUME NEW a \in Answer, Meets(a, ServeProvision(a)), UNCHANGED service,
               \/ a.http = 200 /\ TakeProvision(a)
               \/ Refused(a)
        PROVE  Promise!Next
    <3>1. ServeProvision(a)
      BY <2>1, <2>3 DEF Meets
    <3>2. Same
      BY <2>1, <2>3 DEF Same, service, Joined
    <3>3. CASE a.http = 200 /\ TakeProvision(a)
      <4>1. CASE a.code \in {"no_role", "garbled"}
        <5>1. pc' = "failed"
          BY <3>3, <4>1 DEF TakeProvision, Stop
        <5>2. Denied
          BY <2>1, <3>1, <3>3, <4>1, ProvisionEnds
        <5> QED BY <2>1, <3>2, <5>1, <5>2, <1>b
      <4>2. CASE a.code \notin {"no_role", "garbled"}
        <5>1. pc' = "provided"
          BY <3>3, <4>2 DEF TakeProvision
        <5>2. Served
          BY <2>1, <3>1, <3>3, <4>2, ProvisionEnds
        <5> QED BY <2>1, <3>2, <5>1, <5>2, <1>c
      <4> QED BY <4>1, <4>2
    <3>4. CASE Refused(a)
      BY <2>1, <3>1, <3>2, <3>4, <1>a, <1>b, ProvisionEnds DEF Refused, Stop, Wait, Asking
    <3> QED BY <2>3, <3>3, <3>4
  <2> QED BY <1>4, <2>2, <2>3 DEF GetProvision
<1>5. CASE Again
  <2>1. CASE pc = "failed"
    <3>1. Outcome # "asking" /\ Outcome' = "asking"
      BY <1>5, <2>1 DEF Again, Outcome
    <3>2. Served' = Served /\ Denied' = Denied
      BY <1>5 DEF Again, Served, Joined, Denied, Listed, service, operator
    <3> QED BY <3>1, <3>2 DEF Promise!Next, Promise!AskAgain
  <2>2. CASE pc # "failed"
    BY <1>5, <2>2, <1>a DEF Again, Asking
  <2> QED BY <2>1, <2>2
<1>6. CASE InstallFails \/ Crash
  <2>1. Asking'
    BY <1>6 DEF InstallFails, Crash, Wait, Asking
  <2>2. CASE Asking
    BY <2>1, <2>2, <1>a
  <2>3. CASE ~Asking
    <3>1. Outcome # "asking" /\ Outcome' = "asking"
      BY <2>1, <2>3 DEF Asking, Outcome
    <3>2. Same
      BY <1>6 DEF InstallFails, Crash, Same, Joined, service
    <3>3. Served' = Served /\ Denied' = Denied
      BY <3>2 DEF Same, Served, Denied, Listed, operator
    <3> QED BY <3>1, <3>3 DEF Promise!Next, Promise!AskAgain
  <2> QED BY <2>2, <2>3
<1>7. ASSUME UNCHANGED pc PROVE Promise!Next
  <2>1. Outcome' = Outcome
    BY <1>7 DEF Outcome
  <2> QED BY <2>1 DEF Promise!Next, Promise!World, Served, Denied
<1>8. CASE LateCall \/ Expire \/ Operator \/ UNCHANGED vars
  BY <1>8, <1>7 DEF LateCall, Expire, Operator, vars
<1>9. ASSUME NEW x \in Needs, Arrive(x) \/ Drop(x) PROVE Promise!Next
  <2>1. UNCHANGED pc
    BY <1>9 DEF Arrive, Drop
  <2> QED BY <2>1, <1>7
<1> QED BY <1>1, <1>2, <1>3, <1>4, <1>5, <1>6, <1>8, <1>9 DEF Next, Client

\* Lost answers, late calls, expired sessions, a warming tunnel or a clock that
\* is off end no run, and no provision is made up: for every set-up and session
\* space and any number of faults, as long as a tunnel that is up stays up.
THEOREM ImplementsPromise == ("tunnel" \notin Drops) => (Spec => PromiseKept)
<1> SUFFICES ASSUME "tunnel" \notin Drops PROVE Spec => PromiseKept
  OBVIOUS
<1>1. Init => Promise!Init
  BY DEF Init, Promise!Init, Outcome, Served, Denied
<1>2. PastJoin /\ [Next]_vars => PastJoin'
  BY PastJoinNext
<1>3. TypeOK /\ PastJoin /\ [Next]_vars => [Promise!Next]_(Promise!vars)
  BY StepKeepsPromise
<1> QED BY <1>1, <1>2, <1>3, PastJoinInit, TypeCorrect, PTL DEF Spec, PromiseKept, Promise!Spec

-----------------------------------------------------------------------------
(* A pass left alone. *)

\* Nothing stands against the key or is lacking, no call that was given up can still
\* come in between, and no fault has come after the first f.
Smooth(f) ==
    ~Denied /\ terms.signer # "none" /\ missing = {} /\ late = {} /\ faults = f

\* What the service has of the key at the places of a pass that goes well.
OnCourse ==
    \/ pc \in {"joining", "provided"}
    \/ pc = "verifying" /\ held \in Session /\ session[held] = "pending"
         /\ terms.flow = "allow_list"
    \/ pc = "reconnecting" /\ Joined
    \/ pc = "provisioning" /\ held \in Session /\ session[held] = "ready"

\* What was disturbed once is for good.
Course(f) == faults > f \/ revoked \/ (Smooth(f) /\ OnCourse)

\* What a smooth pass asks is not refused.
LEMMA SmoothTerms ==
    ASSUME NEW f, Smooth(f)
    PROVE  /\ terms.known /\ terms.route /\ terms.role /\ terms.decodes
           /\ terms.signer # "wrong" /\ Signs
           /\ terms.flow \in {"open", "allow_list"}
           /\ Listed => allowed
           /\ terms.flow = "open" => ~Listed
           /\ ~revoked /\ "tunnel" \notin missing /\ "clock" \notin missing
BY DEF Smooth, Denied, Listed, Signs

LEMMA JoinCourse ==
    ASSUME TypeOK, NEW f \in Nat, Smooth(f), PostJoin, faults' = faults, late' = late
    PROVE  OnCourse'
<1>1. PICK a \in Answer : /\ ServeJoin(a)
                          /\ \/ a.http = 200 /\ TakeJoin(a)
                             \/ a.code = "agent_already_joined" /\ Recover
                             \/ a.code # "agent_already_joined" /\ Refused(a)
  <2>1. ~Fault
    BY DEF Fault, TypeOK, Smooth
  <2> QED BY <2>1, SmoothTerms DEF PostJoin, GiveUp, Meets
<1>2. CASE Joined /\ a = Error(409, "agent_already_joined") /\ UNCHANGED session
  <2>1. a.http # 200 /\ a.code = "agent_already_joined"
    BY <1>2 DEF Error
  <2>2. Recover
    BY <1>1, <2>1
  <2> QED BY <1>2, <2>2 DEF Recover, OnCourse, Joined
<1>3. ASSUME NEW s \in Session,
             a = Ok(CASE terms.flow = "open" -> "ready"
                      [] terms.flow = "drifted" -> "drifted"
                      [] OTHER -> "pending", s),
             session' = [session EXCEPT ![s] = IF terms.flow = "open" THEN "ready" ELSE "pending"]
      PROVE  OnCourse'
  <2>1. session \in [Session -> {"free", "pending", "ready"}]
    BY DEF TypeOK
  <2>2. a.http = 200 /\ a.session = s
    BY <1>3 DEF Ok
  <2>3. CASE terms.flow = "open"
    <3>1. a.code = "ready" /\ session'[s] = "ready"
      BY <1>3, <2>1, <2>3 DEF Ok
    <3>2. pc' = "provisioning" /\ held' = s
      BY <1>1, <2>2, <3>1 DEF TakeJoin, Refused
    <3> QED BY <3>1, <3>2 DEF OnCourse
  <2>4. CASE terms.flow = "allow_list"
    <3>1. a.code = "pending" /\ session'[s] = "pending" /\ Listed
      BY <1>3, <2>1, <2>4 DEF Ok, Listed
    <3>2. pc' = "verifying" /\ held' = s /\ terms' = terms
      BY <1>1, <2>2, <3>1, SmoothTerms DEF TakeJoin, Refused, PostJoin
    <3> QED BY <2>4, <3>1, <3>2 DEF OnCourse
  <2> QED BY <2>3, <2>4, SmoothTerms
<1> QED BY <1>1, <1>2, <1>3, SmoothTerms DEF ServeJoin

LEMMA VerifyCourse ==
    ASSUME TypeOK, NEW f \in Nat, Smooth(f), OnCourse, PostVerify, faults' = faults
    PROVE  OnCourse'
<1>1. held \in Session /\ session[held] = "pending" /\ terms.flow = "allow_list"
  BY DEF PostVerify, OnCourse
<1>2. PICK a \in Answer : /\ ServeVerify(a, held)
                          /\ \/ a.code = "ready" /\ pc' = "provisioning" /\ UNCHANGED held
                             \/ a.http = 200 /\ a.code # "ready" /\ Stop
                             \/ Refused(a)
  <2>1. ~Fault
    BY DEF Fault, TypeOK, Smooth
  <2> QED BY <2>1, SmoothTerms DEF PostVerify, GiveUp, Meets
<1>3. a = Ok("ready", held) /\ session' = [session EXCEPT ![held] = "ready"]
  BY <1>1, <1>2, SmoothTerms DEF ServeVerify
<1>4. a.http = 200 /\ a.code = "ready"
  BY <1>3 DEF Ok
<1>5. pc' = "provisioning" /\ held' = held
  BY <1>2, <1>4 DEF Refused
<1>6. session'[held] = "ready"
  BY <1>1, <1>3 DEF TypeOK
<1> QED BY <1>1, <1>5, <1>6 DEF OnCourse

LEMMA ReconnectCourse ==
    ASSUME TypeOK, NEW f \in Nat, Smooth(f), OnCourse, PostReconnect, faults' = faults
    PROVE  OnCourse'
<1>1. Joined /\ session' = session
  <2>1. Joined
    BY DEF PostReconnect, OnCourse
  <2>2. ~Fault
    BY DEF Fault, TypeOK, Smooth
  <2> QED BY <2>1, <2>2 DEF PostReconnect, GiveUp, service
<1>2. PICK a \in Answer : /\ ServeReconnect(a)
                          /\ \/ a.http = 200 /\ TakeSession(a.session)
                             \/ a.http # 200 /\ ReconnectOutcome(a)
  <2>1. ~Fault
    BY DEF Fault, TypeOK, Smooth
  <2> QED BY <2>1, SmoothTerms DEF PostReconnect, GiveUp, Meets
<1>3. PICK s \in Session : session[s] = "ready" /\ a = Ok("ready", s)
  BY <1>1, <1>2, SmoothTerms DEF ServeReconnect
<1>4. a.http = 200 /\ a.session = s /\ s # NoSession
  BY <1>3, JoiningAssumption DEF Ok
<1>5. pc' = "provisioning" /\ held' = s
  BY <1>2, <1>4 DEF TakeSession
<1> QED BY <1>1, <1>3, <1>5 DEF OnCourse

LEMMA ProvisionCourse ==
    ASSUME TypeOK, NEW f \in Nat, Smooth(f), OnCourse, GetProvision, faults' = faults
    PROVE  OnCourse'
<1>1. session[held] = "ready"
  BY DEF GetProvision, OnCourse
<1>2. PICK a \in Answer : /\ ServeProvision(a)
                          /\ \/ a.http = 200 /\ TakeProvision(a)
                             \/ Refused(a)
  <2>1. ~Fault
    BY DEF Fault, TypeOK, Smooth
  <2> QED BY <2>1, SmoothTerms DEF GetProvision, GiveUp, Meets
<1>3. a = Ok("ready", held)
  BY <1>1, <1>2, SmoothTerms DEF ServeProvision
<1>4. a.http = 200 /\ a.code = "ready"
  BY <1>3 DEF Ok
<1>5. pc' = "provided"
  BY <1>2, <1>4 DEF TakeProvision, Refused
<1> QED BY <1>5 DEF OnCourse

\* A step of the client is a fault, or stays on course.
LEMMA ClientCourse ==
    ASSUME TypeOK, NEW f \in Nat, Smooth(f), OnCourse, Client
    PROVE  Course(f)'
<1>1. faults \in Nat /\ UNCHANGED <<missing, operator, terms>>
  BY JoiningAssumption DEF TypeOK, Client, PostJoin, PostVerify, PostReconnect, GetProvision, Again
<1>2. CASE Fault
  BY <1>1, <1>2 DEF Fault, Smooth, Course
<1>3. CASE ~Fault
  <2>1. faults' = faults /\ late' = late
    BY <1>3 DEF Client, PostJoin, PostVerify, PostReconnect, GetProvision, Again, GiveUp, service
  <2>2. OnCourse'
    <3>1. ~Again
      BY DEF Again, OnCourse
    <3> QED BY <2>1, <3>1, JoinCourse, VerifyCourse, ReconnectCourse, ProvisionCourse DEF Client
  <2>3. Smooth(f)'
    BY <1>1, <2>1 DEF Smooth, Denied, Listed, operator
  <2> QED BY <2>2, <2>3 DEF Course
<1> QED BY <1>2, <1>3

LEMMA CourseNext ==
    ASSUME TypeOK, NEW f \in Nat, Course(f), [Next]_vars
    PROVE  Course(f)'
<1>1. faults \in Nat
  BY JoiningAssumption DEF TypeOK
<1>2. CASE faults > f \/ revoked
  <2>1. faults' \in {faults, faults + 1}
    BY DEF Next, Client, PostJoin, PostVerify, PostReconnect, GetProvision, Again, GiveUp,
       InstallFails, Crash, LateCall, Expire, Operator, Arrive, Drop, Fault, vars
  <2>2. revoked => revoked'
    BY DEF Next, Client, PostJoin, PostVerify, PostReconnect, GetProvision, Again,
       InstallFails, Crash, LateCall, Expire, Operator, Arrive, Drop, operator, vars
  <2> QED BY <1>1, <1>2, <2>1, <2>2 DEF Course
<1>3. CASE Smooth(f) /\ OnCourse
  <2>1. CASE Client
    BY <1>3, <2>1, ClientCourse
  <2>2. CASE Fault
    BY <1>1, <1>3, <2>2 DEF Fault, Smooth, Course
  <2>3. CASE Operator
    <3>1. UNCHANGED <<pc, held, session, late, missing, terms, faults>>
      BY <2>3 DEF Operator, service
    <3>2. CASE revoked' = TRUE
      BY <3>2 DEF Course
    <3>3. CASE allowed' = TRUE /\ revoked' = revoked
      BY <1>3, <3>1, <3>3 DEF Course, Smooth, Denied, Listed, OnCourse, Joined
    <3> QED BY <2>3, <3>2, <3>3 DEF Operator
  <2>4. CASE UNCHANGED vars
    BY <1>3, <2>4 DEF vars, service, operator, Course, Smooth, Denied, Listed, OnCourse, Joined
  <2>5. ~LateCall /\ \A x \in Needs : ~Arrive(x)
    BY <1>3 DEF LateCall, Arrive, Smooth
  <2> QED BY <2>1, <2>2, <2>3, <2>4, <2>5 DEF Next, InstallFails, Crash, Expire, Drop
<1> QED BY <1>2, <1>3 DEF Course

\* A pass of a key that is admissible, on a node that lacks nothing, is neither put off
\* nor refused while no call is lost, whatever sessions earlier passes left behind: the
\* safety half of EventuallyProvided.
THEOREM PassTheorem ==
    Spec => \A f \in Nat :
        [](pc = "joining" /\ Smooth(f)
             => [](Smooth(f) => pc \in Requests \cup {"provided"}))
<1> SUFFICES ASSUME NEW f \in Nat
             PROVE  Spec => [](pc = "joining" /\ Smooth(f)
                                => [](Smooth(f) => pc \in Requests \cup {"provided"}))
  OBVIOUS
<1>1. pc = "joining" /\ Smooth(f) => Course(f)
  BY DEF Course, OnCourse
<1>2. TypeOK /\ Course(f) /\ [Next]_vars => Course(f)'
  BY CourseNext
<1>3. Course(f) => (Smooth(f) => pc \in Requests \cup {"provided"})
  BY DEF Course, Smooth, Denied, OnCourse, Requests
<1> QED BY <1>1, <1>2, <1>3, TypeCorrect, PTL DEF Spec
=============================================================================
