---------------------------- MODULE JoiningClient ----------------------------
(***************************************************************************)
(* How the open service gets a provision for the carried key from the      *)
(* target release's joining service (headless-migrator/src/joining.rs):    *)
(* join, answer the allow list's challenge, or reconnect when the join     *)
(* says that the key is in already, then provision.  The install and the   *)
(* retries around it are open.rs.                                          *)
(*                                                                         *)
(* The joining service is external: what it answers is what joining.rs,    *)
(* dna_errors.rs and their tests say it answers.                           *)
(***************************************************************************)
EXTENDS Integers, FiniteSets

CONSTANTS
    Terms,      \* the set-ups of service and node that are considered
    Session,    \* the service's session names
    NoSession,
    Drops,      \* what may go down again once it is up: "tunnel", "lair"
    MaxFaults   \* how many calls, installs, sessions and runs are lost

VARIABLES
    pc,       \* the request the client is about to send, or how the run stands
    held,     \* the session in the client's hand
    session,  \* the service's sessions of the key, by name
    late,     \* the calls given up at the timeout that may still be carried out
    missing,  \* what a starting node still lacks
    allowed,  \* whether the operator has put the key on the allow list
    revoked,  \* whether the operator has blocked the key
    terms,    \* the set-up
    faults

service == <<session, late>>
operator == <<allowed, revoked>>
vars == <<pc, held, service, missing, operator, terms, faults>>

\* "open" asks nothing, "invite_code" nothing this client can answer, "two
\* challenges" one more than it answers, "drifted" is a status it never heard of.
Flow == {"open", "allow_list", "two_challenges", "invite_code", "drifted"}

TermsSet ==
    [known : BOOLEAN,    \* the configured happ id names a network
     flow : Flow,        \* the authentication of that network
     route : BOOLEAN,    \* the service has POST /reconnect
     role : BOOLEAN,     \* it provisions the migrating role
     decodes : BOOLEAN,  \* the membrane proof it serves is base64
     signer : {"carried", "wrong", "none"}]  \* the key this node's lair signs with

Needs == {"tunnel", "lair", "clock"}

ASSUME JoiningAssumption ==
    /\ Terms \subseteq TermsSet
    /\ NoSession \notin Session
    /\ Drops \subseteq {"tunnel", "lair"}
    /\ MaxFaults \in Nat

Requests == {"joining", "verifying", "reconnecting", "provisioning"}

Late == {<<"join", NoSession>>} \cup {<<"verify", s>> : s \in Session}

TypeOK ==
    /\ pc \in Requests \cup {"backoff", "failed", "down", "provided"}
    /\ held \in Session \cup {NoSession}
    /\ pc \in {"verifying", "provisioning"} => held \in Session
    /\ session \in [Session -> {"free", "pending", "ready"}]
    /\ late \subseteq Late
    /\ missing \subseteq Needs
    /\ allowed \in BOOLEAN /\ revoked \in BOOLEAN
    /\ terms \in Terms
    /\ faults \in 0..MaxFaults

Init ==
    /\ pc = "joining"
    /\ held = NoSession
    /\ session = [s \in Session |-> "free"]
    /\ late = {}
    /\ missing \in SUBSET Needs
    /\ allowed \in BOOLEAN /\ revoked = FALSE
    /\ terms \in Terms
    /\ faults = 0

-----------------------------------------------------------------------------
(* What the service answers (external).                                      *)

Ok(status, s) == [http |-> 200, code |-> status, session |-> s]
Error(http, code) == [http |-> http, code |-> code, session |-> NoSession]

\* A 404 in nobody's envelope: the tunnel's catch-all, or a route that is absent.
Bare == Error(404, "none")

Outages == {Error(503, "service_unavailable"), Error(500, "internal_error"),
            Error(429, "rate_limited")}
Lapses == {Error(401, "invalid_session"), Error(410, "challenge_expired"),
           Error(410, "challenge_not_found")}

Answer ==
    {Ok(status, s) : status \in {"ready", "pending", "rejected", "drifted", "garbled", "no_role"},
                     s \in Session \cup {NoSession}}
      \cup Outages \cup Lapses
      \cup {Bare, Error(400, "unknown_network"), Error(409, "agent_already_joined"),
            Error(403, "agent_not_joined"), Error(403, "agent_revoked"),
            Error(400, "invalid_signature"), Error(400, "timestamp_out_of_range")}

Joined == \E s \in Session : session[s] = "ready"

Listed == terms.flow \in {"allow_list", "two_challenges"}

\* A name nobody refers to: a session that is left pending is as good as none.
Unused(s) == session[s] # "ready" /\ s # held /\ <<"verify", s>> \notin late

\* POST /join, not idempotent: it opens a session unless the key has a ready one.
ServeJoin(a) ==
    \/ ~terms.known /\ a = Error(400, "unknown_network") /\ UNCHANGED session
    \/ /\ terms.known /\ Joined
       /\ a = Error(409, "agent_already_joined") /\ UNCHANGED session
    \/ /\ terms.known /\ ~Joined /\ (revoked \/ (Listed /\ ~allowed))
       /\ a = Ok("rejected", NoSession) /\ UNCHANGED session
    \/ /\ terms.known /\ ~Joined /\ ~revoked /\ (Listed => allowed)
       /\ \E s \in Session :
             /\ Unused(s)
             /\ a = Ok(CASE terms.flow = "open" -> "ready"
                         [] terms.flow = "drifted" -> "drifted"
                         [] OTHER -> "pending", s)
             /\ session' = [session EXCEPT ![s] = IF terms.flow = "open" THEN "ready"
                                                                         ELSE "pending"]

\* POST /join/:session/verify
ServeVerify(a, s) ==
    \/ session[s] # "pending" /\ a \in Lapses /\ UNCHANGED session
    \/ session[s] = "pending" /\ terms.signer = "wrong" /\ a = Error(400, "invalid_signature")
       /\ UNCHANGED session
    \/ session[s] = "pending" /\ revoked /\ a = Ok("rejected", s) /\ UNCHANGED session
    \/ /\ session[s] = "pending" /\ terms.signer # "wrong" /\ ~revoked
       /\ IF terms.flow = "two_challenges"
             THEN a = Ok("pending", s) /\ UNCHANGED session
             ELSE a = Ok("ready", s) /\ session' = [session EXCEPT ![s] = "ready"]

\* POST /reconnect
ServeReconnect(a) ==
    \/ ~terms.route /\ a = Bare
    \/ terms.route /\ "clock" \in missing /\ a = Error(400, "timestamp_out_of_range")
    \/ terms.route /\ terms.signer = "wrong" /\ a = Error(400, "invalid_signature")
    \/ terms.route /\ revoked /\ a = Error(403, "agent_revoked")
    \/ /\ terms.route /\ ~Joined
       /\ a \in {Error(403, "agent_not_joined"), Ok("ready", NoSession)}
    \/ /\ terms.route /\ "clock" \notin missing /\ terms.signer # "wrong" /\ ~revoked
       /\ \E s \in Session : session[s] = "ready" /\ a = Ok("ready", s)

\* GET /join/:session/provision
ServeProvision(a) ==
    \/ session[held] # "ready" /\ a = Error(401, "invalid_session")
    \/ revoked /\ a = Error(403, "agent_revoked")
    \/ /\ session[held] = "ready" /\ ~revoked
       /\ a = Ok(CASE ~terms.role -> "no_role"
                   [] terms.role /\ ~terms.decodes -> "garbled"
                   [] OTHER -> "ready", held)

\* What a request meets: the service, or the tunnel in front of it.
Meets(a, serve) == IF "tunnel" \in missing THEN a = Bare /\ UNCHANGED session
                                           ELSE serve

-----------------------------------------------------------------------------
(* How the client takes an answer.                                           *)

Stop == pc' = "failed" /\ UNCHANGED held

Wait == pc' = "backoff" /\ UNCHANGED held

\* Mutant: a blocked key is asked for again and again.
RetryableWide == {"service_unavailable", "internal_error", "rate_limited",
                  "invalid_session", "challenge_expired", "challenge_not_found",
                  "not_ready", "timestamp_out_of_range", "session_expired",
                  "agent_revoked"}

\* joining_code_is_retryable
Retryable == {"service_unavailable", "internal_error", "rate_limited",
              "invalid_session", "challenge_expired", "challenge_not_found",
              "not_ready", "timestamp_out_of_range", "session_expired"}

\* Mutant: the status is enough, no envelope is asked for.
PermanentBare(a) == a.http \in 400..499 /\ a.code \notin Retryable

\* refusal_outcome: the envelope and the status have to agree.
Permanent(a) == /\ a.code # "none"
                /\ a.http \in 400..499
                /\ a.code \notin Retryable

Refused(a) == /\ a.http # 200
              /\ IF Permanent(a) THEN Stop ELSE Wait

Fault == /\ faults < MaxFaults
         /\ faults' = faults + 1

\* No answer within the client's timeout, or none it can read, or an outage: the
\* request has been, will be or will never be carried out.
GiveUp(call) ==
    /\ Fault
    /\ \/ Wait /\ late' = late \cup call
       \/ \E a \in Outages : Refused(a) /\ UNCHANGED late
    /\ UNCHANGED session

-----------------------------------------------------------------------------
(* The client.                                                               *)

\* Mutant: the join is asked again, and answers the same.
RecoverByJoin == Wait

\* A key that is in already asks a different way, on the same pass.
Recover == pc' = "reconnecting" /\ UNCHANGED held

\* lair-sign: a lair that is down and one that lacks the key fail alike.
Signs == "lair" \notin missing /\ terms.signer # "none"

\* session_from_join, up to the signature it needs from the lair.
TakeJoin(a) ==
    \/ a.code = "ready" /\ pc' = "provisioning" /\ held' = a.session
    \/ /\ a.code = "pending"
       /\ IF ~Listed THEN Stop
          ELSE IF ~Signs THEN Wait
          ELSE pc' = "verifying" /\ held' = a.session
    \/ a.code \in {"rejected", "drifted"} /\ Stop

\* POST /join
PostJoin ==
    /\ pc = "joining"
    /\ \/ /\ \E a \in Answer :
                /\ Meets(a, ServeJoin(a))
                /\ \/ a.http = 200 /\ TakeJoin(a)
                   \/ a.code = "agent_already_joined" /\ Recover
                   \/ a.code # "agent_already_joined" /\ Refused(a)
          /\ UNCHANGED <<late, faults>>
       \/ GiveUp({<<"join", NoSession>>})
    /\ UNCHANGED <<missing, operator, terms>>

\* POST /join/:session/verify: any status but ready needs an operator.
PostVerify ==
    /\ pc = "verifying"
    /\ \/ /\ \E a \in Answer :
                /\ Meets(a, ServeVerify(a, held))
                /\ \/ a.code = "ready" /\ pc' = "provisioning" /\ UNCHANGED held
                   \/ a.http = 200 /\ a.code # "ready" /\ Stop
                   \/ Refused(a)
          /\ UNCHANGED <<late, faults>>
       \/ GiveUp({<<"verify", held>>})
    /\ UNCHANGED <<missing, operator, terms>>

\* reconnect_outcome: the join was answered on this pass, so a bare 404 is an
\* absent route, and a key that has not joined is a store that is changing.
ReconnectOutcome(a) ==
    IF a = Bare THEN Stop
    ELSE IF a.code = "agent_not_joined" THEN Wait
    ELSE Refused(a)

\* Mutant: the session is taken for granted.
TakeAnySession(s) == pc' = "provisioning" /\ held' = s

TakeSession(s) == IF s = NoSession THEN Wait
                  ELSE pc' = "provisioning" /\ held' = s

\* reconnect_session: the timestamp is signed first.
PostReconnect ==
    /\ pc = "reconnecting"
    /\ \/ /\ IF ~Signs THEN Wait
             ELSE \E a \in Answer :
                     /\ Meets(a, ServeReconnect(a))
                     /\ \/ a.http = 200 /\ TakeSession(a.session)
                        \/ a.http # 200 /\ ReconnectOutcome(a)
          /\ UNCHANGED <<service, faults>>
       \/ GiveUp({})
    /\ UNCHANGED <<missing, operator, terms>>

\* Mutant: a role that is not in the map is installed with no proof.
TakeProvisionLoose(a) == IF a.code = "garbled" THEN Stop
                         ELSE pc' = "provided" /\ UNCHANGED held

\* provision_for_role and the decoding of the proof.
TakeProvision(a) == IF a.code \in {"no_role", "garbled"} THEN Stop
                    ELSE pc' = "provided" /\ UNCHANGED held

\* GET /join/:session/provision
GetProvision ==
    /\ pc = "provisioning"
    /\ \/ /\ \E a \in Answer :
                /\ Meets(a, ServeProvision(a))
                /\ \/ a.http = 200 /\ TakeProvision(a)
                   \/ Refused(a)
          /\ UNCHANGED <<service, faults>>
       \/ GiveUp({})
    /\ UNCHANGED <<missing, operator, terms>>

\* The next pass, or systemd's next run.
Again ==
    /\ pc \in {"backoff", "failed", "down"}
    /\ pc' = "joining" /\ held' = NoSession
    /\ UNCHANGED <<service, missing, operator, terms, faults>>

\* The install the provision was for fails, and the pass with it.
InstallFails ==
    /\ pc = "provided" /\ Fault /\ Wait
    /\ UNCHANGED <<service, missing, operator, terms>>

Crash ==
    /\ pc \notin {"down", "failed"}
    /\ Fault
    /\ pc' = "down" /\ held' = NoSession
    /\ UNCHANGED <<service, missing, operator, terms>>

-----------------------------------------------------------------------------
(* The service, its operator and the node, on their own.                     *)

LateCall ==
    /\ \E call \in late :
          /\ late' = late \ {call}
          /\ \E a \in Answer : \/ call[1] = "join" /\ ServeJoin(a)
                               \/ call[1] = "verify" /\ ServeVerify(a, call[2])
    /\ UNCHANGED <<pc, held, missing, operator, terms, faults>>

\* A session that is not ready expires; a store that is lost takes all with it.
Expire ==
    /\ Fault
    /\ \/ \E s \in Session : /\ session[s] = "pending"
                              /\ session' = [session EXCEPT ![s] = "free"]
       \/ session' = [s \in Session |-> "free"]
    /\ UNCHANGED <<pc, held, late, missing, operator, terms>>

Operator ==
    /\ \/ allowed' = TRUE /\ UNCHANGED revoked
       \/ revoked' = TRUE /\ UNCHANGED allowed
    /\ UNCHANGED <<pc, held, service, missing, terms, faults>>

\* The tunnel comes up, the lair starts, the clock is synchronised.
Arrive(x) ==
    /\ x \in missing
    /\ missing' = missing \ {x}
    /\ UNCHANGED <<pc, held, service, operator, terms, faults>>

Drop(x) ==
    /\ x \in Drops \ missing
    /\ Fault
    /\ missing' = missing \cup {x}
    /\ UNCHANGED <<pc, held, service, operator, terms>>

Client == PostJoin \/ PostVerify \/ PostReconnect \/ GetProvision \/ Again

Next == \/ Client
        \/ InstallFails \/ Crash
        \/ LateCall \/ Expire \/ Operator
        \/ \E x \in Needs : Arrive(x) \/ Drop(x)

Spec == Init /\ [][Next]_vars

\* Calls answer or time out, passes and runs follow each other, a starting node
\* gets everything in the end.  Nothing is assumed of the operator.
FairSpec == /\ Spec
            /\ WF_vars(Client)
            /\ \A x \in Needs : WF_vars(Arrive(x))

-----------------------------------------------------------------------------
(* Correctness. *)

Served == Joined /\ ~revoked /\ terms.role /\ terms.decodes

Denied == \/ ~terms.known \/ terms.signer = "wrong" \/ ~terms.route
          \/ ~terms.role \/ ~terms.decodes
          \/ terms.flow \notin {"open", "allow_list"}
          \/ Listed /\ ~allowed
          \/ revoked

Outcome == CASE pc = "provided" -> "provided"
             [] pc = "failed" -> "refused"
             [] OTHER -> "asking"

Promise == INSTANCE Provisioning
               WITH outcome <- Outcome, admitted <- Served, denied <- Denied

\* "typed by whether trying again could ever answer differently" (joining.rs):
\* the client implements the promise, so a lost answer, a warming tunnel, an
\* expired session or a clock that is off never ends a run.
PromiseKept == Promise!Spec

\* A key that stays admissible, and that the lair holds, is provisioned, whichever
\* calls were lost after the service had carried them out.
EventuallyProvided ==
    (terms.signer # "none" /\ <>[](~Denied)) => <>[](pc = "provided")

\* No refusal is asked about for ever: a run ends, with a provision or an error.  A
\* lair without the key refuses nothing: it is waited for like one that is coming up
\* ("retryable on purpose", joining.rs), for as long as it lasts.
RefusalsEnd == terms.signer # "none" => []<>(pc \in {"provided", "failed"})
=============================================================================
