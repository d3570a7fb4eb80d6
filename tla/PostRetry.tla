------------------------------- MODULE PostRetry -------------------------------
(***************************************************************************)
(* One POST of the problem-server client (rlvr/problemserver/client.py):   *)
(* the attempts of post_result over a network that loses and delays, the   *)
(* evidence it keeps from one attempt to the next, and what lease, commit  *)
(* and feedback make of it. The server is external: it identifies a lease  *)
(* by the request_id in the body.                                          *)
(***************************************************************************)
EXTENDS Integers, Sequences, FiniteSets

CONSTANTS Retries,   \* ProblemServerClient(retries=...), at least one
          Pacings    \* the Retry-After values a server sends

\* What is assumed of the constants; evaluated in ValidatorParts.
PostAssumption == Retries \in Nat \ {0} /\ Pacings \subseteq Nat

None == -1
Statuses == {200, 204, 401, 404, 408, 429, 503}
Bodies == {"good", "unparseable", "over_limit"}

\* parse_retry_after: whole seconds, or nothing for an absent, a dated or a
\* malformed header. One response as the attempt that received it sees it.
Responses == [status : Statuses, retryAfter : Pacings \cup {None}, body : Bodies]
NoResponse == [status |-> None, retryAfter |-> None, body |-> "good"]

VARIABLES attempt,    \* the loop counter; 0 before the loop
          pc,         \* "send", "wait" for the answer, or "ended"
          wire,       \* attempts whose request the server has not processed
          accepted,   \* server: request ids it has taken up
          last,       \* last_response
          protocol,   \* the attempt last_protocol_error is about, 0 for none
          retryAfter, \* last_retry_after_s
          retryFrom,  \* last_retry_after_attempt, 0 for none
          outcome,    \* the PostOutcome
          answers     \* ghost: attempt -> the response it got, NoResponse if none

vars == <<attempt, pc, wire, accepted, last, protocol, retryAfter, retryFrom, outcome,
          answers>>
evidence == <<last, protocol, retryAfter, retryFrom>>

NoOutcome == [response |-> NoResponse, transport |-> FALSE, protocol |-> 0,
              retryAfter |-> None, prior |-> FALSE, exhausted |-> FALSE]

Init ==
    /\ attempt = 0 /\ pc = "send" /\ wire = {} /\ accepted = {}
    /\ last = NoResponse /\ protocol = 0 /\ retryAfter = None /\ retryFrom = 0
    /\ outcome = NoOutcome
    /\ answers = [a \in 1..Retries |-> NoResponse]

Retryable(status) == status >= 500 \/ status \in {408, 425}

\* Faulty variant: every attempt is a request of its own.
RequestIdEach(a) == a

\* The body, and the request_id in it, is built once: attempts differ only in
\* their signature.
RequestId(a) == 1

Send ==
    /\ pc = "send"
    /\ attempt' = attempt + 1
    /\ wire' = wire \cup {attempt + 1}
    /\ pc' = "wait"
    /\ UNCHANGED <<accepted, evidence, outcome, answers>>

\* A request reaches the server, now, after its attempt has failed, or never.
Deliver(a) ==
    /\ a \in wire
    /\ wire' = wire \ {a}
    /\ accepted' = accepted \cup {RequestId(a)}
    /\ UNCHANGED <<attempt, pc, evidence, outcome, answers>>

End(o) == outcome' = o /\ pc' = "ended"
Again == outcome' = outcome /\ pc' = "send"

\* The evidence a response leaves, whether or not its body was usable.
Keep(r) ==
    /\ last' = r
    /\ retryAfter' = IF r.retryAfter # None THEN r.retryAfter ELSE retryAfter
    /\ retryFrom' = IF r.retryAfter # None THEN attempt ELSE retryFrom
    /\ answers' = [answers EXCEPT ![attempt] = r]

Failed(r) ==
    [response |-> r, transport |-> FALSE, protocol |-> protocol',
     retryAfter |-> retryAfter', prior |-> retryFrom' \notin {0, attempt},
     exhausted |-> Retryable(r.status)]

\* Faulty variant: a refused body is retried whatever the status.
RefuseBodyRetried(r) ==
    /\ r.body = "over_limit"
    /\ Keep(r) /\ protocol' = attempt
    /\ IF attempt < Retries THEN Again ELSE End(Failed(r))

\* _read_bounded raised RuntimeError after the headers: a local refusal.
RefuseBody(r) ==
    /\ r.body = "over_limit"
    /\ Keep(r) /\ protocol' = attempt
    /\ IF Retryable(r.status) /\ attempt < Retries THEN Again ELSE End(Failed(r))

\* A whole response. A conclusive one carries nothing over from earlier attempts.
TakeResponse(r) ==
    /\ r.body # "over_limit"
    /\ Keep(r) /\ UNCHANGED protocol
    /\ \/ /\ Retryable(r.status) /\ attempt < Retries
          /\ Again
       \/ /\ Retryable(r.status) /\ attempt = Retries
          /\ End([Failed(r) EXCEPT !.protocol = 0])
       \/ /\ ~Retryable(r.status)
          /\ End([NoOutcome EXCEPT !.response = r])

\* The server answers an attempt it has processed; a 200 says it acted on it.
Answer ==
    /\ pc = "wait" /\ attempt \notin wire
    /\ \E r \in Responses : RefuseBody(r) \/ TakeResponse(r)
    /\ UNCHANGED <<attempt, wire, accepted>>

\* Faulty variant: pacing is forgotten when the connection fails.
TransportOutcomeUnpaced ==
    [response |-> last, transport |-> TRUE, protocol |-> protocol,
     retryAfter |-> None, prior |-> FALSE, exhausted |-> TRUE]

TransportOutcome ==
    [response |-> last, transport |-> TRUE, protocol |-> protocol,
     retryAfter |-> retryAfter, prior |-> retryFrom # 0, exhausted |-> TRUE]

\* The exchange raised: the request or its answer is lost, or it took too long.
TransportFails ==
    /\ pc = "wait"
    /\ IF attempt < Retries THEN Again ELSE End(TransportOutcome)
    /\ UNCHANGED <<attempt, wire, accepted, evidence, answers>>

Done == pc = "ended" /\ wire = {} /\ UNCHANGED vars

Next == Send \/ (\E a \in wire : Deliver(a)) \/ Answer \/ TransportFails \/ Done

Spec == Init /\ [][Next]_vars
-----------------------------------------------------------------------------
StatusCategory(status) ==
    CASE status = 204 -> "empty"
      [] status = 429 -> "paced"
      [] status \in {401, 403} -> "denied"
      [] Retryable(status) -> "unavailable"
      [] OTHER -> "rejected"

\* Faulty variant: the last response decides, however the last attempt ended.
CategoryOfLast(o) ==
    CASE o.response = NoResponse -> "transport"
      [] o.response.status = 200 ->
           IF o.protocol = 0 /\ o.response.body = "good" THEN "leased" ELSE "malformed"
      [] OTHER -> StatusCategory(o.response.status)

\* lease(), of this client and of the V3 client: the category of a PostOutcome.
CategoryOf(o) ==
    IF o.response = NoResponse \/ o.transport THEN "transport"
    ELSE IF o.response.status # 200 THEN StatusCategory(o.response.status)
    ELSE IF o.protocol = 0 /\ o.response.body = "good" THEN "leased" ELSE "malformed"

LeaseOutcome(o) ==
    [category |-> CategoryOf(o), status |-> o.response.status,
     retryAfter |-> IF o.retryAfter # None THEN o.retryAfter ELSE o.response.retryAfter]

\* post(): commit and feedback see no exhausted and no refused response.
Post(o) == IF o.exhausted \/ o.protocol # 0 THEN NoResponse ELSE o.response

\* commit() and feedback(): a parsed 200 or nothing.
Succeeds(o) == Post(o).status = 200 /\ Post(o).body = "good"
-----------------------------------------------------------------------------
TypeOK ==
    /\ attempt \in 0..Retries /\ pc \in {"send", "wait", "ended"}
    /\ wire \subseteq 1..Retries /\ accepted \subseteq 1..Retries
    /\ last \in Responses \cup {NoResponse} /\ protocol \in 0..Retries
    /\ retryAfter \in Pacings \cup {None} /\ retryFrom \in 0..Retries
    /\ answers \in [1..Retries -> Responses \cup {NoResponse}]

Ended == pc = "ended"
Answered == {a \in 1..Retries : answers[a] # NoResponse}
FinalAnswer == answers[attempt]

\* "Stable body across HTTP retries makes generation idempotent": however many
\* attempts are sent, lost, or delivered after the client gave up, the server
\* hands out one challenge for one lease call.
OneChallengePerLease == Cardinality(accepted) <= 1

\* A call that reports success was acted on by the server, got the answer of its
\* last attempt and could read it; an attempt is never repeated after a 200 whose body
\* was received, readable or not.  (A 200 whose body breaks off is a transport error, no
\* answer, and is repeated with the same request id.)
SuccessIsReal ==
    /\ Ended /\ (CategoryOf(outcome) = "leased" \/ Succeeds(outcome)) =>
         /\ accepted # {}
         /\ FinalAnswer.status = 200 /\ FinalAnswer.body = "good"
    /\ \A a \in Answered : answers[a].status = 200 => a = attempt /\ pc # "send"

\* The category tells apart what the operator must tell apart: transport when the
\* last attempt got no answer, unavailable only after every attempt was used and
\* the last answer was a failure, and no status exactly when nothing ever answered.
CategoryTruthful ==
    Ended =>
      /\ CategoryOf(outcome) = "transport" <=> FinalAnswer = NoResponse
      /\ CategoryOf(outcome) = "unavailable" =>
           attempt = Retries /\ Retryable(FinalAnswer.status)
      /\ LeaseOutcome(outcome).status = None <=> Answered = {}

\* A pause the server asked for is obeyed when the attempts run out: the lease
\* outcome carries the latest Retry-After of any attempt, and says whether it
\* came from an earlier one. A conclusive answer speaks for itself.
PacingSurvives ==
    Ended =>
      LET pacing == {a \in Answered : answers[a].retryAfter # None}
          latest == CHOOSE a \in pacing : \A b \in pacing : b <= a
          reported == LeaseOutcome(outcome).retryAfter
      IN  /\ outcome.exhausted =>
               IF pacing = {} THEN reported = None
               ELSE /\ reported = answers[latest].retryAfter
                    /\ outcome.prior <=> latest # attempt \/ outcome.transport
          /\ ~outcome.exhausted /\ outcome.protocol = 0 =>
               reported = FinalAnswer.retryAfter

\* What a call to the server does (post_result, lease, commit): one challenge at most,
\* and no success but the server's own.
PostedOnce == TypeOK /\ OneChallengePerLease /\ SuccessIsReal

\* What a call reports (post_result, lease): how it ended, and the pause it was asked for.
OutcomeTruthful == CategoryTruthful /\ PacingSurvives
=============================================================================
