------------------------ MODULE ValidatorPartsProofs ------------------------
(***************************************************************************)
(* The parts of ValidatorParts that talk to the outside, for any number of *)
(* attempts, miners and permits: a POST to the problem server, the notices *)
(* after a round and the order in which tasks are offered.                 *)
(***************************************************************************)
EXTENDS ValidatorParts, Subsequences, FiniteSetTheorems, NaturalsInduction,
        WellFoundedInduction, TLAPS

\* What the others do leaves a part alone.
LEMMA PostMoves == [Next]_vars => [Post!Next]_postVars
  BY DEF Next, vars, Only

LEMMA NoticesMove == [Next]_vars => [Notices!Next]_noticeVars
  BY DEF Next, vars, Only
-----------------------------------------------------------------------------
(***************************************************************************)
(* A POST to the problem server.                                           *)
(***************************************************************************)
LEMMA PostConstants == Retries \in Nat \ {0} /\ Pacings \subseteq Nat
  BY PartsAssumption DEF PartsAssumption, Post!PostAssumption

Silent(a) == pAnswers[a] = Post!NoResponse

PostShapes ==
    /\ pPc \in {"send", "wait", "ended"}
    /\ pAttempt \in 0..Retries
    /\ pPc = "send" => pAttempt < Retries
    /\ pPc # "send" => pAttempt > 0
    /\ pWire \subseteq 1..pAttempt
    /\ pAnswers \in [1..Retries -> Post!Responses \union {Post!NoResponse}]
    /\ pProtocol \in 0..pAttempt

\* The server has taken up one request at most, and one as soon as any is delivered.
Delivered ==
    /\ pAccepted \subseteq {1}
    /\ \A a \in 1..pAttempt : a \notin pWire => 1 \in pAccepted

\* Attempts are answered in their order, once they are delivered; all but the answer
\* that ended the call were failures worth another attempt.
AnsweredInOrder ==
    \A a \in 1..Retries : ~Silent(a) =>
        /\ a <= pAttempt /\ a \notin pWire
        /\ pPc = "wait" => a < pAttempt
        /\ a < pAttempt \/ pPc = "send" => Post!Retryable(pAnswers[a].status)

\* The evidence is that of the answers: the latest of them, and the latest pause.
EvidenceKept ==
    /\ \/ pLast = Post!NoResponse /\ \A a \in 1..Retries : Silent(a)
       \/ pLast # Post!NoResponse /\ \E a \in 1..Retries : pAnswers[a] = pLast
    /\ \/ /\ pRetryFrom = 0 /\ pRetryAfter = Post!None
          /\ \A a \in 1..Retries : pAnswers[a].retryAfter = Post!None
       \/ /\ pRetryFrom \in 1..pAttempt /\ pRetryAfter # Post!None
          /\ pAnswers[pRetryFrom].retryAfter = pRetryAfter
          /\ \A a \in 1..Retries : a > pRetryFrom => pAnswers[a].retryAfter = Post!None

\* The four ways a call ends: the last attempt got no answer, it got a failure, its
\* answer was refused for its length, or it was conclusive.
EndedSilent ==
    /\ pAttempt = Retries /\ Silent(pAttempt)
    /\ pOutcome = Post!TransportOutcome

EndedFailing ==
    /\ pAttempt = Retries /\ ~Silent(pAttempt) /\ Post!Retryable(pAnswers[pAttempt].status)
    /\ pOutcome.response = pAnswers[pAttempt] /\ pOutcome.transport = FALSE
    /\ pOutcome.retryAfter = pRetryAfter /\ pOutcome.exhausted = TRUE
    /\ pOutcome.prior = (pRetryFrom \notin {0, pAttempt})

EndedRefused ==
    /\ ~Silent(pAttempt) /\ ~Post!Retryable(pAnswers[pAttempt].status)
    /\ pOutcome.response = pAnswers[pAttempt] /\ pOutcome.transport = FALSE
    /\ pOutcome.protocol = pAttempt /\ pOutcome.exhausted = FALSE

EndedConclusive ==
    /\ ~Silent(pAttempt) /\ ~Post!Retryable(pAnswers[pAttempt].status)
    /\ pOutcome = [Post!NoOutcome EXCEPT !.response = pAnswers[pAttempt]]

OutcomeTells ==
    pPc = "ended" => EndedSilent \/ EndedFailing \/ EndedRefused \/ EndedConclusive

PostInv == PostShapes /\ Delivered /\ AnsweredInOrder /\ EvidenceKept /\ OutcomeTells

LEMMA InitPost == Init => PostInv
<1> SUFFICES ASSUME Post!Init PROVE PostInv
  BY DEF Init
<1>1. \A a \in 1..Retries : Silent(a) /\ pAnswers[a].retryAfter = Post!None
  BY DEF Post!Init, Silent, Post!NoResponse
<1>2. PostShapes
  BY PostConstants DEF Post!Init, PostShapes
<1>3. Delivered /\ AnsweredInOrder /\ EvidenceKept /\ OutcomeTells
  BY <1>1 DEF Post!Init, Delivered, AnsweredInOrder, EvidenceKept, OutcomeTells
<1>4. QED
  BY <1>2, <1>3 DEF PostInv

LEMMA SendPost == ASSUME PostInv, Post!Send PROVE PostInv'
<1>1. /\ pPc = "send" /\ pPc' = "wait" /\ pAttempt' = pAttempt + 1
      /\ pWire' = pWire \union {pAttempt + 1}
      /\ UNCHANGED <<pAccepted, pLast, pProtocol, pRetryAfter, pRetryFrom, pOutcome, pAnswers>>
  BY DEF Post!Send, Post!evidence
<1>2. PostShapes' /\ pAttempt \in Nat /\ Retries \in Nat
  BY <1>1, PostConstants DEF PostInv, PostShapes
<1>3. Delivered'
  BY <1>1, <1>2 DEF PostInv, PostShapes, Delivered
<1>4. AnsweredInOrder'
  BY <1>1, <1>2 DEF PostInv, PostShapes, AnsweredInOrder, Silent, Post!Retryable
<1>5. EvidenceKept'
  BY <1>1, <1>2 DEF PostInv, EvidenceKept, Silent
<1>6. QED
  BY <1>1, <1>2, <1>3, <1>4, <1>5 DEF PostInv, OutcomeTells

LEMMA DeliverPost == ASSUME PostInv, NEW a \in pWire, Post!Deliver(a) PROVE PostInv'
<1>1. /\ pWire' = pWire \ {a} /\ pAccepted' = pAccepted \union {1}
      /\ UNCHANGED <<pPc, pAttempt, pLast, pProtocol, pRetryAfter, pRetryFrom, pOutcome, pAnswers>>
  BY DEF Post!Deliver, Post!RequestId, Post!evidence
<1>2. PostShapes' /\ Delivered'
  BY <1>1 DEF PostInv, PostShapes, Delivered
<1>3. AnsweredInOrder' /\ EvidenceKept'
  BY <1>1 DEF PostInv, AnsweredInOrder, EvidenceKept, Silent, Post!Retryable
<1>4. OutcomeTells'
  BY <1>1 DEF PostInv, OutcomeTells, EndedSilent, EndedFailing, EndedRefused, EndedConclusive,
     Silent, Post!Retryable, Post!TransportOutcome
<1>5. QED
  BY <1>2, <1>3, <1>4 DEF PostInv

LEMMA TransportPost == ASSUME PostInv, Post!TransportFails PROVE PostInv'
<1>1. /\ pPc = "wait"
      /\ UNCHANGED <<pAttempt, pWire, pAccepted, pLast, pProtocol, pRetryAfter, pRetryFrom,
                     pAnswers>>
      /\ \/ pAttempt < Retries /\ pPc' = "send"
         \/ pAttempt = Retries /\ pPc' = "ended" /\ pOutcome' = Post!TransportOutcome
  BY PostConstants DEF Post!TransportFails, Post!evidence, Post!Again, Post!End, PostInv, PostShapes
<1>2. PostShapes' /\ Delivered' /\ pAttempt \in 1..Retries
  BY <1>1 DEF PostInv, PostShapes, Delivered
<1>3. AnsweredInOrder'
  <2> SUFFICES ASSUME NEW a \in 1..Retries, ~Silent(a)
               PROVE  a < pAttempt /\ a \notin pWire /\ Post!Retryable(pAnswers[a].status)
    BY <1>1, <1>2, PostConstants DEF AnsweredInOrder, Silent, Post!Retryable
  <2>1. QED
    BY <1>1, <1>2 DEF PostInv, AnsweredInOrder
<1>4. EvidenceKept'
  BY <1>1 DEF PostInv, EvidenceKept, Silent
<1>5. Silent(pAttempt)
  BY <1>1, <1>2 DEF PostInv, AnsweredInOrder
<1>6. OutcomeTells'
  BY <1>1, <1>5 DEF OutcomeTells, EndedSilent, Silent, Post!TransportOutcome
<1>7. QED
  BY <1>2, <1>3, <1>4, <1>6 DEF PostInv

\* What an answer leaves, however it was taken.
LEMMA AnswerKept ==
    ASSUME PostInv, pPc = "wait", pAttempt \notin pWire, NEW r \in Post!Responses, Post!Keep(r),
           pProtocol' \in {pProtocol, pAttempt}, UNCHANGED <<pAttempt, pWire, pAccepted>>,
           \/ pPc' = "send" /\ pAttempt < Retries /\ Post!Retryable(r.status)
           \/ pPc' = "ended"
    PROVE  /\ PostShapes' /\ Delivered' /\ AnsweredInOrder' /\ EvidenceKept'
           /\ pAnswers'[pAttempt] = r /\ r # Post!NoResponse /\ pAttempt \in 1..Retries
<1>1. r # Post!NoResponse /\ r.retryAfter \in Pacings \union {Post!None}
  <2>1. r.status \in Post!Statuses /\ r.retryAfter \in Pacings \union {Post!None}
    BY DEF Post!Responses
  <2>2. Post!NoResponse.status = Post!None /\ Post!None \notin Post!Statuses
    BY DEF Post!NoResponse, Post!None, Post!Statuses
  <2>3. QED
    BY <2>1, <2>2
<1>2. /\ pLast' = r
      /\ pRetryAfter' = IF r.retryAfter # Post!None THEN r.retryAfter ELSE pRetryAfter
      /\ pRetryFrom' = IF r.retryAfter # Post!None THEN pAttempt ELSE pRetryFrom
      /\ pAnswers' = [pAnswers EXCEPT ![pAttempt] = r]
  BY DEF Post!Keep
<1>3. pAttempt \in 1..Retries /\ Retries \in Nat
  BY PostConstants DEF PostInv, PostShapes
<1>4. /\ pAnswers'[pAttempt] = r
      /\ \A a \in 1..Retries : a # pAttempt => pAnswers'[a] = pAnswers[a]
      /\ pAnswers' \in [1..Retries -> Post!Responses \union {Post!NoResponse}]
  BY <1>2, <1>3 DEF PostInv, PostShapes
<1>5. PostShapes' /\ Delivered'
  BY <1>3, <1>4 DEF PostInv, PostShapes, Delivered
<1>6. AnsweredInOrder'
  BY <1>1, <1>3, <1>4 DEF PostInv, AnsweredInOrder, Silent, Post!Retryable
<1>7. EvidenceKept'
  <2>1. pLast' # Post!NoResponse /\ \E a \in 1..Retries : pAnswers'[a] = pLast'
    BY <1>1, <1>2, <1>3, <1>4
  <2>2. \A a \in 1..Retries : a > pAttempt => pAnswers'[a] = Post!NoResponse
    BY <1>3, <1>4 DEF PostInv, AnsweredInOrder, Silent
  <2>3. \A a \in 1..Retries : a > pAttempt => pAnswers'[a].retryAfter = Post!None
    BY <2>2 DEF Post!NoResponse
  <2>4. CASE r.retryAfter # Post!None
    BY <1>2, <1>3, <1>4, <2>1, <2>3, <2>4 DEF EvidenceKept
  <2>5. CASE r.retryAfter = Post!None
    <3>1. pRetryFrom' = pRetryFrom /\ pRetryAfter' = pRetryAfter
      BY <1>2, <2>5
    <3>2. CASE pRetryFrom = 0
      <4>1. pRetryAfter = Post!None /\ \A a \in 1..Retries : pAnswers[a].retryAfter = Post!None
        BY <3>2 DEF PostInv, EvidenceKept
      <4>2. QED
        BY <1>4, <2>1, <2>5, <3>1, <3>2, <4>1 DEF EvidenceKept
    <3>3. CASE pRetryFrom # 0
      <4>1. /\ pRetryFrom \in 1..pAttempt /\ pRetryAfter # Post!None
            /\ pAnswers[pRetryFrom].retryAfter = pRetryAfter
            /\ \A a \in 1..Retries : a > pRetryFrom => pAnswers[a].retryAfter = Post!None
        BY <3>3 DEF PostInv, EvidenceKept
      <4>2. Silent(pAttempt)
        BY <1>3 DEF PostInv, AnsweredInOrder
      <4>3. pRetryFrom # pAttempt /\ pRetryFrom \in 1..Retries
        BY <1>3, <4>1, <4>2 DEF Silent, Post!NoResponse
      <4>4. QED
        BY <1>3, <1>4, <2>1, <2>5, <3>1, <4>1, <4>3 DEF EvidenceKept
    <3>4. QED
      BY <3>2, <3>3
  <2>6. QED
    BY <2>4, <2>5
<1>8. QED
  BY <1>1, <1>3, <1>4, <1>5, <1>6, <1>7

LEMMA AnswerPost == ASSUME PostInv, Post!Answer PROVE PostInv'
<1>1. pPc = "wait" /\ pAttempt \notin pWire /\ UNCHANGED <<pAttempt, pWire, pAccepted>>
  BY DEF Post!Answer
<1>2. PICK r \in Post!Responses : Post!RefuseBody(r) \/ Post!TakeResponse(r)
  BY DEF Post!Answer
<1>3. pAttempt \in 1..Retries
  BY <1>1 DEF PostInv, PostShapes
<1>4. CASE Post!RefuseBody(r)
  <2>1. /\ Post!Keep(r) /\ pProtocol' = pAttempt
        /\ \/ pPc' = "send" /\ pAttempt < Retries /\ Post!Retryable(r.status)
           \/ /\ pPc' = "ended" /\ pOutcome' = Post!Failed(r)
              /\ Post!Retryable(r.status) => pAttempt = Retries
    <3>1. CASE Post!Retryable(r.status) /\ pAttempt < Retries
      BY <1>4, <3>1 DEF Post!RefuseBody, Post!Again
    <3>2. CASE ~(Post!Retryable(r.status) /\ pAttempt < Retries)
      <4>1. Post!Keep(r) /\ pProtocol' = pAttempt /\ pPc' = "ended" /\ pOutcome' = Post!Failed(r)
        BY <1>4, <3>2 DEF Post!RefuseBody, Post!End
      <4>2. Post!Retryable(r.status) => pAttempt = Retries
        BY <1>3, <3>2, PostConstants
      <4>3. QED
        BY <4>1, <4>2
    <3>3. QED
      BY <3>1, <3>2
  <2>2. /\ PostShapes' /\ Delivered' /\ AnsweredInOrder' /\ EvidenceKept'
        /\ pAnswers'[pAttempt] = r /\ r # Post!NoResponse
    BY <1>1, <2>1, AnswerKept
  <2>3. OutcomeTells'
    <3> SUFFICES ASSUME pPc' = "ended" PROVE (EndedFailing \/ EndedRefused)'
      BY DEF OutcomeTells
    <3>1. /\ pOutcome'.response = r /\ pOutcome'.transport = FALSE /\ pOutcome'.protocol = pAttempt
          /\ pOutcome'.retryAfter = pRetryAfter'
          /\ pOutcome'.prior = (pRetryFrom' \notin {0, pAttempt})
          /\ pOutcome'.exhausted = Post!Retryable(r.status)
      BY <2>1 DEF Post!Failed
    <3>2. /\ pAttempt' = pAttempt /\ pAnswers'[pAttempt'] = r
          /\ pAnswers'[pAttempt'] # Post!NoResponse
          /\ Post!Retryable(r.status) => pAttempt' = Retries
          /\ pOutcome'.response = pAnswers'[pAttempt']
          /\ pOutcome'.prior = (pRetryFrom' \notin {0, pAttempt'})
          /\ pOutcome'.protocol = pAttempt'
      BY <1>1, <2>1, <2>2, <3>1
    <3>3. CASE Post!Retryable(r.status)
      BY <3>1, <3>2, <3>3 DEF EndedFailing, Silent, Post!Retryable
    <3>4. CASE ~Post!Retryable(r.status)
      BY <3>1, <3>2, <3>4 DEF EndedRefused, Silent, Post!Retryable
    <3>5. QED
      BY <3>3, <3>4
  <2>4. QED
    BY <2>2, <2>3 DEF PostInv
<1>5. CASE Post!TakeResponse(r)
  <2>1. /\ Post!Keep(r) /\ pProtocol' = pProtocol
        /\ \/ pPc' = "send" /\ pAttempt < Retries /\ Post!Retryable(r.status)
           \/ /\ pPc' = "ended" /\ pAttempt = Retries /\ Post!Retryable(r.status)
              /\ pOutcome' = [Post!Failed(r) EXCEPT !.protocol = 0]
           \/ /\ pPc' = "ended" /\ ~Post!Retryable(r.status)
              /\ pOutcome' = [Post!NoOutcome EXCEPT !.response = r]
    BY <1>3, <1>5 DEF Post!TakeResponse, Post!Again, Post!End
  <2>2. /\ PostShapes' /\ Delivered' /\ AnsweredInOrder' /\ EvidenceKept'
        /\ pAnswers'[pAttempt] = r /\ r # Post!NoResponse
    BY <1>1, <2>1, AnswerKept
  <2>3. OutcomeTells'
    <3> SUFFICES ASSUME pPc' = "ended" PROVE (EndedFailing \/ EndedConclusive)'
      BY DEF OutcomeTells
    <3>1. CASE Post!Retryable(r.status)
      <4>1. /\ pOutcome'.response = r /\ pOutcome'.transport = FALSE
            /\ pOutcome'.retryAfter = pRetryAfter'
            /\ pOutcome'.prior = (pRetryFrom' \notin {0, pAttempt})
            /\ pOutcome'.exhausted = Post!Retryable(r.status)
        BY <2>1, <3>1 DEF Post!Failed
      <4>2. pAttempt' = pAttempt /\ pAttempt' = Retries /\ pAnswers'[pAttempt'] = r
        BY <1>1, <2>1, <2>2, <3>1
      <4>3. /\ pAnswers'[pAttempt'] # Post!NoResponse
            /\ pAnswers'[pAttempt'].status = r.status
            /\ pOutcome'.response = pAnswers'[pAttempt']
            /\ pOutcome'.prior = (pRetryFrom' \notin {0, pAttempt'})
            /\ pOutcome'.exhausted = TRUE
        BY <2>2, <3>1, <4>1, <4>2
      <4>4. QED
        BY <3>1, <4>1, <4>2, <4>3 DEF EndedFailing, Silent, Post!Retryable
    <3>2. CASE ~Post!Retryable(r.status)
      BY <1>1, <2>1, <2>2, <3>2 DEF EndedConclusive, Silent, Post!Retryable
    <3>3. QED
      BY <3>1, <3>2
  <2>4. QED
    BY <2>2, <2>3 DEF PostInv
<1>6. QED
  BY <1>2, <1>4, <1>5

LEMMA NextPost == PostInv /\ [Next]_vars => PostInv'
<1> SUFFICES ASSUME PostInv, [Post!Next]_postVars PROVE PostInv'
  BY PostMoves
<1>1. CASE UNCHANGED postVars
  BY <1>1 DEF postVars, PostInv, PostShapes, Delivered, AnsweredInOrder, EvidenceKept,
     OutcomeTells, EndedSilent, EndedFailing, EndedRefused, EndedConclusive, Silent,
     Post!Retryable, Post!TransportOutcome
<1>2. CASE Post!Next
  BY <1>1, <1>2, SendPost, DeliverPost, AnswerPost, TransportPost
  DEF Post!Next, Post!Done, Post!vars, postVars
<1>3. QED
  BY <1>1, <1>2

LEMMA StatusCategories ==
    ASSUME NEW s \in Post!Statuses
    PROVE  /\ Post!StatusCategory(s) = "unavailable" <=> Post!Retryable(s)
           /\ Post!StatusCategory(s) \notin {"transport", "leased", "malformed"}
           /\ Post!Retryable(200) = FALSE
<1>1. s \in {200, 204, 401} \/ s \in {404, 408} \/ s \in {429, 503}
  BY DEF Post!Statuses
<1>2. CASE s \in {200, 204, 401}
  BY <1>2 DEF Post!StatusCategory, Post!Retryable
<1>3. CASE s \in {404, 408}
  BY <1>3 DEF Post!StatusCategory, Post!Retryable
<1>4. CASE s \in {429, 503}
  BY <1>4 DEF Post!StatusCategory, Post!Retryable
<1>5. QED
  BY <1>1, <1>2, <1>3, <1>4

\* An answer has a status, and silence has none.
LEMMA AnswerStatus ==
    ASSUME PostInv, NEW a \in 1..Retries, ~Silent(a)
    PROVE  /\ pAnswers[a] \in Post!Responses /\ pAnswers[a].status \in Post!Statuses
           /\ pAnswers[a].status # Post!None
<1>1. pAnswers[a] \in Post!Responses
  BY DEF PostInv, PostShapes, Silent
<1>2. QED
  BY <1>1 DEF Post!Responses, Post!Statuses, Post!None

\* A call ends with its last answer, if it had one.
LEMMA EndedAnswered ==
    ASSUME PostInv, pPc = "ended"
    PROVE  /\ pAttempt \in 1..Retries
           /\ ~Silent(pAttempt) => /\ pAnswers[pAttempt].status \in Post!Statuses
                                   /\ pAnswers[pAttempt].status # Post!None
                                   /\ pAttempt \notin pWire /\ pAccepted # {}
<1>1. pAttempt \in 1..Retries
  BY DEF PostInv, PostShapes
<1>2. ~Silent(pAttempt) => pAttempt \notin pWire
  BY <1>1 DEF PostInv, AnsweredInOrder
<1>3. ~Silent(pAttempt) => pAccepted # {}
  BY <1>1, <1>2 DEF PostInv, PostShapes, Delivered
<1>4. QED
  BY <1>1, <1>2, <1>3, AnswerStatus

\* The category of each way a call ends.
LEMMA CategoryEnded ==
    ASSUME PostInv, pPc = "ended"
    PROVE  /\ Post!CategoryOf(pOutcome) = "transport" <=> Silent(pAttempt)
           /\ Post!CategoryOf(pOutcome) = "unavailable" =>
                pAttempt = Retries /\ Post!Retryable(pAnswers[pAttempt].status)
           /\ Post!CategoryOf(pOutcome) = "leased" =>
                /\ ~Silent(pAttempt) /\ pAnswers[pAttempt].status = 200
                /\ pAnswers[pAttempt].body = "good"
<1>1. pAttempt \in 1..Retries
  BY EndedAnswered
<1>2. CASE EndedSilent
  <2>1. Silent(pAttempt) /\ pOutcome.transport = TRUE
    BY <1>2 DEF EndedSilent, Post!TransportOutcome
  <2>2. Post!CategoryOf(pOutcome) = "transport"
    BY <2>1 DEF Post!CategoryOf
  <2>3. QED
    BY <2>1, <2>2
<1>3. ASSUME ~Silent(pAttempt), pOutcome.response = pAnswers[pAttempt], pOutcome.transport = FALSE,
             Post!Retryable(pAnswers[pAttempt].status) => pAttempt = Retries
      PROVE  /\ Post!CategoryOf(pOutcome) = "transport" <=> Silent(pAttempt)
             /\ Post!CategoryOf(pOutcome) = "unavailable" =>
                  pAttempt = Retries /\ Post!Retryable(pAnswers[pAttempt].status)
             /\ Post!CategoryOf(pOutcome) = "leased" =>
                  /\ ~Silent(pAttempt) /\ pAnswers[pAttempt].status = 200
                  /\ pAnswers[pAttempt].body = "good"
  <2> DEFINE s == pAnswers[pAttempt].status
  <2>1. s \in Post!Statuses /\ pOutcome.response # Post!NoResponse
    BY <1>3, EndedAnswered DEF Silent
  <2>2. CASE s = 200
    <3>1. Post!CategoryOf(pOutcome) =
            IF pOutcome.protocol = 0 /\ pOutcome.response.body = "good"
            THEN "leased" ELSE "malformed"
      BY <1>3, <2>1, <2>2 DEF Post!CategoryOf
    <3>2. QED
      BY <1>3, <2>2, <3>1
  <2>3. CASE s # 200
    <3>1. Post!CategoryOf(pOutcome) = Post!StatusCategory(s)
      BY <1>3, <2>1, <2>3 DEF Post!CategoryOf
    <3>2. QED
      BY <1>3, <2>1, <3>1, StatusCategories
  <2>4. QED
    BY <2>2, <2>3
<1>4. CASE EndedFailing
  BY <1>3, <1>4 DEF EndedFailing
<1>5. CASE EndedRefused
  BY <1>3, <1>5 DEF EndedRefused
<1>6. CASE EndedConclusive
  <2>1. pOutcome.response = pAnswers[pAttempt] /\ pOutcome.transport = FALSE
    BY <1>6 DEF EndedConclusive, Post!NoOutcome
  <2>2. QED
    BY <1>3, <1>6, <2>1 DEF EndedConclusive
<1>7. QED
  BY <1>2, <1>4, <1>5, <1>6 DEF PostInv, OutcomeTells

\* commit and feedback take nothing but a conclusive answer for a success.
LEMMA SuccessEnded ==
    ASSUME PostInv, pPc = "ended", Post!Succeeds(pOutcome)
    PROVE  /\ ~Silent(pAttempt) /\ pAnswers[pAttempt].status = 200
           /\ pAnswers[pAttempt].body = "good"
<1>1. ~pOutcome.exhausted /\ pOutcome.protocol = 0
  <2> SUFFICES ASSUME pOutcome.exhausted \/ pOutcome.protocol # 0 PROVE FALSE
    OBVIOUS
  <2>1. Post!Post(pOutcome) = Post!NoResponse
    BY DEF Post!Post
  <2>2. QED
    BY <2>1 DEF Post!Succeeds, Post!NoResponse, Post!None
<1>2. pOutcome.response.status = 200 /\ pOutcome.response.body = "good"
  BY <1>1 DEF Post!Succeeds, Post!Post
<1>3. ~EndedSilent /\ ~EndedFailing
  BY <1>1 DEF EndedSilent, EndedFailing, Post!TransportOutcome
<1>4. ~EndedRefused
  BY <1>1, EndedAnswered DEF EndedRefused
<1>5. EndedConclusive
  BY <1>3, <1>4 DEF PostInv, OutcomeTells
<1>6. pOutcome.response = pAnswers[pAttempt] /\ ~Silent(pAttempt)
  BY <1>5 DEF EndedConclusive, Post!NoOutcome
<1>7. QED
  BY <1>2, <1>6

LEMMA PostCardinality == \A S : Post!Cardinality(S) = Cardinality(S)
  BY DEF Post!Cardinality, Cardinality

\* However many attempts are sent, lost or delivered late, the server sees one request to
\* act on; a reported success is the server's own, and nothing is posted again after a
\* 200 whose body was received, for any number of attempts
\* (ProblemServerClient.post_result, lease, commit).
THEOREM CallsPostOnce == Spec => []PostedOnce
<1>1. PostInv => PostedOnce
  <2> SUFFICES ASSUME PostInv PROVE Post!PostedOnce
    BY DEF PostedOnce
  <2>1. Post!TypeOK
    <3>1. pAttempt \in 0..Retries /\ pPc \in {"send", "wait", "ended"} /\ pWire \subseteq 1..Retries
          /\ pProtocol \in 0..Retries /\ Retries \in Nat \ {0}
          /\ pAnswers \in [1..Retries -> Post!Responses \union {Post!NoResponse}]
      BY PostConstants DEF PostInv, PostShapes
    <3>2. pAccepted \subseteq 1..Retries
      BY <3>1 DEF PostInv, Delivered
    <3>3. pLast \in Post!Responses \union {Post!NoResponse}
      BY <3>1 DEF PostInv, EvidenceKept
    <3>4. pRetryFrom \in 0..Retries
      BY <3>1 DEF PostInv, EvidenceKept
    <3>5. pRetryAfter \in Pacings \union {Post!None}
      <4>1. CASE pRetryFrom = 0
        BY <4>1 DEF PostInv, EvidenceKept
      <4>2. CASE pRetryFrom # 0
        <5>1. pRetryFrom \in 1..Retries /\ pAnswers[pRetryFrom].retryAfter = pRetryAfter
              /\ pRetryAfter # Post!None
          BY <3>1, <4>2 DEF PostInv, EvidenceKept
        <5>2. pAnswers[pRetryFrom] \in Post!Responses
          BY <3>1, <5>1 DEF Post!NoResponse
        <5>3. QED
          BY <5>1, <5>2 DEF Post!Responses
      <4>3. QED
        BY <4>1, <4>2
    <3>6. QED
      BY <3>1, <3>2, <3>3, <3>4, <3>5 DEF Post!TypeOK
  <2>2. Post!OneChallengePerLease
    <3>1. pAccepted = {} \/ pAccepted = {1}
      BY DEF PostInv, Delivered
    <3>2. Cardinality({}) = 0 /\ Cardinality({1}) = 1
      BY FS_EmptySet, FS_Singleton
    <3>3. Cardinality(pAccepted) \in {0, 1}
      BY <3>1, <3>2
    <3>4. QED
      BY <3>3, PostCardinality DEF Post!OneChallengePerLease
  <2>3. Post!SuccessIsReal
    <3>1. ASSUME pPc = "ended", Post!CategoryOf(pOutcome) = "leased" \/ Post!Succeeds(pOutcome)
          PROVE  /\ pAccepted # {} /\ pAnswers[pAttempt].status = 200
                 /\ pAnswers[pAttempt].body = "good"
      BY <3>1, CategoryEnded, SuccessEnded, EndedAnswered
    <3>2. ASSUME NEW a \in 1..Retries, ~Silent(a), pAnswers[a].status = 200
          PROVE  a = pAttempt /\ pPc # "send"
      <4>1. ~Post!Retryable(pAnswers[a].status)
        BY <3>2, AnswerStatus DEF Post!Retryable
      <4>2. a <= pAttempt /\ ~(a < pAttempt \/ pPc = "send")
        BY <3>2, <4>1 DEF PostInv, AnsweredInOrder
      <4>3. QED
        BY <4>2 DEF PostInv, PostShapes
    <3>3. QED
      BY <3>1, <3>2 DEF Post!SuccessIsReal, Post!Ended, Post!FinalAnswer, Post!Answered, Silent
  <2>4. QED
    BY <2>1, <2>2, <2>3 DEF Post!PostedOnce
<1>2. QED
  BY <1>1, InitPost, NextPost, PTL DEF Spec

\* The latest attempt that was asked to pause.
LEMMA LatestPause ==
    ASSUME PostInv
    PROVE  LET pacing == {a \in Post!Answered : pAnswers[a].retryAfter # Post!None}
           IN  /\ pRetryFrom = 0 => pacing = {} /\ pRetryAfter = Post!None
               /\ pRetryFrom # 0 =>
                    /\ pacing # {} /\ pRetryAfter # Post!None
                    /\ (CHOOSE a \in pacing : \A b \in pacing : b <= a) = pRetryFrom
                    /\ pAnswers[pRetryFrom].retryAfter = pRetryAfter
<1> DEFINE pacing == {a \in Post!Answered : pAnswers[a].retryAfter # Post!None}
<1>0. Retries \in Nat /\ pAttempt \in 0..Retries
  BY PostConstants DEF PostInv, PostShapes
<1>1. CASE pRetryFrom = 0
  BY <1>1 DEF PostInv, EvidenceKept, Post!Answered
<1>2. CASE pRetryFrom # 0
  <2>1. /\ pRetryFrom \in 1..Retries /\ pRetryAfter # Post!None
        /\ pAnswers[pRetryFrom].retryAfter = pRetryAfter
        /\ \A a \in 1..Retries : a > pRetryFrom => pAnswers[a].retryAfter = Post!None
    BY <1>0, <1>2 DEF PostInv, EvidenceKept
  <2>2. pRetryFrom \in pacing
    BY <2>1 DEF Post!Answered, Post!NoResponse
  <2>3. \A b \in pacing : b \in 1..Retries /\ b <= pRetryFrom
    BY <1>0, <2>1 DEF Post!Answered
  <2>4. \A a \in pacing : (\A b \in pacing : b <= a) => a = pRetryFrom
    BY <2>1, <2>2, <2>3
  <2>5. (CHOOSE a \in pacing : \A b \in pacing : b <= a) = pRetryFrom
    <3> HIDE DEF pacing
    <3>1. QED
      BY <2>2, <2>3, <2>4
  <2>6. QED
    BY <1>2, <2>1, <2>2, <2>5
<1>3. QED
  BY <1>1, <1>2

\* The outcome of a lease tells apart no answer, a server that failed and nothing that
\* ever answered, and a pause the server asked for survives the attempts after it, for
\* any number of attempts and any pauses (post_result, lease).
THEOREM OutcomeIsTruthful == Spec => []OutcomeTruthful
<1>1. PostInv => OutcomeTruthful
  <2> SUFFICES ASSUME PostInv PROVE Post!CategoryTruthful /\ Post!PacingSurvives
    BY DEF OutcomeTruthful, Post!OutcomeTruthful
  <2> SUFFICES ASSUME pPc = "ended" PROVE Post!CategoryTruthful /\ Post!PacingSurvives
    BY DEF Post!CategoryTruthful, Post!PacingSurvives, Post!Ended
  <2>1. pAttempt \in 1..Retries
    BY EndedAnswered
  <2>2. \A a : a \in Post!Answered <=> a \in 1..Retries /\ ~Silent(a)
    BY DEF Post!Answered, Silent
  <2>3. pLast = Post!NoResponse <=> Post!Answered = {}
    BY <2>2 DEF PostInv, EvidenceKept, Silent
  <2>4. Post!CategoryTruthful
    <3>1. Post!LeaseOutcome(pOutcome).status = pOutcome.response.status
      BY DEF Post!LeaseOutcome
    <3>2. CASE EndedSilent
      <4>1. pOutcome.response = pLast
        BY <3>2 DEF EndedSilent, Post!TransportOutcome
      <4>2. CASE pLast = Post!NoResponse
        BY <2>3, <3>1, <4>1, <4>2, CategoryEnded
        DEF Post!CategoryTruthful, Post!NoResponse, Post!FinalAnswer, Silent
      <4>3. CASE pLast # Post!NoResponse
        <5>1. PICK a \in 1..Retries : pAnswers[a] = pLast
          BY <4>3 DEF PostInv, EvidenceKept
        <5>2. pLast.status # Post!None
          BY <4>3, <5>1, AnswerStatus DEF Silent
        <5>3. QED
          BY <2>3, <3>1, <4>1, <4>3, <5>2, CategoryEnded
          DEF Post!CategoryTruthful, Post!FinalAnswer, Silent
      <4>4. QED
        BY <4>2, <4>3
    <3>3. CASE ~EndedSilent
      <4>1. ~Silent(pAttempt) /\ pOutcome.response = pAnswers[pAttempt]
        BY <3>3
        DEF PostInv, OutcomeTells, EndedFailing, EndedRefused, EndedConclusive, Post!NoOutcome
      <4>2. pOutcome.response.status # Post!None /\ Post!Answered # {}
        BY <2>1, <2>2, <4>1, EndedAnswered
      <4>3. QED
        BY <3>1, <4>1, <4>2, CategoryEnded DEF Post!CategoryTruthful, Post!FinalAnswer, Silent
    <3>4. QED
      BY <3>2, <3>3
  <2>5. Post!PacingSurvives
    <3> DEFINE pacing == {a \in Post!Answered : pAnswers[a].retryAfter # Post!None}
               latest == CHOOSE a \in pacing : \A b \in pacing : b <= a
               reported == Post!LeaseOutcome(pOutcome).retryAfter
    <3>1. reported = IF pOutcome.retryAfter # Post!None THEN pOutcome.retryAfter
                     ELSE pOutcome.response.retryAfter
      BY DEF Post!LeaseOutcome
    <3>2. /\ pRetryFrom = 0 => pacing = {} /\ pRetryAfter = Post!None
          /\ pRetryFrom # 0 => /\ pacing # {} /\ pRetryAfter # Post!None
                               /\ latest = pRetryFrom
                               /\ pAnswers[pRetryFrom].retryAfter = pRetryAfter
      BY LatestPause
    <3> DEFINE Survives ==
          /\ pOutcome.exhausted =>
               IF pacing = {} THEN reported = Post!None
               ELSE /\ reported = pAnswers[latest].retryAfter
                    /\ pOutcome.prior <=> latest # pAttempt \/ pOutcome.transport
          /\ ~pOutcome.exhausted /\ pOutcome.protocol = 0 =>
               reported = pAnswers[pAttempt].retryAfter
    <3> SUFFICES Survives
      BY DEF Post!PacingSurvives, Post!FinalAnswer
    <3> HIDE DEF reported, latest, pacing
    <3>3. pRetryFrom = 0 => /\ pLast.retryAfter = Post!None
                            /\ pAnswers[pAttempt].retryAfter = Post!None
      BY <2>1 DEF PostInv, EvidenceKept, Post!NoResponse
    <3>4. CASE EndedSilent
      <4>1. /\ pOutcome.response = pLast /\ pOutcome.retryAfter = pRetryAfter
            /\ pOutcome.prior = (pRetryFrom # 0)
            /\ pOutcome.transport = TRUE /\ pOutcome.exhausted = TRUE
        BY <3>4 DEF EndedSilent, Post!TransportOutcome
      <4>2. QED
        BY <3>1, <3>2, <3>3, <4>1
    <3>5. CASE EndedFailing
      <4>1. /\ pOutcome.response = pAnswers[pAttempt] /\ pOutcome.retryAfter = pRetryAfter
            /\ pOutcome.prior = (pRetryFrom \notin {0, pAttempt})
            /\ pOutcome.transport = FALSE /\ pOutcome.exhausted = TRUE
        BY <3>5 DEF EndedFailing
      <4>2. QED
        BY <3>1, <3>2, <3>3, <4>1
    <3>6. CASE EndedRefused
      <4>1. pOutcome.protocol # 0 /\ pOutcome.exhausted = FALSE
        BY <2>1, <3>6 DEF EndedRefused
      <4>2. QED
        BY <4>1
    <3>7. CASE EndedConclusive
      <4>1. /\ pOutcome.response = pAnswers[pAttempt] /\ pOutcome.retryAfter = Post!None
            /\ pOutcome.exhausted = FALSE
        BY <3>7 DEF EndedConclusive, Post!NoOutcome
      <4>2. QED
        BY <3>1, <4>1
    <3>8. QED
      BY <3>4, <3>5, <3>6, <3>7 DEF PostInv, OutcomeTells
  <2>6. QED
    BY <2>4, <2>5
<1>2. QED
  BY <1>1, InitPost, NextPost, PTL DEF Spec
-----------------------------------------------------------------------------
(***************************************************************************)
(* The notices after a round.                                              *)
(***************************************************************************)
LEMMA NoticeConstants ==
    /\ Concurrency \in Nat \ {0} /\ GateCapacity \in Nat \ {0}
    /\ SendTimeout \in Nat \ {0} /\ BatchDeadline \in Nat \ {0}
    /\ MaxRecipients \in Nat \ {0} /\ Notices!IsFiniteSet(Recipients)
  BY PartsAssumption DEF PartsAssumption, Notices!FailureNoticesAssumption

LEMMA NoticeCardinality == \A S : Notices!Cardinality(S) = Cardinality(S)
  BY DEF Notices!Cardinality, Cardinality

LEMMA TupleIsSeq ==
    ASSUME NEW T, NEW n \in Nat, NEW s \in [1..n -> T] PROVE s \in Seq(T) /\ Len(s) = n
  OBVIOUS

JobRecords == [to : Recipients, passed : BOOLEAN, display : BOOLEAN]

\* The jobs of a batch, and what is known of each.
NoticeShapes ==
    /\ nBatch \in {"none", "notices", "between", "tickets", "done"}
    /\ nNow \in Nat
    /\ nJobs \in Seq(JobRecords)
    /\ nState \in [1..Len(nJobs) -> {"waiting", "gate", "post", "repost", "over"}]
    /\ nDue \in [1..Len(nJobs) -> Nat]
    /\ nRequests \in [1..Len(nJobs) -> Nat]
    /\ nBatch = "notices" => Len(nJobs) <= MaxRecipients
    /\ nBatch = "tickets" => \A j \in 1..Len(nJobs) : nState[j] # "gate"
    /\ Notices!Running => nNow <= BatchDeadline

\* Every permit is free or held by one job.
PermitsCounted ==
    /\ nPermits \in Int
    /\ Cardinality(Notices!Active) <= Concurrency
    /\ nPermits + Cardinality(Notices!Holding) = GateCapacity

\* The failures come first, in the batch and before what was left out, and the jobs
\* of a batch start in their order.
FailuresLead ==
    /\ nBatch = "notices" =>
        /\ \A i, j \in 1..Len(nJobs) : i < j /\ nJobs[i].passed => nJobs[j].passed
        /\ \A i \in 1..Len(nJobs), j \in DOMAIN nUnsent : nJobs[i].passed => nUnsent[j].passed
    /\ \A i, j \in 1..Len(nJobs) : i < j /\ nState[i] = "waiting" => nState[j] = "waiting"
    /\ \A j \in 1..Len(nJobs) : nState[j] = "waiting" => nRequests[j] = 0

NoticesInv == NoticeShapes /\ PermitsCounted /\ FailuresLead

LEMMA JobsFinite ==
    ASSUME NoticeShapes
    PROVE  /\ Notices!Jobs = 1..Len(nJobs) /\ Len(nJobs) \in Nat
           /\ IsFiniteSet(Notices!Active) /\ Cardinality(Notices!Active) \in Nat
           /\ IsFiniteSet(Notices!Holding) /\ Cardinality(Notices!Holding) \in Nat
<1>1. Notices!Jobs = 1..Len(nJobs) /\ Len(nJobs) \in Nat
  BY DEF NoticeShapes, Notices!Jobs
<1>2. IsFiniteSet(1..Len(nJobs))
  BY <1>1, FS_Interval
<1>3. Notices!Active \subseteq 1..Len(nJobs) /\ Notices!Holding \subseteq 1..Len(nJobs)
  BY <1>1 DEF Notices!Active, Notices!Holding
<1>4. IsFiniteSet(Notices!Active) /\ IsFiniteSet(Notices!Holding)
  BY <1>2, <1>3, FS_Subset
<1>5. QED
  BY <1>1, <1>4, FS_CardinalityType

LEMMA InitNotices == Init => NoticesInv
<1> SUFFICES ASSUME Notices!Init PROVE NoticesInv
  BY DEF Init
<1>1. /\ nBatch = "none" /\ nNow = 0 /\ nJobs = <<>> /\ nState = <<>> /\ nDue = <<>>
      /\ nRequests = <<>> /\ nPermits = GateCapacity
  BY DEF Notices!Init
<1>2. nJobs \in Seq(JobRecords) /\ Len(nJobs) = 0 /\ 1..Len(nJobs) = {}
  BY <1>1
<1>3. \A T : <<>> \in [1..Len(nJobs) -> T]
  BY <1>2
<1>4. NoticeShapes
  BY <1>1, <1>2, <1>3 DEF NoticeShapes, Notices!Running
<1>5. Notices!Active = {} /\ Notices!Holding = {}
  BY <1>1, <1>2 DEF Notices!Active, Notices!Holding, Notices!Jobs
<1>6. PermitsCounted
  BY <1>1, <1>5, FS_EmptySet, NoticeConstants DEF PermitsCounted
<1>7. QED
  BY <1>1, <1>2, <1>4, <1>6 DEF NoticesInv, FailuresLead

\* A batch starts with every job waiting and every permit free.
LEMMA StartNotices ==
    ASSUME NoticesInv, ~Notices!Running,
           NEW kind \in {"notices", "tickets"}, NEW js \in Seq(JobRecords), NEW cut,
           Notices!StartBatch(kind, js, cut),
           kind = "notices" =>
             /\ Len(js) <= MaxRecipients
             /\ \A i, j \in 1..Len(js) : i < j /\ js[i].passed => js[j].passed
             /\ \A i \in 1..Len(js), j \in DOMAIN cut : js[i].passed => cut[j].passed
    PROVE  NoticesInv'
<1>1. /\ nBatch' = kind /\ nNow' = 0 /\ nJobs' = js /\ nUnsent' = cut /\ nPermits' = nPermits
      /\ nState' = [j \in DOMAIN js |-> "waiting"] /\ nDue' = [j \in DOMAIN js |-> 0]
      /\ nRequests' = [j \in DOMAIN js |-> 0]
  BY DEF Notices!StartBatch
<1>2. DOMAIN js = 1..Len(js) /\ Len(js) \in Nat
  OBVIOUS
<1>3. NoticeShapes'
  BY <1>1, <1>2, NoticeConstants DEF NoticeShapes, Notices!Running
<1>4. Notices!Holding = {} /\ Notices!Active' = {} /\ Notices!Holding' = {}
  BY <1>1 DEF Notices!Running, Notices!Holding, Notices!Active, Notices!Jobs
<1>5. PermitsCounted'
  BY <1>1, <1>4, FS_EmptySet, NoticeConstants DEF NoticesInv, PermitsCounted
<1>6. FailuresLead'
  BY <1>1, <1>2 DEF FailuresLead
<1>7. QED
  BY <1>3, <1>5, <1>6 DEF NoticesInv

LEMMA OrderOfMiners ==
    ASSUME NEW order \in Notices!Orders
    PROVE  \E n \in Nat : order \in [1..n -> Recipients]
<1>1. IsFiniteSet(Recipients)
  BY NoticeConstants DEF Notices!IsFiniteSet, IsFiniteSet
<1>2. Cardinality(Recipients) \in Nat
  BY <1>1, FS_CardinalityType
<1>3. QED
  BY <1>2, NoticeCardinality DEF Notices!Orders

LEMMA NotifyNotices ==
    ASSUME NoticesInv, NEW order \in Notices!Orders,
           NEW outcome \in [Recipients -> Notices!Outcomes],
           Notices!Notify(order, outcome)
    PROVE  NoticesInv'
<1>1. PICK n \in Nat : order \in [1..n -> Recipients]
  BY OrderOfMiners
<1> DEFINE js == [i \in DOMAIN order |-> Notices!Job(order[i], outcome[order[i]])]
<1>2. js \in [1..n -> JobRecords]
  BY <1>1 DEF Notices!Job, JobRecords
<1>3. PICK all \in Notices!FailuresFirst(js) :
        LET kept == IF Len(all) < MaxRecipients THEN Len(all) ELSE MaxRecipients
        IN  Notices!StartBatch("notices", SubSeq(all, 1, kept), SubSeq(all, kept + 1, Len(all)))
  BY DEF Notices!Notify
<1>4. ~Notices!Running
  BY DEF Notices!Notify, Notices!Running
<1> HIDE DEF js
<1>5. PICK o \in [1..n -> 1..n] :
        /\ all = [i \in 1..n |-> js[o[i]]]
        /\ \A i, j \in 1..n : i < j => Notices!Before(js, o[i], o[j])
  BY <1>2 DEF Notices!FailuresFirst
<1>6. all \in [1..n -> JobRecords] /\ all \in Seq(JobRecords) /\ Len(all) = n
  BY <1>2, <1>5, TupleIsSeq
<1>7. \A i, j \in 1..n : i < j /\ all[i].passed => all[j].passed
  <2> SUFFICES ASSUME NEW i \in 1..n, NEW j \in 1..n, i < j, all[i].passed PROVE all[j].passed
    OBVIOUS
  <2>1. Notices!Before(js, o[i], o[j]) /\ all[i] = js[o[i]] /\ all[j] = js[o[j]]
    BY <1>5
  <2>2. QED
    BY <2>1 DEF Notices!Before
<1> DEFINE kept == IF n < MaxRecipients THEN n ELSE MaxRecipients
<1>8. Notices!StartBatch("notices", SubSeq(all, 1, kept), SubSeq(all, kept + 1, n))
  BY <1>3, <1>6
<1>9. kept \in 0..n /\ kept <= MaxRecipients
  BY NoticeConstants
<1> HIDE DEF kept
<1>10. /\ SubSeq(all, 1, kept) \in Seq(JobRecords) /\ Len(SubSeq(all, 1, kept)) = kept
       /\ \A i \in 1..kept : SubSeq(all, 1, kept)[i] = all[i]
  BY <1>6, <1>9
<1>11. \A j \in DOMAIN SubSeq(all, kept + 1, n) :
         kept + j \in 1..n /\ j \in Nat \ {0} /\ SubSeq(all, kept + 1, n)[j] = all[kept + j]
  <2>1. SubSeq(all, kept + 1, n) = [j \in 1..(n - kept) |-> all[kept + j]]
    BY <1>6, <1>9
  <2>2. DOMAIN SubSeq(all, kept + 1, n) = 1..(n - kept) /\ n \in Nat /\ kept \in Nat /\ kept <= n
    BY <1>1, <1>9, <2>1
  <2> SUFFICES ASSUME NEW j \in 1..(n - kept)
               PROVE  /\ kept + j \in 1..n /\ j \in Nat \ {0}
                      /\ SubSeq(all, kept + 1, n)[j] = all[kept + j]
    BY <2>2
  <2>3. kept + j \in 1..n /\ j \in Nat \ {0}
    BY <2>2
  <2>4. QED
    BY <2>1, <2>3
<1>12. \A i, j \in 1..kept :
         i < j /\ SubSeq(all, 1, kept)[i].passed => SubSeq(all, 1, kept)[j].passed
  BY <1>7, <1>9, <1>10
<1>13. ASSUME NEW i \in 1..kept, NEW j \in DOMAIN SubSeq(all, kept + 1, n),
              SubSeq(all, 1, kept)[i].passed
       PROVE  SubSeq(all, kept + 1, n)[j].passed
  <2>1. i \in 1..n /\ kept + j \in 1..n /\ i < kept + j
    <3>1. kept \in Nat /\ kept <= n /\ kept + j \in 1..n /\ j \in Nat /\ j > 0
      BY <1>9, <1>11
    <3>2. QED
      BY <3>1
  <2>2. QED
    BY <1>7, <1>10, <1>11, <1>13, <2>1
<1>14. QED
  BY <1>4, <1>8, <1>9, <1>10, <1>12, <1>13, StartNotices

LEMMA TracesNotices ==
    ASSUME NoticesInv, NEW order \in Notices!Orders, Notices!CheckTraces(order)
    PROVE  NoticesInv'
<1>1. PICK n \in Nat : order \in [1..n -> Recipients]
  BY OrderOfMiners
<1> DEFINE js == [i \in DOMAIN order |-> Notices!Job(order[i], "passed")]
<1>2. js \in [1..n -> JobRecords]
  BY <1>1 DEF Notices!Job, JobRecords
<1>3. ~Notices!Running /\ Notices!StartBatch("tickets", js, <<>>)
  BY DEF Notices!CheckTraces, Notices!Running
<1>4. QED
  <2> HIDE DEF js
  <2>1. js \in Seq(JobRecords)
    BY <1>2, TupleIsSeq
  <2>2. QED
    BY <1>3, <2>1, StartNotices

\* A job that moves from one state to another, and what becomes of the permits.
LEMMA JobMoves ==
    ASSUME NoticesInv, Notices!Running, NEW j \in 1..Len(nJobs),
           NEW s \in {"gate", "post", "repost", "over"},
           nState' = [nState EXCEPT ![j] = s], UNCHANGED <<nBatch, nNow, nJobs, nUnsent>>,
           nDue' \in [1..Len(nJobs) -> Nat], nRequests' \in [1..Len(nJobs) -> Nat],
           \A i \in 1..Len(nJobs) : i # j => nRequests'[i] = nRequests[i],
           \A i \in 1..(j - 1) : nState[i] # "waiting",
           s = "gate" => nBatch = "notices",
           PermitsCounted'
    PROVE  NoticesInv'
<1>1. /\ Len(nJobs) \in Nat
      /\ nState \in [1..Len(nJobs) -> {"waiting", "gate", "post", "repost", "over"}]
  BY DEF NoticesInv, NoticeShapes
<1>2. /\ nState' \in [1..Len(nJobs) -> {"waiting", "gate", "post", "repost", "over"}]
      /\ nState'[j] = s /\ \A i \in 1..Len(nJobs) : i # j => nState'[i] = nState[i]
  BY <1>1
<1>3. NoticeShapes'
  BY <1>2 DEF NoticesInv, NoticeShapes, Notices!Running
<1>4. FailuresLead'
  <2>1. ASSUME NEW i \in 1..Len(nJobs), NEW k \in 1..Len(nJobs), i < k, nState'[i] = "waiting"
        PROVE  nState'[k] = "waiting"
    <3>1. i # j /\ nState[i] = "waiting"
      BY <1>2, <2>1
    <3>2. k # j
      BY <1>1, <2>1, <3>1
    <3>3. QED
      BY <1>2, <2>1, <3>1, <3>2 DEF NoticesInv, FailuresLead
  <2>2. \A i \in 1..Len(nJobs) : nState'[i] = "waiting" => nRequests'[i] = 0
    BY <1>2 DEF NoticesInv, FailuresLead
  <2>3. QED
    BY <2>1, <2>2 DEF NoticesInv, FailuresLead
<1>5. QED
  BY <1>3, <1>4 DEF NoticesInv

\* Jobs past the first that waits are waiting too.
LEMMA StartedInOrder ==
    ASSUME NoticesInv, NEW j \in 1..Len(nJobs), nState[j] # "waiting"
    PROVE  \A i \in 1..(j - 1) : nState[i] # "waiting"
<1>1. Len(nJobs) \in Nat
  BY DEF NoticesInv, NoticeShapes
<1>2. QED
  BY <1>1 DEF NoticesInv, FailuresLead

LEMMA EnterNotices ==
    ASSUME NoticesInv, NEW j \in 1..Len(nJobs), Notices!Enter(j) PROVE NoticesInv'
<1>1. /\ Notices!Running /\ nState[j] = "waiting" /\ \A i \in 1..(j - 1) : nState[i] # "waiting"
      /\ Cardinality(Notices!Active) < Concurrency
      /\ nDue' = [nDue EXCEPT ![j] = nNow + SendTimeout]
      /\ UNCHANGED <<nBatch, nNow, nJobs, nUnsent, nPermits>>
  BY NoticeCardinality DEF Notices!Enter, Notices!Room
<1>2. PICK s \in {"gate", "post"} :
        /\ nState' = [nState EXCEPT ![j] = s]
        /\ nBatch = "notices" <=> s = "gate"
        /\ nRequests' = nRequests \/ nRequests' = [nRequests EXCEPT ![j] = @ + 1]
  BY DEF Notices!Enter, Notices!Go, Notices!SendTicket, Notices!Sent
<1>3. /\ Len(nJobs) \in Nat /\ Notices!Jobs = 1..Len(nJobs) /\ Notices!Jobs' = 1..Len(nJobs)
      /\ nState \in [1..Len(nJobs) -> {"waiting", "gate", "post", "repost", "over"}]
      /\ nDue \in [1..Len(nJobs) -> Nat] /\ nRequests \in [1..Len(nJobs) -> Nat] /\ nNow \in Nat
      /\ NoticeShapes
  BY <1>1, JobsFinite DEF NoticesInv, NoticeShapes, Notices!Jobs
<1>4. nDue' \in [1..Len(nJobs) -> Nat] /\ nRequests' \in [1..Len(nJobs) -> Nat]
      /\ \A i \in 1..Len(nJobs) : i # j => nRequests'[i] = nRequests[i]
  BY <1>1, <1>2, <1>3, NoticeConstants
<1>5. nState'[j] = s /\ \A i \in 1..Len(nJobs) : i # j => nState'[i] = nState[i]
  BY <1>2, <1>3
<1>6. Notices!Active' = Notices!Active \union {j} /\ j \notin Notices!Active
  BY <1>1, <1>3, <1>5 DEF Notices!Active
<1>7. Notices!Holding' = Notices!Holding
  BY <1>1, <1>2, <1>3, <1>5 DEF Notices!Holding
<1>8. Cardinality(Notices!Active') = Cardinality(Notices!Active) + 1
  BY <1>3, <1>6, JobsFinite, FS_AddElement
<1>9. PermitsCounted'
  BY <1>1, <1>3, <1>7, <1>8, JobsFinite, NoticeConstants DEF NoticesInv, PermitsCounted
<1>10. QED
  BY <1>1, <1>2, <1>4, <1>9, JobMoves

LEMMA AcquireNotices ==
    ASSUME NoticesInv, NEW j \in 1..Len(nJobs), Notices!Acquire(j) PROVE NoticesInv'
<1>1. /\ Notices!Running /\ nState[j] = "gate"
      /\ nPermits' = nPermits - 1
      /\ nState' = [nState EXCEPT ![j] = "post"] /\ nRequests' = [nRequests EXCEPT ![j] = @ + 1]
      /\ UNCHANGED <<nBatch, nNow, nJobs, nUnsent, nDue>>
  BY DEF Notices!Acquire, Notices!Go, Notices!Sent
<1>2. nBatch = "notices"
  BY <1>1 DEF NoticesInv, NoticeShapes, Notices!Running
<1>3. /\ Len(nJobs) \in Nat /\ Notices!Jobs = 1..Len(nJobs) /\ Notices!Jobs' = 1..Len(nJobs)
      /\ nState \in [1..Len(nJobs) -> {"waiting", "gate", "post", "repost", "over"}]
      /\ nDue \in [1..Len(nJobs) -> Nat] /\ nRequests \in [1..Len(nJobs) -> Nat]
      /\ NoticeShapes
  BY <1>1, JobsFinite DEF NoticesInv, NoticeShapes, Notices!Jobs
<1>4. nDue' \in [1..Len(nJobs) -> Nat] /\ nRequests' \in [1..Len(nJobs) -> Nat]
      /\ \A i \in 1..Len(nJobs) : i # j => nRequests'[i] = nRequests[i]
  BY <1>1, <1>3
<1>5. nState'[j] = "post" /\ \A i \in 1..Len(nJobs) : i # j => nState'[i] = nState[i]
  BY <1>1, <1>3
<1>6. Notices!Active' = Notices!Active
  BY <1>1, <1>3, <1>5 DEF Notices!Active
<1>7. Notices!Holding' = Notices!Holding \union {j} /\ j \notin Notices!Holding
  BY <1>1, <1>2, <1>3, <1>5 DEF Notices!Holding
<1>8. Cardinality(Notices!Holding') = Cardinality(Notices!Holding) + 1
  BY <1>3, <1>7, JobsFinite, FS_AddElement
<1>9. PermitsCounted'
  BY <1>1, <1>3, <1>6, <1>8, JobsFinite, NoticeConstants DEF NoticesInv, PermitsCounted
<1>10. \A i \in 1..(j - 1) : nState[i] # "waiting"
  BY <1>1, StartedInOrder
<1>11. QED
  BY <1>1, <1>4, <1>9, <1>10, JobMoves

LEMMA RefusedNotices ==
    ASSUME NoticesInv, NEW j \in 1..Len(nJobs), Notices!Refused(j) PROVE NoticesInv'
<1>1. /\ Notices!Running /\ nState[j] = "post"
      /\ nState' = [nState EXCEPT ![j] = "repost"] /\ nRequests' = [nRequests EXCEPT ![j] = @ + 1]
      /\ UNCHANGED <<nBatch, nNow, nJobs, nUnsent, nDue, nPermits>>
  BY DEF Notices!Refused, Notices!Go, Notices!Sent
<1>2. /\ Len(nJobs) \in Nat /\ Notices!Jobs = 1..Len(nJobs) /\ Notices!Jobs' = 1..Len(nJobs)
      /\ nState \in [1..Len(nJobs) -> {"waiting", "gate", "post", "repost", "over"}]
      /\ nDue \in [1..Len(nJobs) -> Nat] /\ nRequests \in [1..Len(nJobs) -> Nat]
  BY <1>1, JobsFinite DEF NoticesInv, NoticeShapes, Notices!Jobs
<1>3. nDue' \in [1..Len(nJobs) -> Nat] /\ nRequests' \in [1..Len(nJobs) -> Nat]
      /\ \A i \in 1..Len(nJobs) : i # j => nRequests'[i] = nRequests[i]
  BY <1>1, <1>2
<1>4. nState'[j] = "repost" /\ \A i \in 1..Len(nJobs) : i # j => nState'[i] = nState[i]
  BY <1>1, <1>2
<1>5. Notices!Active' = Notices!Active /\ Notices!Holding' = Notices!Holding
  BY <1>1, <1>2, <1>4 DEF Notices!Active, Notices!Holding
<1>6. PermitsCounted'
  BY <1>1, <1>5 DEF NoticesInv, PermitsCounted
<1>7. \A i \in 1..(j - 1) : nState[i] # "waiting"
  BY <1>1, StartedInOrder
<1>8. QED
  BY <1>1, <1>3, <1>6, <1>7, JobMoves

\* However a job ends, its permit goes back once if it holds one.
LEMMA OverNotices ==
    ASSUME NoticesInv, NEW j \in 1..Len(nJobs), Notices!Running, nState[j] # "waiting",
           nState' = [nState EXCEPT ![j] = "over"],
           nPermits' = nPermits + Notices!Released({j}),
           UNCHANGED <<nBatch, nNow, nJobs, nUnsent, nDue, nRequests>>
    PROVE  NoticesInv'
<1>1. /\ Len(nJobs) \in Nat /\ Notices!Jobs = 1..Len(nJobs) /\ Notices!Jobs' = 1..Len(nJobs)
      /\ nState \in [1..Len(nJobs) -> {"waiting", "gate", "post", "repost", "over"}]
      /\ nDue \in [1..Len(nJobs) -> Nat] /\ nRequests \in [1..Len(nJobs) -> Nat]
      /\ NoticeShapes
  BY JobsFinite DEF NoticesInv, NoticeShapes, Notices!Jobs
<1>2. nState'[j] = "over" /\ \A i \in 1..Len(nJobs) : i # j => nState'[i] = nState[i]
  BY <1>1
<1>3. Notices!Active' \subseteq Notices!Active
  BY <1>1, <1>2 DEF Notices!Active
<1>4. /\ Cardinality(Notices!Active') <= Cardinality(Notices!Active)
      /\ Cardinality(Notices!Active') \in Nat
  BY <1>1, <1>3, JobsFinite, FS_Subset, FS_CardinalityType
<1>5. Notices!Holding' = Notices!Holding \ {j}
  BY <1>1, <1>2 DEF Notices!Holding
<1>6. nPermits' + Cardinality(Notices!Holding') = GateCapacity /\ nPermits' \in Int
  <2>0. /\ nPermits \in Int /\ Cardinality(Notices!Holding) \in Nat
        /\ nPermits + Cardinality(Notices!Holding) = GateCapacity
    BY <1>1, JobsFinite DEF NoticesInv, PermitsCounted
  <2>1. nPermits' = nPermits + Cardinality({j} \intersect Notices!Holding)
    BY NoticeCardinality DEF Notices!Released
  <2>2. CASE j \in Notices!Holding
    <3>1. {j} \intersect Notices!Holding = {j}
      BY <2>2
    <3>2. Cardinality({j}) = 1
      BY FS_Singleton
    <3>3. Cardinality(Notices!Holding \ {j}) = Cardinality(Notices!Holding) - 1
      BY <1>1, <2>2, JobsFinite, FS_RemoveElement
    <3>4. /\ Cardinality({j} \intersect Notices!Holding) = 1
          /\ Cardinality(Notices!Holding') = Cardinality(Notices!Holding) - 1
      BY <1>5, <3>1, <3>2, <3>3, Zenon
    <3>5. QED
      BY <2>0, <2>1, <3>4
  <2>3. CASE j \notin Notices!Holding
    <3>1. {j} \intersect Notices!Holding = {} /\ Notices!Holding \ {j} = Notices!Holding
      BY <2>3
    <3>2. Cardinality({}) = 0
      BY FS_EmptySet
    <3>3. /\ Cardinality({j} \intersect Notices!Holding) = 0
          /\ Cardinality(Notices!Holding') = Cardinality(Notices!Holding)
      BY <1>5, <3>1, <3>2, Zenon
    <3>4. QED
      BY <2>0, <2>1, <3>3
  <2>4. QED
    BY <2>2, <2>3
<1>7. PermitsCounted'
  BY <1>1, <1>4, <1>6, JobsFinite, NoticeConstants DEF NoticesInv, PermitsCounted
<1>8. \A i \in 1..(j - 1) : nState[i] # "waiting"
  BY StartedInOrder
<1>9. QED
  BY <1>1, <1>7, <1>8, JobMoves

LEMMA EndsNotices == ASSUME NoticesInv, Notices!BatchEnds PROVE NoticesInv'
<1>1. /\ Notices!Running /\ nState' = [j \in Notices!Jobs |-> "over"]
      /\ nPermits' = nPermits + Cardinality(Notices!Jobs \intersect Notices!Holding)
      /\ nBatch' \in {"between", "done"}
      /\ UNCHANGED <<nNow, nJobs, nUnsent, nDue, nRequests>>
  BY NoticeCardinality DEF Notices!BatchEnds, Notices!Released, Notices!NextBatch
<1>2. NoticeShapes /\ Notices!Jobs = 1..Len(nJobs) /\ Notices!Jobs' = 1..Len(nJobs)
  BY <1>1, JobsFinite DEF NoticesInv, Notices!Jobs
<1>3. Notices!Jobs \intersect Notices!Holding = Notices!Holding
  BY DEF Notices!Holding
<1>4. Notices!Active' = {} /\ Notices!Holding' = {}
  BY <1>1, <1>2 DEF Notices!Active, Notices!Holding
<1>5. PermitsCounted'
  <2>1. /\ nPermits \in Int /\ Cardinality(Notices!Holding) \in Nat
        /\ nPermits + Cardinality(Notices!Holding) = GateCapacity
    BY <1>2, JobsFinite DEF NoticesInv, PermitsCounted
  <2>2. nPermits' = nPermits + Cardinality(Notices!Holding) /\ Cardinality({}) = 0
    BY <1>1, <1>3, FS_EmptySet
  <2>3. QED
    BY <1>4, <2>1, <2>2, NoticeConstants DEF PermitsCounted
<1>6. NoticeShapes' /\ FailuresLead'
  BY <1>1, <1>2 DEF NoticesInv, NoticeShapes, FailuresLead, Notices!Running
<1>7. QED
  BY <1>5, <1>6 DEF NoticesInv

LEMMA TickNotices == ASSUME NoticesInv, Notices!Tick PROVE NoticesInv'
<1>1. /\ Notices!Running /\ nNow' = nNow + 1 /\ ~(BatchDeadline <= nNow)
      /\ UNCHANGED <<nBatch, nJobs, nUnsent, nState, nDue, nPermits, nRequests>>
  BY DEF Notices!Tick, Notices!BatchDue
<1>2. NoticeShapes'
  BY <1>1, NoticeConstants DEF NoticesInv, NoticeShapes, Notices!Running
<1>3. PermitsCounted' /\ FailuresLead'
  BY <1>1
  DEF NoticesInv, PermitsCounted, FailuresLead, Notices!Active, Notices!Holding, Notices!Jobs
<1>4. QED
  BY <1>2, <1>3 DEF NoticesInv

LEMMA NextNotices == NoticesInv /\ [Next]_vars => NoticesInv'
<1> SUFFICES ASSUME NoticesInv, [Notices!Next]_noticeVars PROVE NoticesInv'
  BY NoticesMove
<1>1. CASE UNCHANGED noticeVars
  BY <1>1 DEF noticeVars, NoticesInv, NoticeShapes, PermitsCounted, FailuresLead,
     Notices!Active, Notices!Holding, Notices!Jobs, Notices!Running
<1>2. Notices!Jobs = 1..Len(nJobs)
  BY JobsFinite DEF NoticesInv
<1>3. ASSUME NEW j \in 1..Len(nJobs), Notices!Over(j) \/ Notices!JobTimesOut(j) PROVE NoticesInv'
  <2>1. /\ Notices!Running /\ nState[j] # "waiting" /\ nState' = [nState EXCEPT ![j] = "over"]
        /\ nPermits' = nPermits + Notices!Released({j})
        /\ UNCHANGED <<nBatch, nNow, nJobs, nUnsent, nDue, nRequests>>
    BY <1>3 DEF Notices!Over, Notices!JobTimesOut, Notices!JobDue, Notices!Active, Notices!Go
  <2>2. QED
    BY <2>1, OverNotices
<1>4. CASE Notices!Next
  BY <1>2, <1>3, <1>4, NotifyNotices, TracesNotices, EnterNotices, AcquireNotices, RefusedNotices,
     EndsNotices, TickNotices DEF Notices!Next
<1>5. QED
  BY <1>1, <1>4

\* However the notices end, for any number of miners and permits, no permit of the send
\* gate is lost or returned twice, the validator is not held up beyond the batch's
\* deadline, and passes are what goes unsent (send_failure_notices, send_trace_checks).
THEOREM NoticesAreBounded == Spec => []NoticesBounded
<1>1. NoticesInv => NoticesBounded
  <2> SUFFICES ASSUME NoticesInv PROVE Notices!NoticesBounded
    BY DEF NoticesBounded
  <2>1. Notices!Jobs = 1..Len(nJobs) /\ Len(nJobs) \in Nat
    BY JobsFinite DEF NoticesInv
  <2>2. Notices!TypeOK
    BY <2>1, NoticeCardinality DEF NoticesInv, NoticeShapes, PermitsCounted, Notices!TypeOK
  <2>3. Notices!PermitsReturned
    <3>1. ~Notices!Running => Notices!Holding = {}
      BY DEF Notices!Running, Notices!Holding
    <3>2. Cardinality({}) = 0
      BY FS_EmptySet
    <3>3. QED
      BY <3>1, <3>2, NoticeCardinality DEF NoticesInv, PermitsCounted, Notices!PermitsReturned
  <2>4. Notices!InTime
    BY DEF NoticesInv, NoticeShapes, Notices!InTime
  <2>5. Notices!PassesGoUnsent
    <3> SUFFICES ASSUME nBatch = "notices", NEW p \in 1..Len(nJobs), nJobs[p].passed
                 PROVE  /\ \A i \in DOMAIN nUnsent : nUnsent[i].passed
                        /\ nRequests[p] > 0 =>
                             \A f \in 1..Len(nJobs) : ~nJobs[f].passed => nState[f] # "waiting"
      BY <2>1 DEF Notices!PassesGoUnsent
    <3>1. \A i \in DOMAIN nUnsent : nUnsent[i].passed
      BY DEF NoticesInv, FailuresLead
    <3>2. ASSUME nRequests[p] > 0, NEW f \in 1..Len(nJobs), ~nJobs[f].passed
          PROVE  nState[f] # "waiting"
      <4>1. nState[p] # "waiting"
        BY <3>2 DEF NoticesInv, FailuresLead
      <4>2. f < p
        BY <2>1, <3>2 DEF NoticesInv, FailuresLead
      <4>3. QED
        BY <4>1, <4>2 DEF NoticesInv, FailuresLead
    <3>3. QED
      BY <3>1, <3>2
  <2>6. QED
    BY <2>2, <2>3, <2>4, <2>5 DEF Notices!NoticesBounded
<1>2. QED
  BY <1>1, InitNotices, NextNotices, PTL DEF Spec
-----------------------------------------------------------------------------
(***************************************************************************)
(* What Where picks out of a sequence.                                     *)
(***************************************************************************)
LEMMA PlacesCounted ==
    ASSUME NEW s, NEW S, NEW n \in Nat, DOMAIN s = 1..n
    PROVE  /\ IsFiniteSet(Places(s, S)) /\ Cardinality(Places(s, S)) \in Nat
           /\ Cardinality(Places(s, S)) <= n
<1>1. IsFiniteSet(1..n) /\ Cardinality(1..n) = n
  BY FS_Interval
<1>2. Places(s, S) \subseteq 1..n
  BY DEF Places
<1> QED
  BY <1>1, <1>2, FS_Subset, FS_CardinalityType

LEMMA RanksGrow ==
    ASSUME NEW s, NEW S, NEW n \in Nat, DOMAIN s = 1..n,
           NEW i \in Places(s, S), NEW j \in Places(s, S)
    PROVE  /\ Rank(s, S, i) \in 1..Cardinality(Places(s, S))
           /\ i < j => Rank(s, S, i) < Rank(s, S, j)
<1> DEFINE P == Places(s, S)
           Upto(k) == {l \in P : l <= k}
<1>0. IsFiniteSet(P)
  BY PlacesCounted
<1>1. IsFiniteSet(P) /\ i \in Nat /\ j \in Nat
  BY <1>0 DEF Places
<1>2. \A k \in P : Rank(s, S, k) = Cardinality(Upto(k))
  BY DEF Rank
<1>3. IsFiniteSet(Upto(i)) /\ Cardinality(Upto(i)) \in Nat /\ Cardinality(Upto(i)) <= Cardinality(P)
  BY <1>1, FS_Subset, FS_CardinalityType
<1>4. Upto(i) # {}
  BY <1>1
<1>5. Cardinality(Upto(i)) # 0
  <2> HIDE DEF Upto
  <2> QED BY <1>3, <1>4, FS_EmptySet
<1>6. ASSUME i < j PROVE Cardinality(Upto(i)) < Cardinality(Upto(j))
  <2>1. Upto(i) \subseteq Upto(j) /\ j \in Upto(j) /\ j \notin Upto(i)
    BY <1>1, <1>6 DEF Places
  <2>2. IsFiniteSet(Upto(j)) /\ Cardinality(Upto(j)) \in Nat
    BY <1>1, FS_Subset, FS_CardinalityType
  <2> HIDE DEF Upto
  <2> QED BY <2>1, <2>2, <1>3, FS_Subset
<1>7. Cardinality(P) \in Nat
  BY <1>1, FS_CardinalityType
<1> HIDE DEF Upto
<1> QED
  BY <1>2, <1>3, <1>5, <1>6, <1>7

\* Every rank is taken, since no two places have the same.
LEMMA RanksMet ==
    ASSUME NEW s, NEW S, NEW n \in Nat, DOMAIN s = 1..n,
           NEW k \in 1..Cardinality(Places(s, S))
    PROVE  \E i \in Places(s, S) : Rank(s, S, i) = k
<1> DEFINE P == Places(s, S)
           m == Cardinality(P)
           f == [i \in P |-> Rank(s, S, i)]
           R == {Rank(s, S, i) : i \in P}
<1>1. IsFiniteSet(P) /\ m \in Nat
  BY PlacesCounted
<1>2. R \subseteq 1..m
  BY RanksGrow
<1>3. \A i, j \in P : f[i] = f[j] => i = j
  <2> SUFFICES ASSUME NEW i \in P, NEW j \in P, f[i] = f[j] PROVE i = j
    OBVIOUS
  <2>1. i \in Nat /\ j \in Nat
    BY DEF Places
  <2>2. Rank(s, S, i) \in Nat /\ Rank(s, S, j) \in Nat
    BY RanksGrow, <1>1
  <2>3. ~(i < j) /\ ~(j < i)
    BY RanksGrow, <2>2
  <2> QED BY <2>1, <2>3
<1>4. f \in Bijection(P, R)
  BY <1>3 DEF Bijection, Injection, Surjection, IsInjective
<1>5. IsFiniteSet(R) /\ Cardinality(R) = m
  <2> HIDE DEF f, R, P
  <2> QED BY <1>1, <1>4, FS_Bijection DEF ExistsBijection, m
<1>6. IsFiniteSet(1..m) /\ Cardinality(1..m) = m
  BY <1>1, FS_Interval
<1>7. R = 1..m
  <2> HIDE DEF R, P, m
  <2> QED BY <1>1, <1>2, <1>5, <1>6, FS_Subset
<1> QED
  BY <1>7

\* o is the list of the m places that Where(s, S) picks out of s, in their order.
Picks(s, S, n, m, o) ==
    /\ m \in 0..n /\ o \in [1..m -> 1..n]
    /\ Where(s, S) = [k \in 1..m |-> s[o[k]]]
    /\ \A k, l \in 1..m : k < l => o[k] < o[l]
    /\ \A i \in 1..n : s[i] \in S <=> \E k \in 1..m : o[k] = i

LEMMA WherePicks ==
    ASSUME NEW s, NEW S, NEW n \in Nat, DOMAIN s = 1..n
    PROVE  \E m, o : Picks(s, S, n, m, o)
<1> DEFINE P == Places(s, S)
           m == Cardinality(P)
           o == [k \in 1..m |-> Place(s, S, k)]
<1>1. m \in 0..n
  BY PlacesCounted
<1>2. \A k \in 1..m : o[k] \in P /\ Rank(s, S, o[k]) = k
  BY RanksMet DEF Place
<1>3. P \subseteq 1..n /\ \A i \in 1..n : i \in P <=> s[i] \in S
  BY DEF Places
<1>4. Where(s, S) = [k \in 1..m |-> s[o[k]]]
  BY DEF Where
<1>5. o \in [1..m -> 1..n]
  BY <1>2, <1>3
<1>6. \A k, l \in 1..m : k < l => o[k] < o[l]
  <2> SUFFICES ASSUME NEW k \in 1..m, NEW l \in 1..m, k < l PROVE o[k] < o[l]
    OBVIOUS
  <2> HIDE DEF o, m
  <2>1. o[k] \in P /\ o[l] \in P /\ Rank(s, S, o[k]) = k /\ Rank(s, S, o[l]) = l
    BY <1>2
  <2>2. o[k] \in Nat /\ o[l] \in Nat /\ k \in Nat /\ l \in Nat
    BY <1>3, <1>1, <2>1
  <2>3. o[k] # o[l] /\ ~(o[l] < o[k])
    BY <2>1, <2>2, RanksGrow
  <2> QED BY <2>2, <2>3
<1>7. \A i \in P : \E k \in 1..m : o[k] = i
  <2> SUFFICES ASSUME NEW i \in P PROVE o[Rank(s, S, i)] = i /\ Rank(s, S, i) \in 1..m
    OBVIOUS
  <2>1. Rank(s, S, i) \in 1..m
    BY RanksGrow
  <2> DEFINE j == o[Rank(s, S, i)]
  <2>2. j \in P /\ Rank(s, S, j) = Rank(s, S, i)
    BY <1>2, <2>1
  <2>3. i \in Nat /\ j \in Nat /\ Rank(s, S, i) \in Nat
    BY <1>1, <1>3, <2>1, <2>2
  <2> HIDE DEF o, m, j
  <2>4. ~(i < j) /\ ~(j < i)
    BY <2>2, <2>3, RanksGrow
  <2>5. i = j
    BY <2>3, <2>4
  <2> QED BY <2>1, <2>5 DEF j
<1> HIDE DEF o, m, P
<1>8. \A i \in 1..n : s[i] \in S <=> \E k \in 1..m : o[k] = i
  BY <1>2, <1>3, <1>7
<1>9. Picks(s, S, n, m, o)
  BY <1>1, <1>4, <1>5, <1>6, <1>8 DEF Picks
<1> QED
  BY <1>9
-----------------------------------------------------------------------------
(***************************************************************************)
(* The order of offers: next_offer, as a list of those who are eligible.   *)
(***************************************************************************)
LEMMA OfferConstants == Limit \in Nat \ {0} /\ IsFiniteSet(Registered) /\ MaxChanges \in Nat
  BY PartsAssumption DEF PartsAssumption, Offers!OfferAssumption, Offers!IsFiniteSet, IsFiniteSet

LEMMA OfferWhere == \A s, S : Offers!Where(s, S) = Where(s, S)
<1>1. \A S : Offers!Cardinality(S) = Cardinality(S)
  BY DEF Offers!Cardinality, Cardinality
<1>2. \A s, S : Offers!Places(s, S) = Places(s, S)
  BY DEF Offers!Places, Places
<1>3. \A s, S, i : Offers!Rank(s, S, i) = Rank(s, S, i)
  BY <1>1, <1>2 DEF Offers!Rank, Rank
<1> SUFFICES ASSUME NEW s, NEW S PROVE Offers!Where(s, S) = Where(s, S)
  OBVIOUS
<1>4. \A k : Offers!Place(s, S, k) = Place(s, S, k)
  BY <1>2, <1>3 DEF Offers!Place, Place
<1>5. QED
  BY <1>1, <1>2, <1>4 DEF Offers!Where, Where

LEMMA OfferSeqs ==
    ASSUME NEW S, IsFiniteSet(S), NEW f \in Offers!SetToSeqs(S)
    PROVE  /\ Cardinality(S) \in Nat /\ f \in [1..Cardinality(S) -> S]
           /\ \A i, j \in 1..Cardinality(S) : f[i] = f[j] => i = j
           /\ \A x \in S : \E i \in 1..Cardinality(S) : f[i] = x
<1>1. Offers!Cardinality(S) = Cardinality(S)
  BY DEF Offers!Cardinality, Cardinality
<1> DEFINE c == Cardinality(S)
<1>2. c \in Nat
  BY FS_CardinalityType
<1>3. f \in [1..c -> S] /\ \A i, j \in 1..c : f[i] = f[j] => i = j
  BY <1>1 DEF Offers!SetToSeqs
<1>4. f \in Injection(1..c, S)
  BY <1>3 DEF Injection, IsInjective
<1>5. Cardinality(1..c) = c
  BY <1>2, FS_Interval
<1>6. f \in Surjection(1..c, S)
  <2> HIDE DEF c
  <2> QED BY <1>4, <1>5, FS_Injection DEF c
<1>7. QED
  BY <1>2, <1>3, <1>6 DEF Surjection

LEMMA LeastNatural ==
    ASSUME NEW T, T \subseteq Nat, T # {}
    PROVE  \E x \in T : \A y \in T : x <= y
<1>1. PICK x \in T : \A y \in T : ~(<<y, x>> \in OpToRel(<, Nat))
  BY WFMin, NatLessThanWellFounded
<1>2. \A y \in T : x <= y
  <2> SUFFICES ASSUME NEW y \in T, y < x PROVE FALSE
    OBVIOUS
  <2>1. <<y, x>> \in Nat \X Nat /\ <<y, x>>[1] = y /\ <<y, x>>[2] = x
    OBVIOUS
  <2>2. <<y, x>> \in {ss \in Nat \X Nat : ss[1] < ss[2]}
    BY <2>1
  <2>3. <<y, x>> \in OpToRel(<, Nat)
    BY <2>2 DEF OpToRel
  <2>4. QED
    BY <1>1, <2>3
<1>3. QED
  BY <1>2

\* A strictly growing function of 1..m onto 1..m is the identity.
LEMMA GrowingOnto ==
    ASSUME NEW m \in Nat, NEW o \in [1..m -> 1..m],
           \A k, l \in 1..m : k < l => o[k] < o[l],
           \A i \in 1..m : \E k \in 1..m : o[k] = i
    PROVE  \A k \in 1..m : o[k] = k
<1> SUFFICES ASSUME NEW k \in 1..m, o[k] # k PROVE FALSE
  OBVIOUS
<1> DEFINE Bad == {l \in 1..m : o[l] # l}
<1>1. PICK b \in Bad : \A l \in Bad : b <= l
  <2>1. k \in Bad /\ Bad \subseteq Nat
    OBVIOUS
  <2> HIDE DEF Bad
  <2> QED BY <2>1, LeastNatural
<1>2. b \in 1..m /\ o[b] # b /\ \A l \in 1..m : l < b => o[l] = l
  BY <1>1
<1>3. PICK c \in 1..m : o[c] = b
  BY <1>2
<1>4. c > b
  <2>1. c # b /\ c \in Nat /\ b \in Nat
    BY <1>2, <1>3
  <2>2. ~(c < b)
    BY <1>2, <1>3
  <2> QED BY <2>1, <2>2
<1>5. o[b] < b
  BY <1>2, <1>3, <1>4
<1>6. o[b] \in 1..m /\ o[o[b]] = o[b]
  BY <1>2, <1>5
<1>7. QED
  BY <1>2, <1>5, <1>6

LEMMA IntervalCounted == \A n \in Nat : Cardinality(1..n) = n
  BY FS_Interval

LEMMA Joined ==
    ASSUME NEW E, NEW v \in Seq(E), NEW g \in Seq(E)
    PROVE  v \o g \in Seq(E) /\ Len(v \o g) = Len(v) + Len(g)
  OBVIOUS

LEMMA FirstOf ==
    ASSUME NEW E, NEW n \in Nat, NEW a \in [1..n -> E], NEW L \in Nat, L <= n
    PROVE  /\ SubSeq(a, 1, L) \in [1..L -> E] /\ Len(SubSeq(a, 1, L)) = L
           /\ \A i \in 1..L : SubSeq(a, 1, L)[i] = a[i]
<1>1. a \in Seq(E) /\ Len(a) = n
  OBVIOUS
<1>2. Len(SubSeq(a, 1, L)) = L /\ \A i \in 1..L : SubSeq(a, 1, L)[i] = a[i]
  BY <1>1
<1>3. SubSeq(a, 1, L) \in Seq(E)
  BY <1>1
<1>4. SubSeq(a, 1, L) \in [1..L -> E]
  <2> DEFINE s == SubSeq(a, 1, L)
  <2>1. s \in Seq(E) /\ Len(s) = L
    BY <1>2, <1>3
  <2> HIDE DEF s
  <2>2. s \in [1..L -> E]
    BY <2>1
  <2> QED BY <2>2 DEF s
<1>5. QED
  BY <1>2, <1>4

LEMMA InjectiveLength ==
    ASSUME NEW L \in Nat, NEW S, NEW f \in [1..L -> S],
           \A i, j \in 1..L : f[i] = f[j] => i = j,
           \A x \in S : \E i \in 1..L : f[i] = x
    PROVE  IsFiniteSet(S) /\ Cardinality(S) = L
<1>1. f \in Bijection(1..L, S)
  BY DEF Bijection, Injection, Surjection, IsInjective
<1>2. IsFiniteSet(1..L) /\ Cardinality(1..L) = L
  BY FS_Interval
<1>3. QED
  BY <1>1, <1>2, FS_Bijection DEF ExistsBijection

Least(a, b) == IF a < b THEN a ELSE b

\* next_offer before the cut: all who are eligible, once each, first those offered
\* before, in their old order.
Lineup(p, n, E, all, m) ==
    /\ all \in [1..Cardinality(E) -> E] /\ m \in 0..Cardinality(E)
    /\ \A i, j \in 1..Cardinality(E) : all[i] = all[j] => i = j
    /\ \A i \in 1..Cardinality(E) : i <= m <=> \E a \in 1..n : p[a] = all[i]
    /\ \A i, j \in 1..m : \A a, b \in 1..n : i < j /\ all[i] = p[a] /\ all[j] = p[b] => a < b
    /\ (\A a \in 1..n : p[a] \in E) => m = n /\ \A i \in 1..n : all[i] = p[i]

LEMMA OfferLineup ==
    ASSUME NEW n \in Nat, NEW p, DOMAIN p = 1..n, \A a, b \in 1..n : p[a] = p[b] => a = b,
           NEW E, IsFiniteSet(E), NEW q \in Offers!NextOffer(p, E)
    PROVE  \E all : \E m : /\ Lineup(p, n, E, all, m)
                           /\ q = SubSeq(all, 1, Least(Cardinality(E), Limit))
<1>1. PICK m, o : Picks(p, E, n, m, o)
  BY WherePicks
<1> DEFINE w == Where(p, E)
           R == {w[i] : i \in DOMAIN w}
           D == E \ R
           c == Cardinality(D)
<1>2. /\ m \in 0..n /\ o \in [1..m -> 1..n]
      /\ w = [k \in 1..m |-> p[o[k]]]
      /\ \A k, l \in 1..m : k < l => o[k] < o[l]
      /\ \A i \in 1..n : p[i] \in E <=> \E k \in 1..m : o[k] = i
  BY <1>1 DEF Picks
<1>3. PICK f \in Offers!SetToSeqs(D) : q = Offers!Cut(w \o f)
  <2>1. Offers!Where(p, E) = w
    BY OfferWhere
  <2>2. Offers!Range(w) = R
    BY DEF Offers!Range
  <2> HIDE DEF w, R
  <2> QED BY <2>1, <2>2 DEF Offers!NextOffer
<1>4. IsFiniteSet(D)
  BY FS_Subset
<1>5. /\ c \in Nat /\ f \in [1..c -> E \ R]
      /\ \A i, j \in 1..c : f[i] = f[j] => i = j
      /\ \A x \in E \ R : \E i \in 1..c : f[i] = x
  <2> HIDE DEF D
  <2>1. /\ c \in Nat /\ f \in [1..c -> D]
        /\ \A i, j \in 1..c : f[i] = f[j] => i = j
        /\ \A x \in D : \E i \in 1..c : f[i] = x
    BY <1>3, <1>4, OfferSeqs
  <2> QED BY <2>1 DEF D
<1> HIDE DEF w, c
<1>6. w \in [1..m -> E] /\ R = {p[o[k]] : k \in 1..m}
  <2>1. \A k \in 1..m : o[k] \in 1..n /\ p[o[k]] \in E /\ w[k] = p[o[k]]
    BY <1>2
  <2>2. DOMAIN w = 1..m
    BY <1>2
  <2>3. w \in [1..m -> E]
    BY <1>2, <2>1
  <2>4. QED
    BY <2>1, <2>2, <2>3
<1>7. \A i, j \in 1..m : w[i] = w[j] => i = j
  <2> SUFFICES ASSUME NEW i \in 1..m, NEW j \in 1..m, w[i] = w[j] PROVE i = j
    OBVIOUS
  <2>1. o[i] = o[j]
    BY <1>2
  <2>2. ~(i < j) /\ ~(j < i)
    BY <1>2, <2>1
  <2> QED BY <2>2
<1> DEFINE all == w \o f
           L == m + c
<1>8. /\ w \in Seq(E) /\ Len(w) = m /\ f \in Seq(E) /\ Len(f) = c /\ L \in Nat
      /\ all \in Seq(E) /\ Len(all) = L /\ all \in [1..L -> E]
      /\ \A i \in 1..m : all[i] = w[i]
      /\ \A i \in 1..L : i > m => i - m \in 1..c /\ all[i] = f[i - m]
  <2>1. w \in Seq(E) /\ Len(w) = m
    BY <1>2, <1>6
  <2>2. f \in Seq(E) /\ Len(f) = c
    BY <1>5
  <2>3. L \in Nat
    BY <1>2, <1>5
  <2>4. all \in Seq(E) /\ Len(all) = L
    BY <2>1, <2>2, Joined
  <2>5. \A i \in 1..m : all[i] = w[i]
    BY <2>1, <2>2, <1>5
  <2>6. \A i \in 1..L : i > m => i - m \in 1..c /\ all[i] = f[i - m]
    BY <2>1, <2>2, <1>5
  <2>7. all \in [1..L -> E]
    <3> HIDE DEF all, L
    <3> QED BY <2>3, <2>4
  <2>8. QED
    BY <2>1, <2>2, <2>3, <2>4, <2>5, <2>6, <2>7
<1>9. \A i \in 1..m : all[i] \in R
  BY <1>8, <1>6, <1>2
<1>10. \A i \in 1..L : i > m => all[i] \notin R
  BY <1>8, <1>5
<1> HIDE DEF all, L
<1>11. \A i, j \in 1..L : all[i] = all[j] => i = j
  <2> SUFFICES ASSUME NEW i \in 1..L, NEW j \in 1..L, all[i] = all[j] PROVE i = j
    OBVIOUS
  <2>1. CASE i <= m
    <3>1. i \in 1..m /\ j \in 1..m
      BY <1>8, <1>9, <1>10, <2>1
    <3> QED BY <3>1, <1>7, <1>8
  <2>2. CASE i > m
    <3>1. j > m
      BY <1>8, <1>9, <1>10, <2>2
    <3>2. f[i - m] = f[j - m] /\ i - m \in 1..c /\ j - m \in 1..c
      BY <1>8, <2>2, <3>1
    <3>3. i - m = j - m
      BY <1>5, <3>2
    <3> QED BY <1>8, <3>3
  <2> QED BY <2>1, <2>2, <1>8
<1>12. \A x \in E : \E i \in 1..L : all[i] = x
  <2> SUFFICES ASSUME NEW x \in E PROVE \E i \in 1..L : all[i] = x
    OBVIOUS
  <2>1. CASE x \in R
    <3>1. PICK k \in 1..m : w[k] = x
      BY <2>1, <1>2, <1>6
    <3>2. k \in 1..L /\ all[k] = x
      BY <3>1, <1>8, <1>5 DEF L
    <3> QED BY <3>2
  <2>2. CASE x \notin R
    <3>1. PICK k \in 1..c : f[k] = x
      BY <2>2, <1>5
    <3>2. m + k \in 1..L /\ m + k > m /\ (m + k) - m = k
      BY <1>2, <1>5 DEF L
    <3>3. all[m + k] = x
      BY <3>1, <3>2, <1>8
    <3> QED BY <3>2, <3>3
  <2> QED BY <2>1, <2>2
<1>13. Cardinality(E) = L
  BY <1>8, <1>11, <1>12, InjectiveLength
<1>14. m \in 0..L /\ \A i \in 1..m : i \in 1..L
  BY <1>2, <1>5 DEF L
<1>15. \A i \in 1..L : i <= m <=> \E a \in 1..n : p[a] = all[i]
  <2> SUFFICES ASSUME NEW i \in 1..L PROVE i <= m <=> \E a \in 1..n : p[a] = all[i]
    OBVIOUS
  <2>1. CASE i <= m
    <3>1. i \in 1..m /\ o[i] \in 1..n /\ p[o[i]] = all[i]
      BY <2>1, <1>2, <1>8
    <3> QED BY <3>1, <2>1
  <2>2. ASSUME i > m, NEW a \in 1..n, p[a] = all[i] PROVE FALSE
    <3>1. p[a] \in E
      BY <1>8, <2>2
    <3>2. PICK k \in 1..m : o[k] = a
      BY <1>2, <3>1
    <3>3. all[i] \in R
      BY <1>6, <2>2, <3>2
    <3> QED BY <1>10, <2>2, <3>3
  <2> QED BY <2>1, <2>2, <1>8
<1>16. ASSUME NEW i \in 1..m, NEW j \in 1..m, NEW a \in 1..n, NEW b \in 1..n, i < j,
              all[i] = p[a], all[j] = p[b]
       PROVE  a < b
  <2>1. p[o[i]] = p[a] /\ p[o[j]] = p[b] /\ o[i] \in 1..n /\ o[j] \in 1..n
    BY <1>2, <1>8, <1>16
  <2>2. o[i] = a /\ o[j] = b
    BY <2>1
  <2> QED BY <1>2, <1>16, <2>2
<1>17. ASSUME \A a \in 1..n : p[a] \in E
       PROVE  m = n /\ \A i \in 1..n : all[i] = p[i]
  <2>1. \A i \in 1..n : \E k \in 1..m : o[k] = i
    BY <1>2, <1>17
  <2>2. o \in Injection(1..m, 1..n) /\ o \in Surjection(1..m, 1..n)
    <3>1. \A k, l \in 1..m : o[k] = o[l] => k = l
      <4> SUFFICES ASSUME NEW k \in 1..m, NEW l \in 1..m, o[k] = o[l] PROVE k = l
        OBVIOUS
      <4>1. ~(k < l) /\ ~(l < k)
        BY <1>2
      <4> QED BY <4>1
    <3> QED BY <1>2, <2>1, <3>1 DEF Injection, Surjection, IsInjective
  <2>3. m = n
    <3>1. \A k, l \in 1..m : o[k] = o[l] => k = l
      BY <2>2 DEF Injection, IsInjective
    <3>2. m \in Nat /\ o \in [1..m -> 1..n]
      BY <1>2
    <3>3. Cardinality(1..n) = m
      BY <3>1, <3>2, <2>1, InjectiveLength
    <3>4. Cardinality(1..n) = n
      BY IntervalCounted
    <3> QED BY <3>3, <3>4
  <2>4. \A k \in 1..m : o[k] = k
    <3>1. m \in Nat /\ o \in [1..m -> 1..m] /\ \A i \in 1..m : \E k \in 1..m : o[k] = i
      BY <1>2, <2>1, <2>3
    <3> QED BY <1>2, <3>1, GrowingOnto
  <2> QED BY <1>2, <1>8, <2>3, <2>4
<1>18. q = SubSeq(all, 1, Least(Cardinality(E), Limit))
  BY <1>3, <1>8, <1>13 DEF all, Offers!Cut, Least
<1>19. Lineup(p, n, E, all, m)
  BY <1>8, <1>11, <1>13, <1>14, <1>15, <1>16, <1>17 DEF Lineup
<1>20. QED
  BY <1>18, <1>19
-----------------------------------------------------------------------------
LEMMA OffersMove == [Next]_vars => [Offers!Next]_offerVars
  BY DEF Next, vars, Only

OfferShapes ==
    /\ oServing \in Offers!Registrations /\ oPermit \subseteq Offers!Uids
    /\ oTrust \in [Offers!Uids -> {"unknown", "zero", "positive"}]
    /\ oPhase \in {"idle", "round"} /\ oChanges \in 0..MaxChanges
    /\ oSeen \subseteq Registered /\ oEarned \in BOOLEAN

\* An order names each registration once, and at most Limit of them.
OrderIsList ==
    \E n \in 0..Limit : /\ oOrder \in [1..n -> Registered]
                        /\ \A i, j \in 1..n : oOrder[i] = oOrder[j] => i = j

\* While no draw is earned, the order kept is the last offer, and it names as many of
\* those who were eligible then as the limit allows.
KeptIsLast ==
    /\ oPhase = "round" => ~oEarned
    /\ ~oEarned => /\ oOrder = oLast
                   /\ Len(oLast) = Least(Cardinality(oSeen), Limit)
                   /\ \A i \in DOMAIN oLast : oLast[i] \in oSeen

OffersInv == OfferShapes /\ OrderIsList /\ KeptIsLast

LEMMA InitOffers == Init => OffersInv
<1> SUFFICES ASSUME Offers!Init PROVE OffersInv
  BY DEF Init
<1>1. OfferShapes /\ KeptIsLast
  BY OfferConstants DEF Offers!Init, OfferShapes, KeptIsLast
<1>2. oOrder \in [1..0 -> Registered] /\ 0 \in 0..Limit
  BY OfferConstants DEF Offers!Init
<1>3. QED
  BY <1>1, <1>2 DEF OffersInv, OrderIsList

LEMMA EligibleRegistered ==
    ASSUME OffersInv
    PROVE  Offers!EligibleMiners \subseteq Registered /\ IsFiniteSet(Offers!EligibleMiners)
<1>1. Offers!EligibleMiners \subseteq Registered
  BY DEF OffersInv, OfferShapes, Offers!EligibleMiners, Offers!Registrations
<1>2. QED
  BY <1>1, OfferConstants, FS_Subset

\* What an offer is: the first of a lineup of those who are eligible.
LEMMA OfferMade ==
    ASSUME OffersInv, Offers!Offer
    PROVE  LET E == Offers!EligibleMiners
               L == Least(Cardinality(E), Limit)
           IN  \E n, all, m :
                 /\ n \in 0..Limit /\ oOrder \in [1..n -> Registered]
                 /\ \A i, j \in 1..n : oOrder[i] = oOrder[j] => i = j
                 /\ Lineup(oOrder, n, E, all, m)
                 /\ Cardinality(E) \in Nat /\ L \in 0..Limit /\ L <= Cardinality(E)
                 /\ oOrder' = oLast' /\ oLast' \in [1..L -> E] /\ Len(oLast') = L
                 /\ \A i \in 1..L : oLast'[i] = all[i]
<1> DEFINE E == Offers!EligibleMiners
           L == Least(Cardinality(E), Limit)
<1>1. PICK n \in 0..Limit : /\ oOrder \in [1..n -> Registered]
                            /\ \A i, j \in 1..n : oOrder[i] = oOrder[j] => i = j
  BY DEF OffersInv, OrderIsList
<1>2. PICK q \in Offers!NextOffer(oOrder, E) : oOrder' = q /\ oLast' = q
  BY DEF Offers!Offer
<1>3. IsFiniteSet(E)
  BY EligibleRegistered
<1>4. n \in Nat /\ DOMAIN oOrder = 1..n
  BY <1>1, OfferConstants
<1> HIDE DEF E
<1>5. PICK all, m : Lineup(oOrder, n, E, all, m) /\ q = SubSeq(all, 1, L)
  BY <1>1, <1>2, <1>3, <1>4, OfferLineup
<1>6. Cardinality(E) \in Nat /\ L \in 0..Limit /\ L <= Cardinality(E)
  BY <1>3, FS_CardinalityType, OfferConstants DEF Least
<1>7. all \in [1..Cardinality(E) -> E]
  BY <1>5 DEF Lineup
<1> HIDE DEF L
<1>8. q \in [1..L -> E] /\ Len(q) = L /\ \A i \in 1..L : q[i] = all[i]
  BY <1>5, <1>6, <1>7, FirstOf
<1>9. QED
  BY <1>1, <1>2, <1>5, <1>6, <1>8 DEF E, L

LEMMA OfferKeeps == ASSUME OffersInv, Offers!Offer PROVE OffersInv'
<1> DEFINE E == Offers!EligibleMiners
           L == Least(Cardinality(E), Limit)
<1>1. PICK n, all, m :
        /\ n \in 0..Limit
        /\ Lineup(oOrder, n, E, all, m)
        /\ Cardinality(E) \in Nat /\ L \in 0..Limit /\ L <= Cardinality(E)
        /\ oOrder' = oLast' /\ oLast' \in [1..L -> E] /\ Len(oLast') = L
        /\ \A i \in 1..L : oLast'[i] = all[i]
  BY OfferMade
<1>2. E \subseteq Registered
  BY EligibleRegistered
<1>3. oSeen' = E /\ oEarned' = FALSE /\ UNCHANGED <<oServing, oPermit, oTrust, oChanges>>
  BY DEF Offers!Offer
<1>4. oPhase' \in {"idle", "round"}
  BY DEF Offers!Offer
<1> HIDE DEF E
<1>5. OfferShapes'
  BY <1>2, <1>3, <1>4 DEF OffersInv, OfferShapes
<1>6. KeptIsLast'
  BY <1>1, <1>3 DEF KeptIsLast
<1>7. \A i, j \in 1..L : oOrder'[i] = oOrder'[j] => i = j
  <2>1. \A i \in 1..L : i \in 1..Cardinality(E)
    BY <1>1, OfferConstants
  <2>2. QED
    BY <1>1, <2>1 DEF Lineup
<1>8. oOrder' \in [1..L -> Registered]
  BY <1>1, <1>2
<1>9. OrderIsList'
  <2> HIDE DEF L
  <2> QED BY <1>1, <1>7, <1>8 DEF OrderIsList
<1>10. QED
  BY <1>5, <1>6, <1>9 DEF OffersInv

LEMMA NextOffers == OffersInv /\ [Next]_vars => OffersInv'
<1> SUFFICES ASSUME OffersInv, [Offers!Next]_offerVars PROVE OffersInv'
  BY OffersMove
<1>1. CASE UNCHANGED offerVars
  BY <1>1 DEF offerVars, OffersInv, OfferShapes, OrderIsList, KeptIsLast
<1>2. CASE Offers!Offer
  BY <1>2, OfferKeeps
<1>3. CASE Offers!ChainChanges
  <2>1. OfferShapes'
    <3>1. oServing' \in Offers!Registrations /\ oPermit' \subseteq Offers!Uids
      BY <1>3 DEF Offers!ChainChanges, OffersInv, OfferShapes
    <3>2. oTrust' \in [Offers!Uids -> {"unknown", "zero", "positive"}]
      BY <1>3 DEF Offers!ChainChanges, OffersInv, OfferShapes
    <3>3. QED
      BY <1>3, <3>1, <3>2, OfferConstants DEF Offers!ChainChanges, OffersInv, OfferShapes
  <2>2. OrderIsList' /\ KeptIsLast'
    BY <1>3 DEF Offers!ChainChanges, OffersInv, OrderIsList, KeptIsLast
  <2>3. QED
    BY <2>1, <2>2 DEF OffersInv
<1>4. ASSUME NEW o, Offers!RoundEnds(o) PROVE OffersInv'
  <2>1. OfferShapes'
    BY <1>4 DEF Offers!RoundEnds, OffersInv, OfferShapes
  <2>2. KeptIsLast'
    BY <1>4 DEF Offers!RoundEnds, OffersInv, KeptIsLast
  <2>3. CASE oOrder' = oOrder
    BY <2>1, <2>2, <2>3 DEF OffersInv, OrderIsList
  <2>4. CASE oOrder' = << >>
    <3>1. oOrder' \in [1..0 -> Registered] /\ 0 \in 0..Limit
      BY <2>4, OfferConstants
    <3>2. QED
      BY <2>1, <2>2, <3>1 DEF OffersInv, OrderIsList
  <2>5. QED
    BY <1>4, <2>3, <2>4 DEF Offers!RoundEnds
<1>5. CASE Offers!Restart
  <2>1. OfferShapes' /\ KeptIsLast'
    BY <1>5 DEF Offers!Restart, OffersInv, OfferShapes, KeptIsLast
  <2>2. oOrder' \in [1..0 -> Registered] /\ 0 \in 0..Limit
    BY <1>5, OfferConstants DEF Offers!Restart
  <2>3. QED
    BY <2>1, <2>2 DEF OffersInv, OrderIsList
<1>6. QED
  BY <1>1, <1>2, <1>3, <1>4, <1>5 DEF Offers!Next, Offers!vars, offerVars
-----------------------------------------------------------------------------
LEMMA OffersTyped == OffersInv => Offers!TypeOK
<1> SUFFICES ASSUME OffersInv PROVE Offers!TypeOK
  OBVIOUS
<1>1. oOrder \in UNION {[1..n -> Registered] : n \in 0..Limit}
  BY DEF OffersInv, OrderIsList
<1>2. QED
  BY <1>1 DEF OffersInv, OfferShapes, Offers!TypeOK

\* An offer that was not earned draws nothing.
LEMMA NothingDrawn ==
    ASSUME OffersInv, Offers!Offer, ~oEarned
    PROVE  /\ Offers!EligibleMiners = oSeen => oLast' = oLast
           /\ \A x, y \in Offers!EligibleMiners \cap oSeen :
                ~(Offers!Before(oLast, x, y) /\ Offers!Before(oLast', y, x))
           /\ \A x \in Offers!EligibleMiners \cap Offers!Range(oLast),
                 y \in Offers!EligibleMiners \ Offers!Range(oLast) :
                ~Offers!Before(oLast', y, x)
<1> DEFINE E == Offers!EligibleMiners
           L == Least(Cardinality(E), Limit)
           C == Cardinality(E)
<1>1. PICK n, all, m :
        /\ n \in 0..Limit
        /\ oOrder \in [1..n -> Registered]
        /\ \A i, j \in 1..n : oOrder[i] = oOrder[j] => i = j
        /\ Lineup(oOrder, n, E, all, m)
        /\ C \in Nat /\ L \in 0..Limit /\ L <= C
        /\ oOrder' = oLast' /\ oLast' \in [1..L -> E] /\ Len(oLast') = L
        /\ \A i \in 1..L : oLast'[i] = all[i]
  BY OfferMade
<1>2. /\ oOrder = oLast /\ Len(oLast) = Least(Cardinality(oSeen), Limit)
      /\ \A i \in DOMAIN oLast : oLast[i] \in oSeen
  BY DEF OffersInv, KeptIsLast
<1>3. n \in Nat /\ oLast \in [1..n -> Registered] /\ Len(oLast) = n /\ DOMAIN oLast = 1..n
  BY <1>1, <1>2, OfferConstants
<1>4. \A i \in 1..L : i \in 1..C
  BY <1>1, OfferConstants
<1>5. /\ m \in 0..C
      /\ \A i, j \in 1..C : all[i] = all[j] => i = j
      /\ \A i \in 1..C : i <= m <=> \E a \in 1..n : oLast[a] = all[i]
      /\ \A i, j \in 1..m : \A a, b \in 1..n :
           i < j /\ all[i] = oLast[a] /\ all[j] = oLast[b] => a < b
      /\ (\A a \in 1..n : oLast[a] \in E) => m = n /\ \A i \in 1..n : all[i] = oLast[i]
  BY <1>1, <1>2 DEF Lineup
<1>6. ASSUME E = oSeen PROVE oLast' = oLast
  <2>1. n = L
    BY <1>2, <1>3, <1>6
  <2>2. m = n /\ \A i \in 1..n : all[i] = oLast[i]
    BY <1>2, <1>3, <1>5, <1>6
  <2> HIDE DEF E, L
  <2>3. QED
    BY <1>1, <1>3, <2>1, <2>2
<1> HIDE DEF E, L, C
<1>7. ASSUME NEW x, NEW y, Offers!Before(oLast, x, y), Offers!Before(oLast', y, x)
      PROVE  FALSE
  <2>1. PICK a, b \in 1..n : a < b /\ oLast[a] = x /\ oLast[b] = y
    BY <1>3, <1>7 DEF Offers!Before
  <2>2. PICK i, j \in 1..L : i < j /\ oLast'[i] = y /\ oLast'[j] = x
    BY <1>1, <1>7 DEF Offers!Before
  <2>3. i \in 1..C /\ j \in 1..C /\ all[i] = oLast[b] /\ all[j] = oLast[a]
    BY <1>1, <1>4, <2>1, <2>2
  <2>4. i \in 1..m /\ j \in 1..m
    <3>1. i <= m /\ j <= m
      BY <1>5, <2>1, <2>3
    <3>2. m \in Nat /\ i \in Nat /\ j \in Nat /\ i >= 1 /\ j >= 1
      BY <1>1, <1>5, <2>3
    <3> QED BY <3>1, <3>2
  <2>5. b < a
    BY <1>5, <2>1, <2>2, <2>3, <2>4
  <2>6. QED
    BY <2>1, <2>5, <1>3
<1>8. ASSUME NEW x \in Offers!Range(oLast), NEW y, y \notin Offers!Range(oLast),
             Offers!Before(oLast', y, x)
      PROVE  FALSE
  <2>1. PICK a \in 1..n : oLast[a] = x
    BY <1>3 DEF Offers!Range
  <2>2. \A b \in 1..n : oLast[b] # y
    BY <1>3, <1>8 DEF Offers!Range
  <2>3. PICK i, j \in 1..L : i < j /\ oLast'[i] = y /\ oLast'[j] = x
    BY <1>1, <1>8 DEF Offers!Before
  <2>4. i \in 1..C /\ j \in 1..C /\ all[i] = y /\ all[j] = x
    BY <1>1, <1>4, <2>3
  <2>5. j <= m /\ ~(i <= m)
    BY <1>5, <2>1, <2>2, <2>4
  <2>6. QED
    BY <1>1, <1>5, <2>3, <2>4, <2>5
<1>9. QED
  BY <1>6, <1>7, <1>8 DEF E

LEMMA NothingStale ==
    ASSUME OffersInv, [Offers!Next]_offerVars, oPhase = "idle", oPhase' = "round"
    PROVE  /\ Offers!Range(oOrder') \subseteq Offers!EligibleMiners
           /\ Offers!IsInjective(oOrder')
           /\ Len(oOrder') = Least(Cardinality(Offers!EligibleMiners), Limit)
<1>1. Offers!Offer
  BY DEF Offers!Next, offerVars, Offers!ChainChanges, Offers!Restart, Offers!RoundEnds
<1> DEFINE E == Offers!EligibleMiners
           L == Least(Cardinality(E), Limit)
<1>2. PICK n, all, m :
        /\ n \in 0..Limit
        /\ Lineup(oOrder, n, E, all, m)
        /\ Cardinality(E) \in Nat /\ L \in 0..Limit /\ L <= Cardinality(E)
        /\ oOrder' = oLast' /\ oLast' \in [1..L -> E] /\ Len(oLast') = L
        /\ \A i \in 1..L : oLast'[i] = all[i]
  BY <1>1, OfferMade
<1> HIDE DEF E
<1>3. DOMAIN oOrder' = 1..L /\ \A i \in 1..L : i \in 1..Cardinality(E)
  BY <1>2, OfferConstants
<1>4. Offers!Range(oOrder') \subseteq E
  BY <1>2, <1>3 DEF Offers!Range
<1>5. Offers!IsInjective(oOrder')
  BY <1>2, <1>3 DEF Lineup, Offers!IsInjective
<1>6. QED
  BY <1>2, <1>4, <1>5 DEF E

\* The order of offers (next_offer, round_callback): for any set of registrations, any
\* limit and any changes of the chain, an order that was not earned anew is the one of
\* the offer before, among those still eligible, and no offer is stale.
THEOREM OffersAreFair == Spec => OffersFair
<1>1. OffersInv => Offers!TypeOK
  BY OffersTyped
<1>2. OffersInv /\ [Next]_vars =>
             [Offers!Offer /\ ~oEarned =>
               /\ Offers!EligibleMiners = oSeen => oLast' = oLast
               /\ \A m, n \in Offers!EligibleMiners \cap oSeen :
                    ~(Offers!Before(oLast, m, n) /\ Offers!Before(oLast', n, m))
               /\ \A m \in Offers!EligibleMiners \cap Offers!Range(oLast),
                     n \in Offers!EligibleMiners \ Offers!Range(oLast) :
                    ~Offers!Before(oLast', n, m)]_(Offers!vars)
  BY NothingDrawn
<1>3. OffersInv /\ [Next]_vars =>
             [oPhase = "idle" /\ oPhase' = "round" =>
               /\ Offers!Range(oOrder') \subseteq
                    {m \in oServing : m # Owner /\ ~Offers!Validating(UidOf[m])}
               /\ Offers!IsInjective(oOrder')
               /\ Len(oOrder') = IF Offers!Cardinality(Offers!EligibleMiners) < Limit
                                 THEN Offers!Cardinality(Offers!EligibleMiners)
                                 ELSE Limit]_(Offers!vars)
  <2> SUFFICES ASSUME OffersInv, [Next]_vars, oPhase = "idle", oPhase' = "round"
               PROVE  /\ Offers!Range(oOrder') \subseteq
                           {m \in oServing : m # Owner /\ ~Offers!Validating(UidOf[m])}
                      /\ Offers!IsInjective(oOrder')
                      /\ Len(oOrder') = IF Offers!Cardinality(Offers!EligibleMiners) < Limit
                                        THEN Offers!Cardinality(Offers!EligibleMiners)
                                        ELSE Limit
    OBVIOUS
  <2>1. Offers!Cardinality(Offers!EligibleMiners) = Cardinality(Offers!EligibleMiners)
    BY DEF Offers!Cardinality, Cardinality
  <2>2. Offers!EligibleMiners
          = {m \in oServing : m # Owner /\ ~Offers!Validating(UidOf[m])}
    BY DEF Offers!EligibleMiners
  <2>3. [Offers!Next]_offerVars
    BY OffersMove
  <2>4. QED
    BY <2>1, <2>2, <2>3, NothingStale DEF Least
<1>4. Spec => []OffersInv
  BY InitOffers, NextOffers, PTL DEF Spec
<1>5. Spec => Offers!NoDrawWithoutEarning
  BY <1>2, <1>4, PTL DEF Spec, Offers!NoDrawWithoutEarning
<1>6. Spec => Offers!OfferIsCurrent
  BY <1>3, <1>4, PTL DEF Spec, Offers!OfferIsCurrent
<1>7. QED
  BY <1>1, <1>4, <1>5, <1>6, PTL DEF OffersFair, Offers!OffersFair
=============================================================================
