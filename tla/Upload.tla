------------------------------- MODULE Upload -------------------------------
(***************************************************************************)
(* How a miner hands in its result (upload_miner_result): the submission,  *)
(* then the trajectory, each by upload_artifact into a slot of its own.  A *)
(* slot is an object that can be created once, as the request header       *)
(* If-None-Match says, and belongs to one solve.  An answer of the store   *)
(* may be lost, and a 5xx says nothing about whether the object was        *)
(* created, so an attempt that finds the object there (409, 412) has       *)
(* succeeded when an earlier one was ambiguous.                            *)
(***************************************************************************)
EXTENDS Integers, Sequences

CONSTANT
    Attempts    \* range(3)

\* What is assumed of the constants; evaluated in MinerParts.
UploadAssumption == Attempts \in Nat \ {0}

VARIABLES
    stored,     \* whether the object of each slot was created
    slot,       \* the slot being filled: 1 the submission's, 2 the trajectory's
    pc,         \* "put", "sent", "sleep", "done"
    attempt,    \* attempts made for this slot before this one
    ambiguous,  \* whether an earlier attempt may have created the object
    answer,     \* the answer on its way: a status or "error"
    outcome     \* "none", "returned", "rejected", "failed"

vars == <<stored, slot, pc, attempt, ambiguous, answer, outcome>>
-----------------------------------------------------------------------------
Init ==
    /\ stored = [s \in 1..2 |-> FALSE]
    /\ slot = 1 /\ pc = "put" /\ attempt = 0
    /\ ambiguous = FALSE /\ answer = 0 /\ outcome = "none"

\* The size of the contents and the origin of the URL are checked first.
Refuse ==
    /\ pc = "put" /\ attempt = 0
    /\ pc' = "done" /\ outcome' = "rejected"
    /\ UNCHANGED <<stored, slot, attempt, ambiguous, answer>>

\* The store receives the PUT and creates the object unless it is there.  It may
\* fail before or after, and its answer may be lost (0).  Assumed of the store: it
\* answers 409 or 412 only when the object is there, as upload_artifact takes it to mean,
\* and not while a conflicting write, which may yet fail, is under way.
Put ==
    /\ pc = "put"
    /\ pc' = "sent"
    /\ \/ /\ ~stored[slot]
          /\ stored' = [stored EXCEPT ![slot] = TRUE]
          /\ answer' \in {200, 201, 503, 0}
       \/ /\ stored[slot]
          /\ answer' \in {409, 412, 503, 0}
          /\ UNCHANGED stored
       \/ /\ answer' \in {403, 503, 0}
          /\ UNCHANGED stored
    /\ UNCHANGED <<slot, attempt, ambiguous, outcome>>

\* Faulty variant: any answer will do once an attempt was ambiguous.
CreatedAny == answer \in {200, 201} \/ ambiguous

\* Faulty variant: an object that is already there is a failure.
CreatedNow == answer \in {200, 201}

Created == answer \in {200, 201} \/ (answer \in {409, 412} /\ ambiguous)

Unclear == ~Created /\ answer \in {503, 0}

\* upload_artifact returned: the next slot, with a fresh ambiguous flag.
NextSlot ==
    /\ slot' = slot + 1 /\ pc' = "put" /\ attempt' = 0 /\ ambiguous' = FALSE
    /\ UNCHANGED outcome

Stop(why) == /\ pc' = "done" /\ outcome' = why
             /\ UNCHANGED <<slot, attempt, ambiguous>>

\* The answer, or the transport error, as upload_artifact reads it.
TakeAnswer ==
    /\ pc = "sent"
    /\ \/ Created /\ slot = 1 /\ NextSlot
       \/ Created /\ slot = 2 /\ Stop("returned")
       \/ /\ Unclear /\ attempt < Attempts - 1
          /\ ambiguous' = TRUE /\ pc' = "sleep"
          /\ UNCHANGED <<slot, attempt, outcome>>
       \/ Unclear /\ attempt = Attempts - 1
                  /\ Stop(IF answer = 0 THEN "failed" ELSE "rejected")
       \/ ~Created /\ ~Unclear /\ Stop("rejected")
    /\ UNCHANGED <<stored, answer>>

Again ==
    /\ pc = "sleep"
    /\ pc' = "put" /\ attempt' = attempt + 1
    /\ UNCHANGED <<stored, slot, ambiguous, answer, outcome>>

\* A request whose connection failed may reach the store late, after later ones.
LateArrival ==
    /\ ambiguous /\ pc # "done" /\ ~stored[slot]
    /\ stored' = [stored EXCEPT ![slot] = TRUE]
    /\ UNCHANGED <<slot, pc, attempt, ambiguous, answer, outcome>>

Next == Refuse \/ Put \/ TakeAnswer \/ Again \/ LateArrival

Spec == Init /\ [][Next]_vars
-----------------------------------------------------------------------------
TypeOK ==
    /\ stored \in [1..2 -> BOOLEAN]
    /\ slot \in 1..2 /\ pc \in {"put", "sent", "sleep", "done"}
    /\ attempt \in 0..Attempts - 1 /\ ambiguous \in BOOLEAN
    /\ answer \in {0, 200, 201, 403, 409, 412, 503}
    /\ outcome \in {"none", "returned", "rejected", "failed"}
    /\ ambiguous => attempt > 0 \/ pc = "sleep"

\* A response to the validator names two objects, and both are in their slots.
ReturnedIsStored ==
    outcome = "returned" => \A s \in 1..2 : stored[s]

\* An upload whose object was created is not failed because it was created: the
\* answer that was lost does not turn the retry into a refusal.
LostAnswerHarmless ==
    outcome = "rejected" /\ answer \in {409, 412} => ~stored[slot]

\* What the miner's response may say of its objects (upload_miner_result).
UploadSound == TypeOK /\ ReturnedIsStored /\ LostAnswerHarmless
=============================================================================
