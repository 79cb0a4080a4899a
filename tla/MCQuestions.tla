---------------------------- MODULE MCQuestions ----------------------------
(***************************************************************************)
(* The answers people, phones and agents send in the runs of Questions.    *)
(***************************************************************************)
EXTENDS Questions

Offer(who, relay, action, woken, fit) ==
    [who |-> who, relay |-> relay, action |-> action, woken |-> woken,
     fit |-> fit]

File(who, action) == Offer(who, FALSE, action, FALSE, TRUE)
Phone(action) == Offer(Human, TRUE, action, FALSE, TRUE)

\* A phone that goes on with the round and an agent that waits for a provider:
\* what is offered depends on the question and on the budget.
AnswerOffers == {Phone("more"), File(Agent, "wait")}

\* Nobody answers.
NoOffers == {}
=============================================================================
