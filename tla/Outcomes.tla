------------------------------- MODULE Outcomes -------------------------------
\* What a call of a function comes to: it returns a value or throws an error.

Returns(v) == [kind |-> "returns", value |-> v]
Throws(e) == [kind |-> "throws", error |-> e]

Returned(outcome) == outcome.kind = "returns"

\* The rest of a function, which an exception skips.
Then(outcome, Rest(_)) == IF Returned(outcome) THEN Rest(outcome.value) ELSE outcome

=============================================================================
