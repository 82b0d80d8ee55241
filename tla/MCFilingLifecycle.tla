-------------------------- MODULE MCFilingLifecycle --------------------------
EXTENDS FilingLifecycle, TLC

\* Calls of one kind and documents are interchangeable.
Interchangeable ==
    Permutations(SubmitCalls) \cup Permutations(ReviewCalls)
        \cup Permutations(OrderCalls) \cup Permutations(Documents)
        \cup Permutations(OrderDocuments) \cup Permutations(Keys)

InFlight ==
    {c \in SubmitCalls : submitting[c].phase # "idle"}
        \cup {c \in ReviewCalls : reviewing[c].phase # "idle"}
        \cup {c \in OrderCalls : ordering[c].phase # "idle"}

\* Bounds of the review run: a filing that is reviewed, without a waiver
\* request, and any two of its calls in flight at a time.
TwoCallsAtATime ==
    /\ filingType # "service_only"
    /\ ~details.waiver
    /\ Cardinality(InFlight) <= 2

=============================================================================
