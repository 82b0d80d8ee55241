------------------------------ MODULE MCFeeLedger ------------------------------
EXTENDS FeeLedger, TLC

\* Filings, screens, documents, keys and receipts are interchangeable.
Interchangeable ==
    Permutations(Filings) \cup Permutations(Calls) \cup Permutations(Documents)
        \cup Permutations(Keys) \cup Permutations(Receipts)

=============================================================================
