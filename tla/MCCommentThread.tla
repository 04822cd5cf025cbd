--------------------------- MODULE MCCommentThread ---------------------------
(* Constants for model-checking CommentThread. *)
EXTENDS CommentThread, TLC

\* Ids, keys, wallets and requests are interchangeable.
ThreadSymmetry ==
    Permutations(Comments) \cup Permutations(Keys) \cup Permutations(Wallets)
        \cup Permutations(Requests) \cup Permutations(Tokens)
\* Ids alone, for runs with many ids.
IdSymmetry == Permutations(Comments)
=============================================================================
