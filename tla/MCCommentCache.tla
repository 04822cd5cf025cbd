--------------------------- MODULE MCCommentCache ---------------------------
(* Constants for model-checking CommentCache. *)
EXTENDS CommentCache, TLC
CONSTANTS d1, b1, b2, o1, o2

\* Two dispatchers with their own leaseOwner strings.
DistinctOwners == b1 :> o1 @@ b2 :> o2
OneOwner == b1 :> o1
NoDispatchers == << >>
=============================================================================
