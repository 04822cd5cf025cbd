---------------------------- MODULE MCLaunchRelay ----------------------------
(* Constants for model-checking LaunchRelay. *)
EXTENDS LaunchRelay, TLC
CONSTANTS l1, l2, c1

\* One creator with two launches shares the keys of its two launches.
OneCreator == l1 :> c1 @@ l2 :> c1
OneLaunch == l1 :> c1

\* Requests and prepares are interchangeable.
RequestSymmetry == Permutations(Requests) \cup Permutations(Prepares)
=============================================================================
