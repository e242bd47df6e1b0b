---------------------------- MODULE MCSubscription -----------------------------
(***************************************************************************)
(* Small instances of SubscriptionStore for TLC.                           *)
(***************************************************************************)
EXTENDS SubscriptionStore, TLC

CONSTANTS c1, c2, s1

Interchangeable == Permutations(Callers)
===============================================================================
