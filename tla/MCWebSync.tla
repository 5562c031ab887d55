----------------------------- MODULE MCWebSync ------------------------------
(* Instances of WebSync: who logs in with which account.                     *)
EXTENDS WebSync, TLC

CONSTANTS c1, c2, u1

MCSharedAccount == c1 :> u1 @@ c2 :> u1
=============================================================================
