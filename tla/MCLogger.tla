------------------------------ MODULE MCLogger ------------------------------
(* Instances of Logger.                                                      *)
EXTENDS Logger

(* The first thread falls behind, the second too, or comes and goes.                 *)
MCLogs == <<3, 2>>
=============================================================================
