-------------------------- MODULE MCDbTransaction --------------------------
(* Instances of DbTransaction: its Script is EimsScript, the handlers of   *)
(* the EIMS server; each run chooses the messages and the bounds.          *)
EXTENDS DbTransaction, EimsScripts

Handlers == EimsScript
=============================================================================
