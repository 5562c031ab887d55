--------------------------- MODULE MCFileTransfer ---------------------------
(* Instances of FileTransfer for the model checker: the faults the           *)
(* configuration chooses.                                                    *)
EXTENDS FileTransfer

MCFaults == {"accept", "opendir", "remove"}
=============================================================================
