------------------------------ MODULE MCPipeline ------------------------------
(* Model values and bounds for model checking BackupPipeline with TLC.     *)
EXTENDS BackupPipeline
=============================================================================
