------------------------------- MODULE MCLogging --------------------------------
(* Logging, and with it AsyncLogging and LogFile, on a small instance.              *)
EXTENDS Logging, TLC

================================================================================
