------------------------------ MODULE MCMysqlPool ------------------------------
(* MysqlPool on a small instance.                                          *)
EXTENDS MysqlPool, TLC

================================================================================
