----------------------------- MODULE MCStatusServer -----------------------------
(* StatusServer, and with it RedisPool, on a small instance.                       *)
EXTENDS StatusServer, TLC

================================================================================
