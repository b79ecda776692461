----------------------------- MODULE MCRedisLogger -----------------------------
(* Two threads use the logger while metrics are uploaded and the process exits.   *)
EXTENDS RedisLogger
CONSTANTS c1, c2
const_Caller == {c1, c2}
================================================================================
