------------------------------- MODULE MCStreams -------------------------------
(* A container that is subscribed, unsubscribed and subscribed again, with the    *)
(* streams of a peer that does not own it.                                        *)
EXTENDS Streams
CONSTANTS k1, m1, Objects
const_Object == 1..Objects
const_Of == [o \in const_Object |-> k1]
const_Stream == <<"repl", "input">>
const_Message == {m1}
const_For == m1 :> <<k1, "repl">>
================================================================================
