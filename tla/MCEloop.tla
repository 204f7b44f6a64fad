------------------------------ MODULE MCEloop ------------------------------
(* The event loop for TLC: two sockets, two handlers of timeouts, SIGINT and  *)
(* another signal, of which two may arrive.                                   *)
EXTENDS Eloop

CONSTANTS s1, s2, int, usr

\* main registers one socket and no signal; another program registers more.
LoopStarts == { [socks |-> <<s1>>, sigs |-> <<>>],
                [socks |-> <<s1, s2>>, sigs |-> <<usr>>] }
=============================================================================
