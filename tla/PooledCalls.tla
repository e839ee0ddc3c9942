----------------------------- MODULE PooledCalls -----------------------------
(***************************************************************************)
(* What the thread pool of the WebAssembly build promises to JavaScript: a  *)
(* call is accepted while the pool is up, the pool stays up while the call  *)
(* is running, and every accepted call returns.                             *)
(***************************************************************************)
VARIABLES up, calling

vars == <<up, calling>>

Init == ~up /\ ~calling

Start == ~up /\ up' = TRUE /\ UNCHANGED calling

Stop == up /\ ~calling /\ up' = FALSE /\ UNCHANGED calling

Call == up /\ ~calling /\ calling' = TRUE /\ UNCHANGED up

Return == calling /\ calling' = FALSE /\ UNCHANGED up

Next == Start \/ Stop \/ Call \/ Return

Spec == Init /\ [][Next]_vars /\ WF_vars(Return)
=============================================================================
