----------------------------- MODULE MCEventLoop -----------------------------
(* Two foreign threads are enough for one to be between its push and its     *)
(* wakeup while the other one's wakeup is consumed; the owner is the third   *)
(* caller. Four tasks allow two batches of two.                              *)
EXTENDS EventLoop, TLC
CONSTANTS t1, t2
MCThreads == {t1, t2}

==============================================================================
