--------------------------- MODULE MCStorageLock ---------------------------
(* A small instance of StorageLock for TLC: two processes, and as many tokens *)
(* as the lock and two processes can have in use at once.                     *)
EXTENDS StorageLock

CONSTANTS p1, p2, t1, t2, t3, t4, t5
============================================================================
