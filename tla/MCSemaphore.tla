----------------------------- MODULE MCSemaphore -----------------------------
(* Five requests compete for two engine slots.                             *)
EXTENDS Semaphore

CONSTANTS r1, r2, r3, r4, r5
=============================================================================
