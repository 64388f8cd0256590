----------------------------- MODULE MCLoopCore -----------------------------
(***************************************************************************)
(* Instance of LoopCore for TLC: two callbacks, one stop() and two other    *)
(* threads are enough for a batch of several handles, a handle appended     *)
(* between any two steps of the loop's thread, two threads at different     *)
(* points of call_soon_threadsafe, and a second run.                        *)
(***************************************************************************)
EXTENDS LoopCore

CONSTANTS c1, c2, s1, t1, t2

MCHandles == {c1, c2, s1}
MCStopHandles == {s1}
MCThreads == {t1, t2}
=============================================================================
