------------------------------- MODULE Threads -------------------------------
(* The threads that use the kernel objects, and nobody.                        *)
EXTENDS Integers, FiniteSets

CONSTANT Threads

NULL == "NULL"

ASSUME ThreadsFinite == IsFiniteSet(Threads)
ASSUME NobodyIsNoThread == NULL \notin Threads
=============================================================================
