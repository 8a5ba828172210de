------------------------ MODULE MCWin32Notification ------------------------
(***************************************************************************)
(* Win32Notification for TLC: the threads that may neither set a time      *)
(* limit nor unlock by force are interchangeable.                          *)
(***************************************************************************)
EXTENDS Win32Notification, TLC

PlainThreads == Permutations(Threads \ (Hasty \cup Unlockers))
=============================================================================
