---- MODULE MCSleepWatchdog ----
(* A small instance of SleepWatchdog: words of four bits, minutes of two   *)
(* milliseconds and at most three of them.                                 *)
EXTENDS SleepWatchdog

CONSTANT text

(* An entry that is no number, one whose time does not fit a word, one     *)
(* that never comes, zero, the shortest and the longest time and one that  *)
(* is too long.                                                            *)
MCEntries == {text, -5, -4, 0, 1, 3, 4}
MCWordMin == -8
====
