-------------------------------- MODULE Clock --------------------------------
(* Time as the readers of traces count it: nanoseconds, and the second a     *)
(* time falls into (SECONDS of blktrace.h); and the tables they look up.     *)
EXTENDS Integers

CONSTANT Second    (* how many units of time a second has                       *)

Seconds(time) == time \div Second

(* The table with the entry: one that is there already stays, or is replaced. *)
Entered(table, key, entry) ==
  [k \in DOMAIN table \cup {key} |-> IF k \in DOMAIN table THEN table[k] ELSE entry]
Replaced(table, key, entry) ==
  [k \in DOMAIN table \cup {key} |-> IF k = key THEN entry ELSE table[k]]
=============================================================================
