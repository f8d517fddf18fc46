------------------------------ MODULE MCBlkiomon ------------------------------
(* Small instances of Blkiomon: what the CPUs trace.                        *)
EXTENDS Blkiomon

CONSTANTS sda, sdb

Ev(dev, sec, dir, act, time) == [dev |-> dev, sec |-> sec, dir |-> dir, act |-> act, time |-> time]

(* Two I/Os of the same sector issued on one CPU, completed on the other;    *)
(* one of another device with its sector in the same bucket, and one of its  *)
(* driver's events.                                                         *)
MCStream == [c \in {0, 1} |->
  IF c = 0
  THEN <<Ev(sda, 2, {"r"}, "D", 10), Ev(sda, 2, {"r"}, "D", 30), Ev(sdb, 4, {"w"}, "D", 40)>>
  ELSE <<Ev(sda, 2, {"r"}, "C", 20), Ev(sdb, 4, {"w"}, "drv", 45), Ev(sda, 2, {"r"}, "C", 36),
         Ev(sdb, 4, {"w"}, "C", 90)>>]
MCCpus == {0, 1}
MCDevices == {sda, sdb}

(* An I/O that takes less than a microsecond.                                *)
FastStream == [c \in {0, 1} |->
  IF c = 0 THEN <<Ev(sda, 2, {"r"}, "D", 10)>> ELSE <<Ev(sda, 2, {"r"}, "C", 11)>>]
===============================================================================
