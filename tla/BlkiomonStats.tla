----------------------------- MODULE BlkiomonStats -----------------------------
(***************************************************************************)
(* The statistics of a device that blkiomon keeps (stats.h, blkiomon.h).   *)
(* Of the times from issue to completion, the sizes and the throughputs,   *)
(* which are kept alike, the times stand for all.                          *)
(***************************************************************************)
EXTENDS Naturals, Functions, FiniteSetsExt

CONSTANTS
  Buckets,       (* BLKIOMON_D2C_BUCKETS                                       *)
  First, Delta   (* of d2c_hist                                               *)

ASSUME StatsAssumption == Buckets \in Nat \ {0, 1} /\ First \in Nat /\ Delta \in Nat \ {0}

Dirs == {"r", "w"}

minmax_init == [num |-> 0, min |-> 0, max |-> 0, sum |-> 0]
minmax_account(mm, value) ==
  [num |-> mm.num + 1, sum |-> mm.sum + value,
   min |-> IF mm.num = 0 \/ value < mm.min THEN value ELSE mm.min,
   max |-> IF value > mm.max THEN value ELSE mm.max]

histlog2_upper_limit(index) == First + (IF index = 0 THEN 0 ELSE Delta * 2 ^ (index - 1))

(* The first bucket whose limit is not exceeded; the last takes the rest.    *)
histlog2_index(val) ==
  Min({Buckets - 1} \cup {i \in 0..(Buckets - 2) : val <= histlog2_upper_limit(i)})

(* be: it was converted for the binary output; torn: it was changed then.    *)
blkiomon_stat_init(device) ==
  [device |-> device, d2c |-> [d \in Dirs |-> minmax_init], bidir |-> 0,
   hist |-> [i \in 0..(Buckets - 1) |-> 0], be |-> FALSE, torn |-> FALSE]

(* dir: the bits of the direction.  A trace with both is one of a read; what  *)
(* is called bidirectional has neither.                                      *)
Counts(dir) == IF "r" \in dir THEN "r" ELSE "w"
Accounted(p, dir, d2c) ==
  IF dir = {} THEN [p EXCEPT !.bidir = @ + 1, !.torn = @ \/ p.be]
  ELSE [p EXCEPT !.d2c[Counts(dir)] = minmax_account(@, d2c), !.torn = @ \/ p.be]

WithinLimits(p, d2c) ==
  IF d2c > histlog2_upper_limit(Buckets - 2) THEN p
  ELSE [p EXCEPT !.hist[histlog2_index(d2c)] = @ + 1, !.torn = @ \/ p.be]
histlog2_account(p, d2c) ==
  [p EXCEPT !.hist[histlog2_index(d2c)] = @ + 1, !.torn = @ \/ p.be]

(* How many I/Os the numbers and the histogram of a row are about.           *)
Number(p) == p.bidir + p.d2c["r"].num + p.d2c["w"].num
Filled(p) == UNION {{i} \X (1..p.hist[i]) : i \in DOMAIN p.hist}
InHist(p) == Cardinality(Filled(p))
===============================================================================
