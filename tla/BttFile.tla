-------------------------------- MODULE BttFile --------------------------------
(***************************************************************************)
(* How btt reads a dump: through a window of the file that is mapped anew  *)
(* when less than a margin of it is left (btt/mmap.c).                     *)
(***************************************************************************)
EXTENDS TraceFile

CONSTANTS PAGE, DEF_LEN, MARGIN

ASSUME WindowAssumption ==
  /\ {PAGE, DEF_LEN, MARGIN} \subseteq Nat \ {0}
  /\ DEF_LEN % PAGE = 0 /\ MARGIN + PAGE <= DEF_LEN

VARIABLES
  cur, cur_min, cur_max,
  got,         (* the records read: indices, 0 for what is not a whole record  *)
  bpc          (* setup, reading, done, or dead: read outside what is mapped   *)

btt == <<cur, cur_min, cur_max, got, bpc>>

BttInit == cur = 0 /\ cur_min = 0 /\ cur_max = 0 /\ got = <<>> /\ bpc = "setup"

Down(n) == n - (n % PAGE)
Up(n) == Down(n + PAGE - 1)

(* len is unsigned: past the end of the file it is not small but large.      *)
MapLen(f) == IF Down(cur) > Total(f) THEN DEF_LEN ELSE Min({DEF_LEN, Total(f) - Down(cur)})

move_map(f) == cur_min' = Down(cur) /\ cur_max' = Down(cur) + MapLen(f)
Moves(f) == MapLen(f) >= HEADER /\ cur < Down(cur) + MapLen(f)

setup_ifile(f) ==
  /\ bpc = "setup"
  /\ IF Moves(f) THEN move_map(f) /\ bpc' = "reading"
                 ELSE bpc' = "done" /\ UNCHANGED <<cur_min, cur_max>>
  /\ UNCHANGED <<cur, got>>

At(f) == SelectInSeq([i \in DOMAIN f.recs |-> Start(f, i)], LAMBDA s : s = cur)

(* The record at cur, if it can be read with a window that ends at max; the  *)
(* page in which the file ends reads as zeros after it.                     *)
Take(f, max) ==
  LET i == At(f)
      length == IF i # 0 /\ HeaderThere(f, i) THEN Size(f.recs[i]) ELSE HEADER
  IN IF cur + length > Min({Up(max), Up(Total(f))})
     THEN bpc' = "dead" /\ UNCHANGED <<cur, got>>
     ELSE /\ cur' = cur + length
          /\ got' = Append(got, IF i # 0 /\ Whole(f, i) THEN i ELSE 0)
          /\ UNCHANGED bpc

HeaderInWindow == cur + HEADER <= cur_max
InWindow == cur + MARGIN <= cur_max

next_trace(f) ==
  /\ bpc = "reading"
  /\ \/ InWindow /\ Take(f, cur_max) /\ UNCHANGED <<cur_min, cur_max>>
     \/ ~InWindow /\ Moves(f) /\ move_map(f) /\ Take(f, Down(cur) + MapLen(f))
     \/ ~InWindow /\ ~Moves(f) /\ bpc' = "done" /\ UNCHANGED <<cur, cur_min, cur_max, got>>
===============================================================================
