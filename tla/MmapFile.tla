------------------------------ MODULE MmapFile ------------------------------
(***************************************************************************)
(* An output file that blktrace.c writes through a mapping (struct         *)
(* mmap_info, setup_mmap): a window of the file is mapped, data is put      *)
(* behind what the file holds, and when a piece does not fit into the       *)
(* window any more the file is extended and a new window mapped, whose      *)
(* place must be a multiple of the page size.  Tracers write files of one   *)
(* CPU and device so, and the network server the files of its clients.      *)
(***************************************************************************)
EXTENDS Integers

CONSTANTS
  BufSize, BufNr,   (* -b and -n                                              *)
  MinBufNr,         (* 16: the fewest buffers that a window is made of         *)
  PageSize,
  MaxLen            (* the most that one call has to put                       *)

Nr == IF MinBufNr > BufNr THEN MinBufNr ELSE BufNr
Window == Nr * BufSize

ASSUME MmapAssumption == {BufSize, BufNr, MinBufNr, PageSize, MaxLen} \subseteq Nat \ {0}

(* A piece and two pages' worth, as the window is shortened by its own offset *)
(* and starts at that offset.  The program does not see to it: the network   *)
(* server makes the window of its own -b and -n and takes the length of a    *)
(* piece from the client's header, and with sendfile() a client has pieces   *)
(* of up to its own -b times -n.  It holds when both have the same options    *)
(* and fewer than 16 buffers, of 8K or more, and for the tracers' own files, *)
(* where a piece is one buffer at most.                                      *)
PiecesFit == MaxLen + 2 * (PageSize - 1) <= Window

(* A struct mmap_info: fs_size, fs_max_size, fs_off and fs_buf_len, and the   *)
(* window's place in the file.                                              *)
Mip == [size : Nat, max : Int, off : Nat, len : Int, at : Int]

init_mmap_info == [size |-> 0, max |-> 0, off |-> 0, len |-> 0, at |-> 0]

RemappedOnly(m) ==
  LET off == m.size % PageSize
  IN  [size |-> m.size, max |-> Window, off |-> off, len |-> Window - off, at |-> m.size - off]
Remapped(m) ==
  LET off == m.size % PageSize
  IN  [size |-> m.size, max |-> m.max + Window - off,
       off |-> off, len |-> Window - off, at |-> m.size - off]

setup_mmap(m, maxlen) == IF m.off + maxlen > m.len THEN Remapped(m) ELSE m

(* ret bytes of the maxlen that were announced arrived in the window.         *)
Put(m, maxlen, ret) ==
  LET s == setup_mmap(m, maxlen) IN [s EXCEPT !.size = @ + ret, !.off = @ + ret]
-----------------------------------------------------------------------------
(* The window ends inside the extended file, and what was put ends inside    *)
(* the window, at the end of the file's data: nothing is overwritten, no gap *)
(* is left, and ftruncate at the close cuts nothing off.                     *)
WindowSound(m) ==
  /\ m.at + m.len <= m.max
  /\ m.off <= m.len
  /\ m.at + m.off = m.size
  /\ m.size <= m.max

(* Whatever comes next fits into the window that setup_mmap leaves.          *)
PieceFits(m) ==
  \A maxlen \in 1..MaxLen :
    LET s == setup_mmap(m, maxlen) IN s.off + maxlen <= s.len /\ WindowSound(s)
=============================================================================
