------------------------------- MODULE CoBuffer -------------------------------
(***************************************************************************)
(* The buffer every connection has for what it reads and what it writes: a *)
(* block of memory that grows, in it the valid data, and before the data a *)
(* gap left by what was erased.                                            *)
(***************************************************************************)
EXTENDS Integers, Sequences

CONSTANT MinSize    \* the smallest block asked for, 256 in the code

ASSUMPTION BufferAssumption == MinSize \in Nat \ {0}

(* data: the valid bytes; misalign: the gap before them; total: the block. *)
NoBuffer == [data |-> <<>>, misalign |-> 0, total |-> 0]

Used(b) == b.misalign + Len(b.data)

(* The size of the block doubles until it is enough.                       *)
Grown(size, need) ==
    LET double[s \in Nat] == IF s >= need THEN s ELSE double[2 * s]
    IN  double[IF size < MinSize THEN MinSize ELSE size]

(* A variant: the block gets the size that is needed now.                  *)
ExpandExactly(b, n) ==
    IF b.total - Used(b) >= n THEN b
    ELSE [b EXCEPT !.misalign = 0, !.total = IF Len(b.data) + n > @ THEN Len(b.data) + n ELSE @]

(* A variant: the larger block keeps the gap, which nobody counted.        *)
ExpandKeepsGap(b, n) ==
    IF b.total - Len(b.data) >= n THEN b
    ELSE [b EXCEPT !.total = Grown(@, Len(b.data) + n)]

(* buffer_expand: room for n bytes behind the data, if need be after the   *)
(* data moved to the start of the block, or of a larger block.             *)
Expand(b, n) ==
    CASE b.total - Used(b) >= n     -> b
      [] /\ b.total - Used(b) < n
         /\ b.total - Len(b.data) >= n -> [b EXCEPT !.misalign = 0]
      [] b.total - Len(b.data) < n ->
             [b EXCEPT !.misalign = 0, !.total = Grown(@, Len(b.data) + n)]

(* buffer_append and buffer_size_expand, the latter after a read into room *)
(* that buffer_expand made.                                                *)
AppendTo(b, bytes) == [Expand(b, Len(bytes)) EXCEPT !.data = @ \o bytes]
Fill(b, bytes) == [b EXCEPT !.data = @ \o bytes]

(* buffer_erase, from the front, and reset.                                *)
Reset(b) == [b EXCEPT !.data = <<>>, !.misalign = 0]
Erase(b, n) ==
    IF n >= Len(b.data) THEN Reset(b)
    ELSE [b EXCEPT !.data = SubSeq(@, n + 1, Len(@)), !.misalign = @ + n]
=============================================================================
