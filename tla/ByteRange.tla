----------------------------- MODULE ByteRange ------------------------------
(***************************************************************************)
(* Byte ranges [start, end) and the surgery on lists of them that the      *)
(* lists of a LeotpTransCB share (dataHoles, intBuf; leotp.cpp:484-577 and *)
(* 651-788).  An element of a list is a record with a start, an end and    *)
(* any further fields; cutting it copies those (memcpy of the LeotpSeg).   *)
(***************************************************************************)
EXTENDS Integers, Sequences

Lower(a, b)  == IF a < b THEN a ELSE b
Higher(a, b) == IF a > b THEN a ELSE b

Span(r)       == r.start .. r.end - 1
Size(r)       == r.end - r.start
Overlap(x, r) == x.start < r.end /\ r.start < x.end
Covered(s)    == UNION {Span(s[i]) : i \in 1 .. Len(s)}

(* The parts of x before, inside and after r: empty or one element each.   *)
Before(x, r) == IF x.start < r.start
                THEN <<[x EXCEPT !.end = Lower(@, r.start)]>> ELSE <<>>
Inside(x, r) == IF Overlap(x, r)
                THEN <<[x EXCEPT !.start = Higher(@, r.start), !.end = Lower(@, r.end)]>>
                ELSE <<>>
After(x, r)  == IF x.end > r.end
                THEN <<[x EXCEPT !.start = Higher(@, r.end)]>> ELSE <<>>

(* The least element of a set of numbers: where a loop first stops.        *)
First(S) == CHOOSE i \in S : \A j \in S : i <= j

(* The end of the longest prefix of r that a cache with the bytes store    *)
(* returns.  parseInt reads in steps of LEOTP_MSS until a read is short.   *)
ServedEnd(store, r) == First({b \in r.start .. r.end : b = r.end \/ b \notin store})

(* The sequences ss[1], ..., ss[n], one behind the other.                  *)
Concat(n, ss) ==
  LET f[i \in 0 .. n] == IF i = 0 THEN <<>> ELSE f[i - 1] \o ss[i]
  IN f[n]

(* The sum of the numbers ns[1], ..., ns[n].                               *)
SumOf(n, ns) ==
  LET f[i \in 0 .. n] == IF i = 0 THEN 0 ELSE f[i - 1] + ns[i]
  IN f[n]

(* The loops over a list break at the first element behind the range r.    *)
Scanned(s, r) == {i \in 1 .. Len(s) : \A j \in 1 .. i : s[j].start < r.end}

(* The list s with each scanned element replaced by its pieces.            *)
Recut(s, r, Pieces(_)) ==
  Concat(Len(s), [i \in 1 .. Len(s) |-> IF i \in Scanned(s, r) THEN Pieces(s[i]) ELSE <<s[i]>>])

(* What the scanned elements of s have in common with r, in list order.    *)
Answered(s, r) ==
  Concat(Len(s), [i \in 1 .. Len(s) |-> IF i \in Scanned(s, r) THEN Inside(s[i], r) ELSE <<>>])

(* The elements of s with an index in S, and the bytes they add up to.     *)
Pick(s, S)      == Concat(Len(s), [i \in 1 .. Len(s) |-> IF i \in S THEN <<s[i]>> ELSE <<>>])
TotalSize(s, S) == SumOf(Len(s), [i \in 1 .. Len(s) |-> IF i \in S THEN Size(s[i]) ELSE 0])

(* The list s cut by each range of the list rs in turn.                    *)
RecutAll(s, rs, Cut(_, _)) ==
  LET f[i \in 0 .. Len(rs)] == IF i = 0 THEN s ELSE Cut(f[i - 1], rs[i])
  IN f[Len(rs)]

(* Each element starts at or behind the end of the one before.             *)
Sorted(s)   == \A i \in 1 .. Len(s) - 1 : s[i].end <= s[i + 1].start
NonEmpty(s) == \A i \in 1 .. Len(s) : s[i].start < s[i].end
=============================================================================
