-------------------------------- MODULE Kernel --------------------------------
(***************************************************************************)
(* A file and the system calls on it, as far as the wrappers in plrPreload *)
(* use them: outside PLR, in the kernel.                                   *)
(*                                                                         *)
(* A file is a record: does it exist, its bytes, and can it seek. One that *)
(* cannot is a pipe: its bytes are all that goes through it before it is   *)
(* closed, and the offset is how many have.                                *)
(***************************************************************************)
EXTENDS Integers, Sequences

NL == 10             \* the byte that ends a line

Least(S) == CHOOSE x \in S : \A y \in S : x <= y

Files == [exists : BOOLEAN, data : Seq(Nat), seeks : BOOLEAN]

\* The bytes d once s is written over them at offset p; a gap is zeros. Writing
\* nothing leaves them as they are.
Overwrite(d, p, s) ==
  IF s = << >> THEN d
  ELSE [k \in 1 .. (IF p + Len(s) > Len(d) THEN p + Len(s) ELSE Len(d)) |->
          IF k > p /\ k <= p + Len(s) THEN s[k - p]
          ELSE IF k <= Len(d) THEN d[k] ELSE 0]

\* read(2) of up to n bytes at offset p.
BytesAt(d, p, n) == SubSeq(d, p + 1, IF p + n < Len(d) THEN p + n ELSE Len(d))

\* May a file be opened with these flags, and the file once it is.
CanOpen(file, flags) ==
  IF file.exists THEN ~("creat" \in flags /\ "excl" \in flags) ELSE "creat" \in flags
Opened(file, flags) ==
  [file EXCEPT !.exists = TRUE,
               !.data = IF ~file.exists \/ "trunc" \in flags THEN << >> ELSE @]
=============================================================================
