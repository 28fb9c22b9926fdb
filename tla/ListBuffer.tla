----------------------------- MODULE ListBuffer -----------------------------
(***************************************************************************)
(* How get_records_list of src/src/dns_server.c prints into a buffer that  *)
(* grows: a chunk of n bytes, then its NUL, at an offset.  When snprintf   *)
(* says that it did not fit, the size is doubled, once, and the chunk      *)
(* printed again.  buf_size - offset is unsigned: should offset ever pass  *)
(* buf_size, every chunk looks as if it fitted.                            *)
(***************************************************************************)
EXTENDS Integers

CONSTANT
  HeaderLength,  \* bytes of "Current DNS Records:\n"
  InitialSize    \* the first buf_size

ASSUME BufferAssumption ==
  /\ InitialSize \in Nat
  /\ HeaderLength \in 0..(InitialSize - 1)

Fits(n, offset, size) == offset > size \/ n < size - offset

\* Mutant: half as much again.
GrownByHalf(n, offset, size) == IF Fits(n, offset, size) THEN size ELSE size + size \div 2

\* buf_size after a chunk of n bytes.
Grown(n, offset, size) == IF Fits(n, offset, size) THEN size ELSE 2 * size
============================================================================
