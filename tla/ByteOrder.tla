------------------------------- MODULE ByteOrder -------------------------------
(***************************************************************************)
(* 16-bit words and what htons does to them.                               *)
(***************************************************************************)
EXTENDS Integers

MaxWord == 65535
Word    == 0 .. MaxWord

\* htons and ntohs on a little-endian build: the argument is cut to 16 bits,
\* the two bytes are swapped.
Htons(n) == LET w == n % 65536 IN (w % 256) * 256 + (w \div 256)

=============================================================================
