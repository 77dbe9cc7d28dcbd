-------------------------------- MODULE Bits --------------------------------
(***************************************************************************)
(* One-wire signals.  A std_logic that the design only toggles or compares *)
(* is a member of Bit.  Metavalues do not occur: a register without a      *)
(* reset value starts as an arbitrary Bit.                                 *)
(***************************************************************************)
EXTENDS Integers

Bit == {0, 1}

\* "not b"
Flip(b) == 1 - b

\* "a xor b"
Xor(a, b) == IF a = b THEN 0 ELSE 1
=============================================================================
