------------------------------- MODULE ProgAddr -------------------------------
(***************************************************************************)
(* Program addresses of the AjarDSP core.  Instruction memory is W words   *)
(* of 64 bits; the program counter counts 16-bit halfwords and wraps.      *)
(***************************************************************************)
EXTENDS Integers

CONSTANT W    \* 64-bit words of instruction memory (2^14 in the RTL)

(* Bit 2 of the program counter must tell neighbouring words apart.        *)
ASSUME WAssumption == W \in Nat /\ W >= 2 /\ W % 2 = 0

Addr == 0 .. 4 * W - 1     \* pc: 16 bits in the RTL
WordAddr == 0 .. W - 1     \* fetch_address: pc[15:2]

NoWord == -1               \* a queue register before its first load
NoJump == -1               \* no redirection is pending

WordOf(a) == a \div 4
Offset(a) == a % 4

(* Mutant of NextWord: a fetch address that does not wrap.                 *)
NextWordUnwrapped(w) == w + 1

(* Address arithmetic wraps at the register width.                         *)
Plus(a, n) == IF a + n < 4 * W THEN a + n ELSE a + n - 4 * W
NextWord(w) == IF w + 1 < W THEN w + 1 ELSE 0

(* Halfword j of a 64-bit word, named by its program address.              *)
Half(w, j) == IF w = NoWord THEN NoWord ELSE 4 * w + j

(* A bundle is at most four halfwords: 0 for a packet vliwdec rejects.     *)
Lengths == 0 .. 4
BundleAt(a) == [i \in 0 .. 3 |-> Plus(a, i)]
Bubble == [i \in 0 .. 3 |-> NoWord]
=============================================================================
