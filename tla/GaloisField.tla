---------------------------- MODULE GaloisField ----------------------------
(***************************************************************************)
(* The scalar arithmetic of the repair code (fec.rs): bytes are elements   *)
(* of GF(2^8), added by XOR and multiplied modulo a polynomial.  The width *)
(* and the polynomial are constants: the program has 8 and 29.             *)
(***************************************************************************)
EXTENDS Integers, Bitwise

CONSTANTS Width, Reduction

Elements == 0 .. 2 ^ Width - 1

\* What a left shift of a byte leaves, reduced when a bit is carried out of it.
Double(left) ==
    LET shifted == (2 * left) % 2 ^ Width
    IN  IF left >= 2 ^ (Width - 1) THEN shifted ^^ Reduction ELSE shifted

\* The product, by the bits of right: doubled[bit] is left after that many shifts.
multiply(left, right) ==
    LET doubled[bit \in 0 .. Width] == IF bit = 0 THEN left ELSE Double(doubled[bit - 1])
        output[bit \in 0 .. Width] ==
            IF bit = 0 THEN 0
            ELSE IF (right \div 2 ^ (bit - 1)) % 2 = 1 THEN output[bit - 1] ^^ doubled[bit - 1]
                                                     ELSE output[bit - 1]
    IN  output[Width]

\* The operations of the field, as tables.
Product == [p \in Elements \X Elements |-> multiply(p[1], p[2])]
Plus == [p \in Elements \X Elements |-> p[1] ^^ p[2]]

\* value to the power 2^Width - 2, whose bits but the lowest are all set.
inverse(value) ==
    LET base[bit \in 0 .. Width] == IF bit = 0 THEN value ELSE Product[base[bit - 1], base[bit - 1]]
        output[bit \in 1 .. Width] ==
            IF bit = 1 THEN 1 ELSE Product[output[bit - 1], base[bit - 1]]
    IN  output[Width]

Reciprocal == [value \in Elements \ {0} |-> inverse(value)]

\* inverse divides: without it no row can be scaled to its pivot.
ASSUME FieldAssumption == \A value \in Elements \ {0} : Product[value, Reciprocal[value]] = 1
=============================================================================
