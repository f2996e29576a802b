-------------------------------- MODULE MCFec --------------------------------
(* A small instance of Fec for TLC. *)
EXTENDS Fec, Bitwise

\* x^3 + x + 1
MCPp == <<1, 1, 0, 1>>

\* FecPrimitive for the constants of the program: with the bits of its Pp,
\* "101110001", the 255 powers are the 255 elements.
ASSUME
  LET powers[i \in 0..254] ==
        IF i = 0 THEN 1
        ELSE LET x == powers[i - 1]
             IN IF x < 128 THEN 2 * x ELSE 29 ^^ (2 * (x - 128))
  IN {powers[i] : i \in 0..254} = 1..255

=============================================================================
