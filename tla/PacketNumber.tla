---------------------------- MODULE PacketNumber ----------------------------
(***************************************************************************)
(* The CCMP packet number _ccmpTxPn: PnLen digits (6 bytes in the code),   *)
(* least significant first, incremented in place with carry.               *)
(***************************************************************************)
EXTENDS Integers

CONSTANTS PnBase,   \* values of a digit (256)
          PnLen     \* digits (6)

ASSUME PnAssumption == PnBase \in Nat \ {0, 1} /\ PnLen \in Nat \ {0}

Pn     == [1..PnLen -> 0..PnBase-1]
ZeroPn == [i \in 1..PnLen |-> 0]

\* Mutant: digits that do not wrap.
PnIncWide(p) == [p EXCEPT ![1] = @ + 1]

\* Mutant: the loop breaks on a digit that became 0 instead of carrying on.
PnIncNoCarry(p) == [p EXCEPT ![1] = (@ + 1) % PnBase]

\* Digit i is incremented when every digit below it has just become 0.
PnInc(p) ==
    [i \in 1..PnLen |-> IF \A k \in 1..(i-1) : p[k] = PnBase - 1
                        THEN (p[i] + 1) % PnBase ELSE p[i]]

\* The last number; after it the code starts again from 0.
PnExhausted(p) == \A i \in 1..PnLen : p[i] = PnBase - 1

\* As numbers, p is less than q: what a receiver's replay check compares.
PnLess(p, q) ==
    \E i \in 1..PnLen : p[i] < q[i] /\ \A k \in (i+1)..PnLen : p[k] = q[k]

=============================================================================
