-------------------------------- MODULE Words --------------------------------
(***************************************************************************)
(* The numbers of a torrent file: int, to which toValue and the parser     *)
(* cast, and unsigned long long, to which the decoder converts.            *)
(***************************************************************************)
EXTENDS Integers

CONSTANTS
    IntWord,     \* 2^32: int goes from -IntWord/2 to IntWord/2 - 1
    LongWord     \* 2^64

ASSUME WordAssumption ==
    /\ IntWord \in Nat /\ LongWord \in Nat
    /\ 2 <= IntWord /\ IntWord % 2 = 0 /\ IntWord <= LongWord

IntRange == -(IntWord \div 2) .. IntWord \div 2 - 1

(* Conversion to int, and of what follows an i to unsigned long long.      *)
ToInt(n) == ((n + IntWord \div 2) % IntWord) - IntWord \div 2
ToUnsigned(n) == n % LongWord
==============================================================================
