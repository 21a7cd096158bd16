--------------------------- MODULE AddressMapping ---------------------------
(***************************************************************************)
(* src/AddressMapping.cpp: the fields of an address are cut off from the   *)
(* right, in the order of the AddressMapping string of the .ini, and some  *)
(* builds then give every requestor a bank of its own.                     *)
(***************************************************************************)
EXTENDS Integers, Sequences, Functions, FiniteSetsExt

CONSTANTS
    format,        (* AddressMapping: a sequence of fields, leftmost first *)
    memTable,      (* the size of each field in the device                 *)
    Addresses,     (* the addresses that requests may have                 *)
    Requestors,    (* the requestors they may come from                    *)
    Privatization, (* "none", "SINGLE_RANK" or "MULTI_RANK" by the build   *)
    Word,          (* unsigned: addresses are cut to Word values, 2^32     *)
    Junk           (* what a field that is not set may hold                *)

(* memOrg.                                                                 *)
QueueFields == {"Rank", "BankGroup", "Bank", "SubArray"}
Fields == QueueFields \cup {"Row", "Column"}

MappingAssumption ==
    /\ format \in Seq(Fields)
    /\ \A i, j \in DOMAIN format : format[i] = format[j] => i = j
    /\ memTable \in [Fields -> Nat \ {0}]
    /\ Addresses \subseteq Nat /\ Requestors \subseteq Nat
    /\ Privatization \in {"none", "SINGLE_RANK", "MULTI_RANK"}
    /\ Word \in Nat \ {0} /\ Junk \in Nat

(* log2: the bits that number n values, counted by halving n and rounded   *)
(* up.                                                                     *)
log2(n) == LET floor == Max({k \in 0 .. n : 2^k <= n})
           IN  IF 2^floor < n THEN floor + 1 ELSE floor

(* What the constructor keeps in decodeIndex.                              *)
bits(i) == log2(memTable[format[i]])

VARIABLES
    request,   (* the request: its address, its requestor and its fields   *)
    index,     (* the loop's index into decodeIndex                        *)
    tempA, tempB

vars == <<request, index, tempA, tempB>>

(* addressMapping is called for a new request, whose constructor sets none *)
(* of the fields.                                                          *)
Init ==
    /\ \E a \in Addresses, r \in Requestors, junk \in {0, Junk} :
           request = [address |-> a, requestorID |-> r,
                      field |-> [f \in Fields |-> junk]]
    /\ index = Len(format)
    /\ tempA = request.address % Word
    /\ tempB = request.address % Word

Clear(n, b) == (n \div 2^b) * 2^b

Mutant_CutField ==
    LET b == bits(index)
        field == tempB - Clear(tempA, b)
    IN
    /\ index > 0
    /\ tempB' = Clear(tempA, b)
    /\ tempA' = tempB'
    /\ index' = index - 1
    /\ request' = [request EXCEPT !.field[format[index]] = field]

(* One turn of the loop: the bits of the field are what clearing them      *)
(* changes.  They are also written to addressMap, past its four entries    *)
(* for the row and the column.                                             *)
CutField ==
    LET b == bits(index)
        field == tempB - Clear(tempA, b)
    IN
    /\ index > 0
    /\ tempB' = Clear(tempA, b) \div 2^b
    /\ tempA' = tempB'
    /\ index' = index - 1
    /\ request' = [request EXCEPT !.field[format[index]] = field]

(* The rank and the bank that the build assigns to the requestor.          *)
Rank(r) == CASE Privatization = "none" -> request.field["Rank"]
             [] Privatization = "SINGLE_RANK" -> 0
             [] Privatization = "MULTI_RANK" -> IF r < 8 THEN r % 3 ELSE 3

Bank(r) == IF Privatization = "none" THEN request.field["Bank"] ELSE r

(* The end of addressMapping.                                             *)
Assign ==
    LET r == request.requestorID IN
    /\ index = 0
    /\ index' = -1
    /\ request' = [request EXCEPT !.field["Rank"] = Rank(r),
                                  !.field["Bank"] = Bank(r)]
    /\ UNCHANGED <<tempA, tempB>>

(* addressMap, by which the queues are found, when addressMapping returns: *)
(* there is only one rank in it.                                           *)
addressMap == [f \in QueueFields |-> IF f = "Rank" THEN 0
                                     ELSE request.field[f]]

Done == index = -1 /\ UNCHANGED vars

Next == CutField \/ Assign \/ Done

Spec == Init /\ [][Next]_vars

-----------------------------------------------------------------------------
(* The shift of field i: the bits of the fields to the right of it.        *)
Shift(i) == FoldFunctionOnSet(+, 0, [j \in DOMAIN format |-> bits(j)],
                              i + 1 .. Len(format))

(* The decoding is the one to one translation that a controller relies on, *)
(* up to the width of the format: put together again, the fields that are  *)
(* not reassigned give the address, cut to its bits.  The loop works by    *)
(* shifts and exclusive or on two copies of the address.                   *)
Reassembled ==
    index = 0 =>
        FoldFunctionOnSet(+, 0,
            [i \in DOMAIN format |-> request.field[format[i]] * 2^Shift(i)],
            DOMAIN format)
        = (request.address % Word) % 2^Shift(0)

(* The fields that this build and this format set.  The others keep what   *)
(* the memory held.                                                        *)
Set == Range(format) \cup
       (IF Privatization = "none" THEN {} ELSE {"Rank", "Bank"})

(* Every field that is set is one that the device has, but for one case:   *)
(* with a privatised build the bank is the number of the requestor, which  *)
(* nothing compares with the number of banks.  Bank and queue of a         *)
(* requestor exist exactly when there are more banks than its number.      *)
InDevice ==
    index = -1 =>
        /\ \A f \in Set \ {"Bank"} : request.field[f] < memTable[f]
        /\ addressMap["Bank"] < memTable["Bank"] <=>
               Privatization = "none" \/ request.requestorID < memTable["Bank"]

=============================================================================
