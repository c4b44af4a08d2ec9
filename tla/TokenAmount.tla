----------------------------- MODULE TokenAmount -----------------------------
(***************************************************************************)
(* Token names and decimal amounts as a signed message writes them, shared *)
(* by the session manager and the intent transfer program.                 *)
(***************************************************************************)
EXTENDS Integers

CONSTANTS
    Mints,          \* SPL token mints
    Designators,    \* how a message names a token: a mint address or a symbol
    Denotes,        \* Denotes[t]: the mints the programs accept for t
    Decimals,       \* Decimals[m]: decimals of mint m
    MaxDecimals,    \* bound: largest number of decimals of a mint
    U64Max          \* bound: the largest token amount

(***************************************************************************)
(* A decimal number, held as mantissa / 10^scale (1.50 is                  *)
(* [mantissa |-> 15, scale |-> 1]: the library drops trailing zeros of the *)
(* fraction).                                                              *)
(***************************************************************************)
UiTokenAmount == [mantissa : Nat, scale : Nat]

(***************************************************************************)
(* UiTokenAmount::into_amount_internal: a fraction longer than the mint's  *)
(* decimals, or an amount that does not fit, is AmountConversionFailed.    *)
(***************************************************************************)
IntoAmountInternal(ui, m) == ui.mantissa * 10^(Decimals[m] - ui.scale)

AmountConverts(ui, m) == /\ ui.scale <= Decimals[m]
                         /\ IntoAmountInternal(ui, m) <= U64Max

ASSUME TokensAssumption ==
    /\ Denotes \in [Designators -> SUBSET Mints]
    /\ MaxDecimals \in Nat
    /\ Decimals \in [Mints -> 0 .. MaxDecimals]
    /\ U64Max \in Nat
    /\ \A d \in 0 .. MaxDecimals : 10^d \in Nat
=============================================================================
