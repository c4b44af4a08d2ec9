----------------------------- MODULE AmountText ------------------------------
(***************************************************************************)
(* The amount field of the wallet's forms (sessions-sdk-react): the amount *)
(* of a transfer ("send"), with a Max button, or the limit of a session    *)
(* ("limits").  Typed text is parsed by stringToAmount and written into    *)
(* the intent by the SDK's amountToString; the program parses it again     *)
(* from the signed message (module SignedMessage).  The Max button and the *)
(* limit that is offered are written with the form's own amountToString.   *)
(***************************************************************************)
EXTENDS Integers, Sequences, SequencesExt

CONSTANTS
  Chars,         \* characters the user types
  MaxLen,        \* bound: length of the text
  AllDecimals,   \* decimals of the token
  Balances,      \* the balance (balance - fee may be below 0), or the limit offered
  MaxU64         \* bound: the largest number of 64 bits

Digits == {"0", "1", "2", "3", "4", "5", "6", "7", "8", "9"}

ASSUME AmountTextAssumption ==
  /\ Chars \subseteq Digits \cup {"-", "."}
  /\ MaxLen \in Nat
  /\ AllDecimals \subseteq Nat
  /\ Balances \subseteq Int
  /\ MaxU64 \in Nat

VARIABLES form, decimals, max, text,
          requested   \* the amount submitted, and its text in the intent

field == <<form, decimals, max, text, requested>>

-----------------------------------------------------------------------------
(* Numbers and their decimal digits *)

Numeral == <<"0", "1", "2", "3", "4", "5", "6", "7", "8", "9">>
ValueOf == [c \in Digits |-> (CHOOSE i \in 1 .. 10 : Numeral[i] = c) - 1]
Number(s) == FoldLeft(LAMBDA n, c : 10 * n + ValueOf[c], 0, s)

DigitsOf[n \in Nat] ==
  IF n < 10 THEN <<Numeral[n + 1]>> ELSE Append(DigitsOf[n \div 10], Numeral[(n % 10) + 1])

PowerOf10[n \in Nat] == IF n = 0 THEN 1 ELSE 10 * PowerOf10[n - 1]

(* BigInt.prototype.toString *)
toString(n) == IF n < 0 THEN <<"-">> \o DigitsOf[-n] ELSE DigitsOf[n]

AllDigits(s) == Range(s) \subseteq Digits

(* BigInt(s): no value for a SyntaxError; the empty string is 0. *)
BigInt(s) ==
  IF AllDigits(s) THEN {Number(s)}
  ELSE IF s[1] = "-" /\ Len(s) > 1 /\ AllDigits(Tail(s)) THEN {- Number(Tail(s))}
  ELSE {}

Zeros(n) == [i \in 1 .. n |-> "0"]
padEnd(s, n) == s \o Zeros(IF Len(s) < n THEN n - Len(s) ELSE 0)
padStart(s, n) == Zeros(IF Len(s) < n THEN n - Len(s) ELSE 0) \o s

(* What is before and after the first ".". *)
Dots(s) == {i \in 1 .. Len(s) : s[i] = "."}
Whole(s) == IF Dots(s) = {} THEN s ELSE SubSeq(s, 1, (CHOOSE i \in Dots(s) : TRUE) - 1)
Fraction(s) == IF Dots(s) = {} THEN <<>> ELSE SubSeq(s, (CHOOSE i \in Dots(s) : TRUE) + 1, Len(s))

-----------------------------------------------------------------------------
(* The form *)

(* stringToAmount: no value where the code throws. *)
stringToAmount(s, d) ==
  IF \/ \E i, j \in Dots(s) : i # j
     \/ Len(Fraction(s)) > d
  THEN {}
  ELSE {n * PowerOf10[d] + f : n \in {k \in BigInt(Whole(s)) : k >= 0},
                               f \in BigInt(padEnd(Fraction(s), d))}

(* Mutant: the fraction is not padded on the left. *)
UnpaddedText(amount, d) ==
  LET s       == toString(amount)
      whole   == IF Len(s) > d THEN SubSeq(s, 1, Len(s) - d) ELSE <<"0">>
      decimal == IF Len(s) > d THEN SubSeq(s, Len(s) - d + 1, Len(s)) ELSE s
      kept    == SelectLastInSeq(decimal, LAMBDA c : c # "0")
  IN IF kept = 0 THEN whole ELSE whole \o <<".">> \o SubSeq(decimal, 1, kept)

(* amountToString: the digits split before the decimals, the fraction       *)
(* padded on the left and without its trailing zeros.                       *)
amountToString(amount, d) ==
  LET s       == toString(amount)
      whole   == IF Len(s) > d THEN SubSeq(s, 1, Len(s) - d) ELSE <<"0">>
      decimal == padStart(IF Len(s) > d THEN SubSeq(s, Len(s) - d + 1, Len(s)) ELSE s, d)
      kept    == SelectLastInSeq(decimal, LAMBDA c : c # "0")
  IN IF kept = 0 THEN whole ELSE whole \o <<".">> \o SubSeq(decimal, 1, kept)

(* The SDK has its own copy of amountToString, which writes the intent. *)
SdkAmountToString(amount, d) == amountToString(amount, d)

(* useTokenAmountInput's validate, the amounts that pass: a transfer has gt *)
(* = 0 and max and is required, a limit has min = 0 and may be empty.       *)
validate(s) ==
  {a \in stringToAmount(s, decimals) :
     IF form = "send" THEN s # <<>> /\ a > 0 /\ a <= max ELSE a >= 0}

-----------------------------------------------------------------------------
(* The program: try_ui_amount_into_amount of the Solana library on the text *)
(* of the message.  It drops trailing zeros of the fraction first, which    *)
(* the SDK never writes; a number of more than 64 bits is an error (the     *)
(* program's AmountConversionFailed).                                       *)
TryUiAmountIntoAmount(s, d) ==
  IF /\ AllDigits(Whole(s)) /\ AllDigits(Fraction(s))
     /\ Whole(s) \o Fraction(s) # <<>>
     /\ Len(Fraction(s)) <= d
  THEN {Number(Whole(s) \o padEnd(Fraction(s), d))} \cap 0 .. MaxU64
  ELSE {}

-----------------------------------------------------------------------------
NotSubmitted == [amount |-> 0, text |-> <<>>]

(* A balance has 64 bits; the limit that is offered is whatever the         *)
(* application asks for, and the field has no maximum.                      *)
AmountInit ==
  /\ decimals \in AllDecimals
  /\ max \in Balances
  /\ \/ form = "send" /\ max <= MaxU64 /\ text = <<>>
     \/ form = "limits" /\ max >= 0 /\ text = amountToString(max, decimals)
  /\ requested = NotSubmitted

(* While a submission is under way the field and its buttons are disabled. *)
Type(c) ==
  /\ requested = NotSubmitted
  /\ Len(text) < MaxLen
  /\ text' = Append(text, c)
  /\ UNCHANGED <<form, decimals, max, requested>>

Erase ==
  /\ requested = NotSubmitted
  /\ text # <<>>
  /\ text' = Front(text)
  /\ UNCHANGED <<form, decimals, max, requested>>

(* "Max": the field is set to the text of the whole balance. *)
PressMax ==
  /\ form = "send"
  /\ requested = NotSubmitted
  /\ text' = amountToString(max, decimals)
  /\ UNCHANGED <<form, decimals, max, requested>>

(* A form that validates is submitted: the intent holds the amount's text. *)
Submit ==
  /\ requested = NotSubmitted
  /\ \E a \in validate(text) :
        requested' = [amount |-> a, text |-> SdkAmountToString(a, decimals)]
  /\ UNCHANGED <<form, decimals, max, text>>

-----------------------------------------------------------------------------
(* Properties *)

(* The amount the user submitted survives both conversions: the text of the *)
(* intent (the SDK's amountToString) gives the program exactly that amount, *)
(* or an error when it has more than 64 bits, never another amount; no      *)
(* transfer is refused for that reason (a session limit may be: the form    *)
(* puts no bound on it); and the text that Max writes, or that a limit is   *)
(* offered with, is read back by stringToAmount as that amount.             *)
AmountReadBack ==
  /\ requested # NotSubmitted =>
       /\ TryUiAmountIntoAmount(requested.text, decimals) = {requested.amount} \cap 0 .. MaxU64
       /\ form = "send" => requested.amount \in 0 .. MaxU64
  /\ max >= 0 => stringToAmount(amountToString(max, decimals), decimals) = {max}

(* "Amount cannot be negative" (stringToAmount): no text with a minus sign  *)
(* is taken for an amount that can be sent.                                 *)
NegativeRefused == form = "send" /\ "-" \in Range(text) => validate(text) = {}
=============================================================================
