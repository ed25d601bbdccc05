----------------------------- MODULE Identifiers -----------------------------
(***************************************************************************)
(* The identifiers staff type and the checks that catch a slip: Emirates   *)
(* IDs (Luhn), VINs (mod 11), IBANs (mod 97), and mobile numbers in any of *)
(* the forms people write them.                                            *)
(*                                                                         *)
(* A value is the sequence of its characters, separators dropped: 0..9 for *)
(* a digit, 10..35 for a letter.                                           *)
(***************************************************************************)
EXTENDS Integers, FiniteSets, SequencesExt

Digit == 0..9
Zeros(n) == [i \in 1..n |-> 0]
DigitAt(n, power) == (n \div power) % 10

(* String(n) for a number of seven digits. *)
SevenDigits(n) ==
  <<DigitAt(n, 1000000), DigitAt(n, 100000), DigitAt(n, 10000), DigitAt(n, 1000),
    DigitAt(n, 100), DigitAt(n, 10), DigitAt(n, 1)>>

-----------------------------------------------------------------------------
(* Emirates ID: 784, a year, seven digits, a Luhn digit. *)

(* Mutant: doubled digits are not folded back to one. *)
DoubledUnfolded(d) == 2 * d

Doubled(d) == IF 2 * d > 9 THEN 2 * d - 9 ELSE 2 * d

(* Every other digit is doubled, the rightmost first. *)
LuhnCheckDigit(digits) ==
  LET Term(i) == IF (Len(digits) - i) % 2 = 0 THEN Doubled(digits[i]) ELSE digits[i]
      sum == SumFunction([i \in DOMAIN digits |-> Term(i)])
  IN (10 - (sum % 10)) % 10

IsValidEmiratesId(id) ==
  /\ Len(id) = 15 /\ \A i \in 1..15 : id[i] \in Digit
  /\ SubSeq(id, 1, 3) = <<7, 8, 4>>
  /\ LuhnCheckDigit(SubSeq(id, 1, 14)) = id[15]

(* The golden dataset's. *)
EmiratesId(index, year) ==
  LET body == <<7, 8, 4>> \o <<1, 9, DigitAt(year, 10), DigitAt(year, 1)>>
              \o SevenDigits(1000000 + ((index * 7919) % 8999999))
  IN Append(body, LuhnCheckDigit(body))

-----------------------------------------------------------------------------
(* Mobile numbers, stored as the nine digits after +971. *)

MobilePrefixes == {<<5, n>> : n \in {0, 2, 4, 5, 6, 8}}
NotAMobile == <<>>

(* `typed` are the digits, a leading plus sign dropped. *)
NormaliseUaeMobile(typed) ==
  LET national == CASE IsPrefix(<<9, 7, 1>>, typed) -> SubSeq(typed, 4, Len(typed))
                    [] IsPrefix(<<0>>, typed) -> Tail(typed)
                    [] OTHER -> typed
  IN IF Len(national) = 9 /\ SubSeq(national, 1, 2) \in MobilePrefixes
     THEN <<9, 7, 1>> \o national ELSE NotAMobile

MobileNumber(index) ==
  LET digit == <<0, 2, 4, 5, 6, 8>>[(index % 6) + 1]
  IN <<9, 7, 1, 5, digit>> \o SevenDigits(1000000 + ((index * 6131) % 8999999))

-----------------------------------------------------------------------------
(* VIN: seventeen characters, the ninth a check over the others. *)

VinLetters == (10..35) \ {18, 24, 26}  \* no I, O or Q

VinValue(c) ==
  IF c \in Digit THEN c ELSE IF c <= 17 THEN c - 9 ELSE IF c <= 27 THEN c - 18 ELSE c - 26

VinWeights == <<8, 7, 6, 5, 4, 3, 2, 10, 0, 9, 8, 7, 6, 5, 4, 3, 2>>

(* A remainder of ten is written X. *)
VinCheckCharacter(vin) ==
  LET sum == SumFunction([i \in 1..17 |-> VinValue(vin[i]) * VinWeights[i]])
  IN IF sum % 11 = 10 THEN 33 ELSE sum % 11

IsValidVin(vin) ==
  /\ Len(vin) = 17 /\ \A i \in 1..17 : vin[i] \in Digit \cup VinLetters
  /\ vin[9] = VinCheckCharacter(vin)

(* The golden dataset's: any characters, the check filled in after. *)
Vin(body) == [body EXCEPT ![9] = VinCheckCharacter([body EXCEPT ![9] = 0])]

-----------------------------------------------------------------------------
(* IBAN: AE, two check digits, nineteen digits; `iban` starts at the check.*)

Mod97(digits) == FoldLeft(LAMBDA left, d : (left * 10 + d) % 97, 0, digits)

(* A letter counts as two digits; the country goes to the end. *)
Country == <<1, 0, 1, 4>>

IbanCheckDigits(bban) ==
  LET check == 98 - Mod97(bban \o Country \o <<0, 0>>) IN <<check \div 10, check % 10>>

IsValidIban(iban) ==
  /\ Len(iban) = 21 /\ \A i \in 1..21 : iban[i] \in Digit
  /\ Mod97(SubSeq(iban, 3, 21) \o Country \o SubSeq(iban, 1, 2)) = 1

Iban(index) ==
  LET bank == 33 + (index % 60)
      bban == <<0, bank \div 10, bank % 10, 1>> \o Zeros(8) \o SevenDigits(index * 7919)
  IN IbanCheckDigits(bban) \o bban

-----------------------------------------------------------------------------

Retyped(s, i, c) == [s EXCEPT ![i] = c]
Swapped(s, i) == [s EXCEPT ![i] = s[i + 1], ![i + 1] = s[i]]

(* "A typo in an Emirates ID or an IBAN is worth catching at the point of  *)
(* entry": one digit wrong is refused, and so are two neighbours swapped,  *)
(* but for a 0 and a 9 under Luhn.  What the dataset mints is accepted.    *)
EmiratesIdCatchesSlips(index, year) ==
  LET id == EmiratesId(index, year) IN
  /\ IsValidEmiratesId(id)
  /\ \A i \in 1..15, d \in Digit : d # id[i] => ~IsValidEmiratesId(Retyped(id, i, d))
  /\ \A i \in 1..14 :
       id[i] # id[i + 1] /\ {id[i], id[i + 1]} # {0, 9} => ~IsValidEmiratesId(Swapped(id, i))

IbanCatchesSlips(index) ==
  LET iban == Iban(index) IN
  /\ IsValidIban(iban)
  /\ \A i \in 1..21, d \in Digit : d # iban[i] => ~IsValidIban(Retyped(iban, i, d))
  /\ \A i \in 1..20 : iban[i] # iban[i + 1] => ~IsValidIban(Swapped(iban, i))

(* A VIN's check sees a character as the value it has, which up to three   *)
(* letters and a digit share; its own place has no weight.                 *)
VinCatchesSlips(body) ==
  LET vin == Vin(body) IN
  /\ IsValidVin(vin)
  /\ \A i \in (1..17) \ {9}, c \in Digit \cup VinLetters :
       VinValue(c) # VinValue(vin[i]) => ~IsValidVin(Retyped(vin, i, c))
  /\ \A i \in (1..16) \ {8, 9} :
       VinValue(vin[i]) # VinValue(vin[i + 1]) => ~IsValidVin(Swapped(vin, i))

(* "The same person look[s] like three": every form of a number is stored  *)
(* as one, which is itself a form of it.                                   *)
MobileIsOne(index) ==
  LET stored == MobileNumber(index)
      national == SubSeq(stored, 4, 12)
  IN \A typed \in {stored, national, <<0>> \o national} : NormaliseUaeMobile(typed) = stored
=============================================================================
