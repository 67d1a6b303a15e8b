------------------------------- MODULE Money -------------------------------
(***************************************************************************)
(* Amounts of money (shared-types/currency.ts): typed in as decimals, kept *)
(* as integers of the currency's minor unit, shown as decimals again, and  *)
(* converted at a rate.  A decimal is its digits before and after the      *)
(* point; digits, not characters, are what the code computes with.         *)
(***************************************************************************)
EXTENDS Integers, Sequences, SequencesExt

CONSTANTS
  Digits,      \* the digits that are typed
  Exponents,   \* the numbers of decimals that currencies have
  Rates,       \* rates of exchange: numerator and denominator
  MaxWhole     \* bound: digits before the point (the sheet takes 7)

ASSUME MoneyAssumption ==
  /\ Digits \subseteq 0..9 /\ Exponents \subseteq 0..4
  /\ \A r \in Rates : r.num \in Nat \ {0} /\ r.den \in Nat \ {0}
  /\ MaxWhole \in Nat

VARIABLES
  figure,   \* what is typed: the digits before the point, those after it
  point     \* whether there is a point

moneyVars == <<figure, point>>

Figures == [whole : Seq(Digits), frac : Seq(Digits)]

Number(digits) == FoldLeft(LAMBDA n, d : 10 * n + d, 0, digits)
Padded(digits, n) == IF Len(digits) >= n THEN digits ELSE digits \o [i \in 1 .. n - Len(digits) |-> 0]

\* Variant: what is beyond the decimals is cut off.
ToMinorCut(f, exp) == Number(f.whole \o SubSeq(Padded(f.frac, exp + 1), 1, exp))

\* toMinor: the digit after the last that is kept tells how to round.
ToMinor(f, exp) ==
  LET padded == Padded(f.frac, exp + 1)
      minor == Number(f.whole \o SubSeq(padded, 1, exp))
  IN IF padded[exp + 1] >= 5 THEN minor + 1 ELSE minor

\* The digits of a number, at least n of them.
DigitsOf(minor, n) ==
  LET length == CHOOSE k \in 1..17 : 10 ^ k > minor /\ (k = 1 \/ 10 ^ (k - 1) <= minor)
      k == IF length > n THEN length ELSE n
  IN [i \in 1..k |-> (minor \div 10 ^ (k - i)) % 10]

\* toDecimalString, of an amount that is not negative
ToDecimal(minor, exp) ==
  LET digits == DigitsOf(minor, exp + 1) IN
  [whole |-> SubSeq(digits, 1, Len(digits) - exp),
   frac |-> SubSeq(digits, Len(digits) - exp + 1, Len(digits))]

\* Variant: what is beyond the minor unit is cut off.
ConvertMinorDown(minor, from, to, rate) ==
  (minor * rate.num * 10 ^ to) \div (rate.den * 10 ^ from)

\* convertMinor, of an amount that is not negative.  (The code's float is taken as exact.)
ConvertMinor(minor, from, to, rate) ==
  LET num == minor * rate.num * 10 ^ to
      den == rate.den * 10 ^ from
  IN (2 * num + den) \div (2 * den)

-----------------------------------------------------------------------------
(* The amount of the sheet (AddSheet.tsx, sanitise). *)

MoneyInit == figure = [whole |-> <<>>, frac |-> <<>>] /\ point = FALSE

\* Variant: decimals are taken without end.
TypeDigitOn(d) ==
  /\ IF point THEN figure' = [figure EXCEPT !.frac = Append(@, d)]
     ELSE Len(figure.whole) < MaxWhole /\ figure' = [figure EXCEPT !.whole = Append(@, d)]
  /\ UNCHANGED point

\* Two decimals at most, whatever the currency.
TypeDigit(d) ==
  /\ IF point THEN Len(figure.frac) < 2 /\ figure' = [figure EXCEPT !.frac = Append(@, d)]
     ELSE Len(figure.whole) < MaxWhole /\ figure' = [figure EXCEPT !.whole = Append(@, d)]
  /\ UNCHANGED point

TypePoint == ~ point /\ point' = TRUE /\ UNCHANGED figure

Backspace ==
  IF ~ point THEN figure.whole # <<>> /\ figure' = [figure EXCEPT !.whole = Front(@)] /\ UNCHANGED point
  ELSE IF figure.frac = <<>> THEN point' = FALSE /\ UNCHANGED figure
  ELSE figure' = [figure EXCEPT !.frac = Front(@)] /\ UNCHANGED point

\* Variant: with the last zero the decimals are dropped.
RefilledDrop(minor) ==
  LET f == ToDecimal(minor, 2) IN IF f.frac[2] = 0 THEN [f EXCEPT !.frac = <<>>] ELSE f

\* Editing an amount of two decimals fills the box with it; ".00" is dropped.
Refilled(minor) ==
  LET f == ToDecimal(minor, 2) IN IF f.frac = <<0, 0>> THEN [f EXCEPT !.frac = <<>>] ELSE f

MoneyNext == (\E d \in Digits : TypeDigit(d)) \/ TypePoint \/ Backspace

MoneySpec == MoneyInit /\ [][MoneyNext]_moneyVars

-----------------------------------------------------------------------------
(* Properties. *)

\* Types: what was typed is digits, within the bounds of the sheet.
MoneyTypeOK ==
  /\ figure.whole \in Seq(Digits) /\ figure.frac \in Seq(Digits) /\ point \in BOOLEAN
  /\ ~ point => figure.frac = <<>>
  /\ Len(figure.whole) <= MaxWhole /\ Len(figure.frac) <= 2

\* The figure, in units of the last digit that is typed.
Units(f) == Number(f.whole \o f.frac)

\* toMinor rounds to the nearest minor unit, a half up, in every currency
\* (currency.ts:53-63): no penny is lost to the digits.
ToMinorIsNearest ==
  figure.whole # <<>> => \A exp \in Exponents :
    LET minor == ToMinor(figure, exp) * 10 ^ Len(figure.frac)
        exact == Units(figure) * 10 ^ exp
        half == 10 ^ Len(figure.frac)
    IN 2 * (minor - exact) <= half /\ 2 * (exact - minor) < half

\* What is shown of an amount reads as the same amount again, in every currency, and in the
\* sheet in a currency of two decimals.
ShownReadsBack ==
  figure.whole # <<>> => \A exp \in Exponents :
    LET minor == ToMinor(figure, exp) IN
      /\ ToMinor(ToDecimal(minor, exp), exp) = minor
      /\ exp = 2 => ToMinor(Refilled(minor), 2) = minor

\* Converting there and back at a rate and its inverse is off by the rounding of the coarser
\* currency at most.
ConvertsBack ==
  figure.whole # <<>> => \A from, to \in Exponents : \A r \in Rates :
    LET minor == ToMinor(figure, from)
        there == ConvertMinor(minor, from, to, r)
        back == ConvertMinor(there, to, from, [num |-> r.den, den |-> r.num])
        \* half a unit of the target, in units of the source
        half == (r.den * 10 ^ from) \div (2 * r.num * 10 ^ to) + 1
    IN back - minor \in -half .. half

\* An amount keeps its value on its way from the keys to the database, to the screen and
\* into another currency.
AmountsKeepTheirValue == ToMinorIsNearest /\ ShownReadsBack /\ ConvertsBack
=============================================================================
