---------------------------- MODULE TypedAmounts ----------------------------
(***************************************************************************)
(* The accounts of a wallet, and the amounts a user types.  A text stands  *)
(* for the number it reads as, in base units; the two other texts are the  *)
(* empty one and all those that are no number.                             *)
(***************************************************************************)
EXTENDS Naturals

CONSTANTS Accounts,
          NoAccount,
          Purse,         \* by account: the FXRP it holds
          Typed,         \* the numbers a user types
          NoText,
          NotANumber,
          Null

ASSUME AmountAssumption ==
    /\ NoAccount \notin Accounts
    /\ Purse \in [Accounts -> Nat]
    /\ Typed \subseteq Nat

Texts == Typed \cup {NoText, NotANumber}

\* "returning null rather than throwing or coercing"
ParseAmount(text, empty) ==
    CASE text = NoText -> empty
      [] text = NotANumber -> Null
      [] OTHER -> text
=============================================================================
