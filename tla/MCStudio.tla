------------------------------ MODULE MCStudio ------------------------------
(* "A" is "a" in another, properly checksummed case, "aX" in a case whose     *)
(* checksum is wrong; "0" is the zero address.                                *)
EXTENDS Studio

MCWellFormed == {"a", "A", "aX", "b", "c", "0"}
MCEncodable == MCWellFormed \ {"aX"}
MCLower == [t \in MCWellFormed |-> IF t \in {"A", "aX"} THEN "a" ELSE t]
MCRecipients == <<[address |-> "a", shareBps |-> 6000, label |-> "name"],
                  [address |-> "b", shareBps |-> 4000, label |-> "name"]>>
MCAddressTexts == {Empty, "0", "A", "aX", "c"}
MCDurations == {[value |-> 1, unit |-> "days"], [value |-> 45, unit |-> "days"],
                [value |-> 12, unit |-> "months"], [value |-> 2, unit |-> "years"]}
=============================================================================
