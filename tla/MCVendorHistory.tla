--------------------------- MODULE MCVendorHistory ---------------------------
(***************************************************************************)
(* Small instances of VendorHistory: one vendor whose name two invoices    *)
(* spell differently, an invoice submitted with two amounts, and two       *)
(* awards to a vendor that invoices name as well.                          *)
(***************************************************************************)
EXTENDS VendorHistory

MCSpelling == [n \in {"Acme", "ACME", "Bolt"} |-> IF n = "Bolt" THEN "bolt" ELSE "acme"]

MCPayments ==
    {[key |-> "k1", name |-> "Acme", amount |-> 1],
     [key |-> "k1", name |-> "Bolt", amount |-> 2],
     [key |-> "k2", name |-> "ACME", amount |-> 1],
     [key |-> "k3", name |-> "Acme", amount |-> 3]}

MCAwards ==
    <<[award |-> "a1", name |-> "ACME", amount |-> 5],
      [award |-> "a2", name |-> "ACME", amount |-> 6]>>
=============================================================================
