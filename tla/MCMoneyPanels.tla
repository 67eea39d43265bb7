---------------------------- MODULE MCMoneyPanels ----------------------------
(* Small instances of MoneyPanels.                                         *)
EXTENDS MoneyPanels

=============================================================================
