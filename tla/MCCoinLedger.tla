---------------------------- MODULE MCCoinLedger ----------------------------
(***************************************************************************)
(* CoinLedger for TLC: three calls on one or two wallets.                  *)
(***************************************************************************)
EXTENDS CoinLedger

CONSTANTS Credit, Debit     \* the magnitudes of the posts that are made

MCAmounts == {Credit, -Debit}
=============================================================================
