--------------------------- MODULE MCWalletLedger ---------------------------
EXTENDS WalletLedger
MCAmount == {-1, 0, 1}
=============================================================================
