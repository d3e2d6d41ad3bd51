-------------------------------- MODULE MCWallet --------------------------------
(***************************************************************************)
(* A small wallet: pages of two entries, so that it needs several pages    *)
(* and grows by one while they are read.                                   *)
(***************************************************************************)
EXTENDS WalletImport, TLC

CONSTANTS i1, i2

================================================================================
