-------------------------- MODULE MCWalletRestore --------------------------
(* WalletRestore with three users, who between them can outlast timeout(1).*)
EXTENDS WalletRestore, TLC

Home(tpm, soft, bus, ring, six, five) ==
  [tpm |-> tpm, soft |-> soft, bus |-> bus, ring |-> ring,
   wallet |-> "kwalletd6" :> six @@ "kwalletd5" :> five]

(* A plain user, one whose TPM holds an older password than the blob, one  *)
(* whose blob cannot be read, one with two wallets, one with no seal.      *)
SomeHomes ==
  {Home(None, 1, TRUE, 1, 0, 0), Home(1, 2, TRUE, 2, 2, 1), Home(None, 0, TRUE, 1, 0, 0),
   Home(2, None, TRUE, 0, 1, 2), Home(None, None, TRUE, 1, 1, 0)}

ThreeNames == <<"ada", "bob", "cyd">>
=============================================================================
