---------------------------- MODULE MCVaultStore ----------------------------
(* Instances of VaultStore for TLC. *)
EXTENDS VaultStore, TLC

CONSTANTS s1, s2, p1, p2

MCSessions == {s1, s2}
MCPasswords == {p1, p2}
MCOnePassword == {p1}
SessionSymmetry == Permutations(MCSessions)

ContentOps == {"edit", "restore", "create", "crash"}
AccessOps == {"edit", "password", "kit", "revoke", "usb", "recover",
              "bio"}
BiometricOps == {"edit", "password", "kit", "bio"}
=============================================================================
