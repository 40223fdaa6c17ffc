---------------------------- MODULE MCSftpLogin ----------------------------
(* The instance of SftpLogin: three logins at the same time. *)
EXTENDS SftpLogin, TLC

CONSTANTS c1, c2, c3

ThreeLogins == {c1, c2, c3}

Interchangeable == Permutations(ThreeLogins)
=============================================================================
