---------------------------- MODULE MCImporter ----------------------------
(* Instances of Importer for TLC.                                          *)
EXTENDS Importer, TLC

CONSTANTS c1, c2, w1, w2, k1, k2

UpdateAliasMember == <<"existing", "free", "member">>
=============================================================================
