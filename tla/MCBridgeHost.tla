---------------------------- MODULE MCBridgeHost ----------------------------
(* Small instances of BridgeHost for TLC.                                  *)
EXTENDS BridgeHost

CONSTANT t1

OneSender  == {t1}
NoneAndTwo == {0, 2}
=============================================================================
