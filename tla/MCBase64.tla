------------------------------ MODULE MCBase64 ------------------------------
(***************************************************************************)
(* The bytes of "Hello, World!", which tests/test_xmpp_sasl_scram.c        *)
(* encodes and decodes.                                                    *)
(***************************************************************************)
EXTENDS Base64

TestInputs == {<<72, 101, 108, 108, 111, 44, 32, 87, 111, 114, 108, 100, 33>>}

=============================================================================
