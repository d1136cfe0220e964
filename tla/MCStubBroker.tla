---------------------------- MODULE MCStubBroker ----------------------------
(* A test with a few jobs, for TLC.                                        *)
EXTENDS StubBroker
=============================================================================
