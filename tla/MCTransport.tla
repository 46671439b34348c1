---------------------------- MODULE MCTransport ----------------------------
EXTENDS Transport

MCSlices == <<{<<2>>}, {<<0, 1>>}>>
=============================================================================
