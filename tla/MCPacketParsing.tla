---------------------------- MODULE MCPacketParsing ----------------------------
(* Lengths on both sides of each test, a client hello without and with room  *)
(* for a name of no bytes or of two, and length fields that are small, end a *)
(* structure or run past the packet.                                         *)
EXTENDS PacketParsing

MCLength == {13, 14, 33, 34, 41, 42, 43, 53, 54, 62, 100, 114, 118}
MCNibble == {0, 4, 5, 6}
MCOctet == {0, 1, 2, 63, 64}
MCShort == {0, 2, 5, 7, 300}
=============================================================================
