---------------------------- MODULE MCPacketRing ----------------------------
EXTENDS PacketRing
=============================================================================
