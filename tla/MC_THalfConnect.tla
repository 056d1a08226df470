-------------------------- MODULE MC_THalfConnect --------------------------
EXTENDS THalfConnect

\* Addresses whose bytes make the checksum carry out of 16 bits.
MCSrcAddr == <<192, 168, 1, 200>>
MCDstAddr == <<10, 255, 0, 7>>
==============================================================================
