----------------------------- MODULE MC_DTS6012M -----------------------------
EXTENDS DTS6012M

\* every frame the simulator can send: a plain distance, a distance or a
\* CRC containing the header value, and out of range
AllKinds == {"near", "a5dist", "a5crc", "out"}
LineOnly == {"line"}
LineAndReset == {"line", "reset"}
=============================================================================
