--------------------------- MODULE MC_ScommReader ---------------------------
(* Frames for the reader model, one per packet type, each with a one-byte  *)
(* payload (9, not a packet type) so that header, length field and        *)
(* payload all matter.  Noise is a byte no scan accepts.                  *)
EXTENDS ScommReader

EvtFrame == <<4, 14, 1, 9>>        \* event: code, len, 1 param
AclFrame == <<2, 1, 0, 1, 0, 9>>   \* ACL: handle(2), len(2), data
ScoFrame == <<3, 1, 0, 1, 9>>      \* SCO: handle(2), len(1), data
IsoFrame == <<5, 1, 0, 1, 0, 9>>   \* ISO: handle(2), len(2), data
LogFrame == <<7, 0, 1, 0, 9>>      \* vendor log: code, len(2), data

AllTypes   == {EvtFrame, AclFrame, ScoFrame, IsoFrame, LogFrame}
Scanned    == {EvtFrame, AclFrame, ScoFrame, LogFrame}
NoNoise    == {}
ZeroNoise  == {0}
=============================================================================
