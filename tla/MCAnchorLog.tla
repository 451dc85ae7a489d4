----------------------------- MODULE MCAnchorLog -----------------------------
EXTENDS AnchorLog

CONSTANTS d1, d2

MCDevices == {d1, d2}
=============================================================================
