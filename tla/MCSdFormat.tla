----------------------------- MODULE MCSdFormat -----------------------------
EXTENDS SdFormat
=============================================================================
