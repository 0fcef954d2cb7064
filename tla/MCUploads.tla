----------------------------- MODULE MCUploads -----------------------------
EXTENDS Uploads

CONSTANTS c1, c2

TwoSlots == {c1, c2}
=============================================================================
