--------------------------- MODULE MCFlashWriter ---------------------------
EXTENDS FlashWriter
=============================================================================
