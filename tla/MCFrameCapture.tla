--------------------------- MODULE MCFrameCapture ---------------------------
EXTENDS FrameCapture
=============================================================================
