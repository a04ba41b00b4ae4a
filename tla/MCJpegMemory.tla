---------------------------- MODULE MCJpegMemory -----------------------------
EXTENDS JpegMemory

MCFirstSlop == [PERMANENT |-> 1, IMAGE |-> 4]
MCExtraSlop == [PERMANENT |-> 0, IMAGE |-> 1]
==============================================================================
