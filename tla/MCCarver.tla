------------------------------ MODULE MCCarver ------------------------------
EXTENDS Carver
CONSTANTS w1, w2
\* The first header lies across the border of the two chunks, two lie in their overlap,
\* two signatures match at 6, of which one is no file; both end with the device.
MCHeaders == {[at |-> a[1], len |-> a[2], sig |-> a[3]] :
                a \in {<<3, 2, "png">>, <<4, 1, "gif">>, <<5, 1, "midi">>,
                       <<6, 1, "riff">>, <<6, 1, "pdf">>}}
MCFileSize == [h \in MCHeaders |-> IF h.sig = "riff" THEN 0 ELSE IF h.sig = "pdf" THEN 9 ELSE 2]
=============================================================================
