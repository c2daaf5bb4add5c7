----------------------------- MODULE MCRecovery -----------------------------
EXTENDS Recovery, TLC
\* j and n are one picture found twice; t is named like the temporary file of x;
\* r is resident or compressed.
CONSTANTS d1, d2, j, n, t, x, p, r, a, b, c
Kinds5 == j :> "carver" @@ n :> "ntfs" @@ t :> "exfat" @@ p :> "apfs" @@ r :> "ntfs"
\* x is a FAT file beside t and an exFAT file without it.
MCKind == [f \in FileID |-> IF f # x THEN Kinds5[f] ELSE IF t \in FileID THEN "fat" ELSE "exfat"]
MCDir == [f \in FileID |-> IF f \in {t, x} THEN "docs" ELSE "pictures"]
MCName == [f \in FileID |->
             [base |-> IF f \in {t, x} THEN b ELSE IF f \in {p, r} THEN c ELSE a,
              tmps |-> IF f = t THEN 1 ELSE 0]]
MCContent == [d \in Drive |->
               [f \in FileID |-> IF d = d1 /\ f \in {j, n} THEN "picture" ELSE ToString(f)]]
MCBatches == {FileID}
MCRequests == {{j, n}, {x, r}, {t, p} \intersect FileID}
MCFragmented == {x}
MCDoubtful == {x}
=============================================================================
