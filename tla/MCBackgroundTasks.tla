-------------------------- MODULE MCBackgroundTasks --------------------------
EXTENDS BackgroundTasks
CONSTANTS t1, t2, t3, c1, c2, dump, multi, pull, nas
MCPolicy == [k \in {dump, multi, pull, nas} |->
               CASE k = dump -> "refuse" [] k = multi -> "replace"
                 [] k = pull -> "overwrite" [] k = nas -> "late"]
=============================================================================
