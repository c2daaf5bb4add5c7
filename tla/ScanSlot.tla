------------------------------ MODULE ScanSlot ------------------------------
(***************************************************************************)
(* What recovery.Engine promises about its single scan slot, with every    *)
(* detail of scanning left out: at most one scan owns the slot, and a call *)
(* of Stop that finds a scan returns only when that scan is over, whether  *)
(* or not another one owns the slot by then.                               *)
(* ScanEngine is shown to implement it.                                    *)
(***************************************************************************)

CONSTANTS Scans, Stoppers, None

VARIABLES
  owner,    \* the scan that holds the slot, or None
  latest,   \* the scan that held it last: Stop looks no further back
  status,   \* how far each scan has come
  awaited   \* the scan each call of Stop waits for, or None

vars == <<owner, latest, status, awaited>>

Statuses == {"new", "running", "leaving", "over", "refused"}

TypeOK ==
  /\ owner \in Scans \cup {None}
  /\ latest \in Scans \cup {None}
  /\ status \in [Scans -> Statuses]
  /\ awaited \in [Stoppers -> Scans \cup {None}]

Init ==
  /\ owner = None /\ latest = None
  /\ status = [s \in Scans |-> "new"]
  /\ awaited = [t \in Stoppers |-> None]

Claim(s) ==
  /\ owner = None /\ status[s] = "new"
  /\ owner' = s /\ latest' = s
  /\ status' = [status EXCEPT ![s] = "running"]
  /\ UNCHANGED awaited

(* A scan that cannot open its device, or finds the slot taken, never runs. *)
Refuse(s) ==
  /\ status[s] = "new"
  /\ status' = [status EXCEPT ![s] = "refused"]
  /\ UNCHANGED <<owner, latest, awaited>>

Release(s) ==
  /\ owner = s
  /\ owner' = None
  /\ status' = [status EXCEPT ![s] = "leaving"]
  /\ UNCHANGED <<latest, awaited>>

End(s) ==
  /\ status[s] = "leaving"
  /\ status' = [status EXCEPT ![s] = "over"]
  /\ UNCHANGED <<owner, latest, awaited>>

(* Stop waits for the scan that holds the slot, or held it last.            *)
Await(t) ==
  /\ awaited[t] = None /\ latest # None
  /\ awaited' = [awaited EXCEPT ![t] = latest]
  /\ UNCHANGED <<owner, latest, status>>

Return(t) ==
  /\ awaited[t] # None
  /\ status[awaited[t]] = "over"
  /\ awaited' = [awaited EXCEPT ![t] = None]
  /\ UNCHANGED <<owner, latest, status>>

Next ==
  \/ \E s \in Scans : Claim(s) \/ Refuse(s) \/ Release(s) \/ End(s)
  \/ \E t \in Stoppers : Await(t) \/ Return(t)

Spec == Init /\ [][Next]_vars
=============================================================================
