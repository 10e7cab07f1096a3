---- MODULE MCOperations ----
EXTENDS Operations, TLC
Cron == <<"core", "core", "assets", "assets", "sync", "audit", "health">>
Alike == Permutations(Procs)
(* What steps and properties can still tell apart: of a receipt, whether it *)
(* loads as ok, pending or with a complaint; of the core snapshots the      *)
(* newest tree, and which of the days a report still accepts have one; no   *)
(* place of the schedule once all starts are used up; not the version of an *)
(* asset tree, nor the receipt the health report writes before it reads it. *)
Rendered == IF \E p \in Procs : At(p, "health", "render") THEN Reported ELSE Reported \ {"topology"}
Told(r) == IF receipts[r] = None THEN "bad" ELSE IF Loaded(r) \in {"ok", "pending"} THEN Loaded(r) ELSE "bad"
Recent == {d \in Day : d + 1 >= day}
Newest == {t \in Tree : \E d \in Published("core") : t <= snapshots["core"][d]}
Fresh == <<outside, latest, Published("core") \cap Recent, Newest, Published("assets"), pointer, tested,
           coreLock, faults,
           [p \in Procs |-> IF proc[p].role = "assets" THEN [proc[p] EXCEPT !.ver = NoTree] ELSE proc[p]],
           auditLater /\ Loaded("sync") = "pending", IF starts = MaxStarts THEN 0 ELSE clock, starts,
           [r \in Rendered |-> Told(r)]>>
====
