--------------------------- MODULE DocumentLedger ---------------------------
(***************************************************************************)
(* What the ingestion pipeline promises of a document, whatever the names, *)
(* sidecars, threads and crashes behind it: where it is, and that it only  *)
(* moves along  absent -> incoming -> processed | failed,  failed ->       *)
(* incoming by a re-queue, and out of incoming when another document takes *)
(* its place.  Nothing leaves processed or overwritten.                    *)
(***************************************************************************)
EXTENDS FiniteSets, Naturals

CONSTANT Versions

VARIABLE place

Places == {"absent", "incoming", "processed", "failed", "overwritten"}

TypeOK == place \in [Versions -> Places]

Init == place = [v \in Versions |-> "absent"]

(* v is uploaded or re-queued; it may stand in the place of one other.     *)
Arrive(v) ==
  /\ place[v] \in {"absent", "failed"}
  /\ \E displaced \in SUBSET {w \in Versions : place[w] = "incoming"} :
       /\ \A w1, w2 \in displaced : w1 = w2
       /\ place' = [w \in Versions |-> IF w = v THEN "incoming"
                                       ELSE IF w \in displaced THEN "overwritten"
                                       ELSE place[w]]

Archive(v) ==
  /\ place[v] = "incoming"
  /\ place' = [place EXCEPT ![v] = "processed"]

Quarantine(v) ==
  /\ place[v] = "incoming"
  /\ place' = [place EXCEPT ![v] = "failed"]

Next == \E v \in Versions : Arrive(v) \/ Archive(v) \/ Quarantine(v)

SafeSpec == Init /\ [][Next]_place

(* What has arrived is decided, unless it is overwritten first.            *)
Spec == SafeSpec /\ \A v \in Versions : WF_place(Archive(v) \/ Quarantine(v))

=============================================================================
