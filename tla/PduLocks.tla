------------------------------ MODULE PduLocks ------------------------------
(***************************************************************************)
(* Physical units of the topology and the blueprints that lock them.  A     *)
(* lock is recorded twice: locked_by in the topology's PDU and locked_pdus  *)
(* in the blueprint's provider data, and the two are saved one after the    *)
(* other.  Blueprints run in different workers; the test of the lock, its   *)
(* setting and each save are steps of their own.                            *)
(***************************************************************************)
EXTENDS Naturals

CONSTANTS Blueprint, Pdu,
          Nobody,      \* locked_by of a PDU nobody locked
          MaxStops     \* bound: stops of the process

ASSUME PduAssumption == Nobody \notin Blueprint /\ MaxStops \in Nat

VARIABLES status,                \* whether the PDU is in the topology
          lockedBy, lockedByDb,  \* locked_by in memory and in the database
          held, heldDb,          \* locked_pdus of each blueprint, likewise
          pc, pdu,               \* what the blueprint's worker does, to which PDU
          lost,                  \* history: locks a stop has left without a holder
          stops

pduVars == <<status, lockedBy, lockedByDb, held, heldDb, pc, pdu, lost, stops>>

Steps == {"code", "set", "update", "save", "cleanup", "gone"}

\* Every variable keeps the shape PduModel and PDUProviderData give it.
TypeOK ==
    /\ status \in [Pdu -> {"new", "listed", "deleted"}]
    /\ lockedBy \in [Pdu -> Blueprint \cup {Nobody}]
    /\ lockedByDb \in [Pdu -> Blueprint \cup {Nobody}]
    /\ held \in [Blueprint -> SUBSET Pdu] /\ heldDb \in [Blueprint -> SUBSET Pdu]
    /\ pc \in [Blueprint -> Steps] /\ pdu \in [Blueprint -> Pdu]
    /\ lost \subseteq Blueprint \X Pdu /\ stops \in 0..MaxStops

Init ==
    /\ status = [p \in Pdu |-> "new"]
    /\ lockedBy = [p \in Pdu |-> Nobody] /\ lockedByDb = lockedBy
    /\ held = [b \in Blueprint |-> {}] /\ heldDb = held
    /\ pc = [b \in Blueprint |-> "code"] /\ pdu \in [Blueprint -> Pdu]
    /\ lost = {} /\ stops = 0

Moves(b, from, to) == pc[b] = from /\ pc' = [pc EXCEPT ![b] = to]
TopologyKept == UNCHANGED <<status, lockedBy, lockedByDb>>
DataKept == UNCHANGED <<held, heldDb>>
Runs == UNCHANGED <<lost, stops>>
-----------------------------------------------------------------------------
CreatePdu(p) ==
    /\ status[p] = "new" /\ status' = [status EXCEPT ![p] = "listed"]
    /\ lockedByDb' = lockedBy
    /\ UNCHANGED <<lockedBy, pc, pdu>> /\ DataKept /\ Runs

DeletePdu(p) ==
    /\ status[p] = "listed" /\ lockedBy[p] = Nobody
    /\ status' = [status EXCEPT ![p] = "deleted"] /\ lockedByDb' = lockedBy
    /\ UNCHANGED <<lockedBy, pc, pdu>> /\ DataKept /\ Runs

(* Any other change of the topology saves the whole of it.                  *)
SaveTopology ==
    /\ lockedByDb' = lockedBy /\ UNCHANGED <<status, lockedBy, pc, pdu>> /\ DataKept /\ Runs

(* lock_pdu finds the PDU free; then it sets the lock, saves the topology,  *)
(* saves the provider data.                                                 *)
CheckFree(b, p) ==
    /\ status[p] = "listed" /\ lockedBy[p] = Nobody
    /\ Moves(b, "code", "set") /\ pdu' = [pdu EXCEPT ![b] = p]
    /\ TopologyKept /\ DataKept /\ Runs

LockPdu(b) ==
    /\ Moves(b, "set", "update")
    /\ lockedBy' = [lockedBy EXCEPT ![pdu[b]] = b]
    /\ held' = [held EXCEPT ![b] = @ \cup {pdu[b]}]
    /\ UNCHANGED <<status, lockedByDb, heldDb, pdu>> /\ Runs

(* update_pdu: a PDU that left the topology is an error.                    *)
UpdatePdu(b) ==
    /\ \/ status[pdu[b]] = "listed" /\ Moves(b, "update", "save") /\ lockedByDb' = lockedBy
       \/ status[pdu[b]] # "listed" /\ Moves(b, "update", "code") /\ UNCHANGED lockedByDb
    /\ UNCHANGED <<status, lockedBy, pdu>> /\ DataKept /\ Runs

SaveToDb(b) ==
    /\ Moves(b, "save", "code") /\ heldDb' = [heldDb EXCEPT ![b] = held[b]]
    /\ UNCHANGED <<held, pdu>> /\ TopologyKept /\ Runs

(* unlock_pdu, in day-2 code; another blueprint's lock is an error.         *)
UnlockPdu(b, p) ==
    /\ status[p] = "listed" /\ lockedBy[p] = b /\ p \in held[b]
    /\ Moves(b, "code", "update") /\ pdu' = [pdu EXCEPT ![b] = p]
    /\ lockedBy' = [lockedBy EXCEPT ![p] = Nobody]
    /\ held' = [held EXCEPT ![b] = @ \ {p}]
    /\ UNCHANGED <<status, lockedByDb, heldDb>> /\ Runs

(* final_cleanup: every recorded PDU; one that another blueprint holds, or  *)
(* that is gone, is skipped and stays recorded.                             *)
Delete(b) == Moves(b, "code", "cleanup") /\ UNCHANGED pdu /\ TopologyKept /\ DataKept /\ Runs

Releasable(b) == {p \in held[b] : status[p] = "listed" /\ lockedBy[p] = b}

ReleaseOne(b) ==
    /\ pc[b] = "cleanup"
    /\ \E p \in Releasable(b) :
         /\ lockedBy' = [lockedBy EXCEPT ![p] = Nobody]
         /\ held' = [held EXCEPT ![b] = @ \ {p}]
    /\ lockedByDb' = lockedBy' /\ heldDb' = [heldDb EXCEPT ![b] = held'[b]]
    /\ UNCHANGED <<status, pc, pdu>> /\ Runs

LeaveEarly(b) ==           \* mutant: the first error ends the cleanup
    /\ \/ Releasable(b) = {} \/ held[b] # Releasable(b)
    /\ Moves(b, "cleanup", "gone") /\ heldDb' = [heldDb EXCEPT ![b] = held[b]]
    /\ UNCHANGED <<held, pdu>> /\ TopologyKept /\ Runs

FinishCleanup(b) ==
    /\ Releasable(b) = {}
    /\ Moves(b, "cleanup", "gone") /\ heldDb' = [heldDb EXCEPT ![b] = held[b]]
    /\ UNCHANGED <<held, pdu>> /\ TopologyKept /\ Runs

(* What the database holds is what the next process knows: a lock that only *)
(* the topology's document has, or whose owner is gone, stays for ever.     *)
Unrecorded == {l \in Blueprint \X Pdu :
                 lockedByDb[l[2]] = l[1] /\ (l[2] \notin heldDb[l[1]] \/ pc[l[1]] = "gone")}

Restart ==
    /\ stops < MaxStops /\ stops' = stops + 1
    /\ lockedBy' = lockedByDb /\ held' = heldDb
    /\ lost' = lost \cup Unrecorded
    /\ pc' = [b \in Blueprint |-> IF pc[b] = "gone" THEN "gone" ELSE "code"]
    /\ UNCHANGED <<status, lockedByDb, heldDb, pdu>>

WorkerStep(b) == LockPdu(b) \/ UpdatePdu(b) \/ SaveToDb(b) \/ Delete(b) \/ ReleaseOne(b) \/ FinishCleanup(b)
Next ==
    \/ \E p \in Pdu : CreatePdu(p) \/ DeletePdu(p)
    \/ \E b \in Blueprint, p \in Pdu : CheckFree(b, p) \/ UnlockPdu(b, p)
    \/ \E b \in Blueprint : WorkerStep(b)
    \/ SaveTopology \/ Restart
Spec == Init /\ [][Next]_pduVars
-----------------------------------------------------------------------------
Doing(b, p) == pc[b] \in {"update", "save"} /\ pdu[b] = p

\* A lock in the topology, in memory as in the database, is known to the
\* blueprint that has it, so that its cleanup releases it, unless a stop fell
\* after the topology was saved and before the provider data was.
LocksRecorded ==
    \A p \in Pdu, b \in Blueprint : status[p] = "listed" /\ <<b, p>> \notin lost =>
        /\ lockedBy[p] = b => p \in held[b]
        /\ lockedByDb[p] = b => p \in heldDb[b] \/ Doing(b, p)

\* A blueprint that is gone has no lock left on a PDU of the topology.
GoneReleased ==
    \A p \in Pdu, b \in Blueprint :
        pc[b] = "gone" /\ status[p] = "listed" => lockedBy[p] # b \/ <<b, p>> \in lost

\* Both: the lock of a PDU follows the blueprint that holds it, to its end.
LocksFollow == LocksRecorded /\ GoneReleased
=============================================================================
