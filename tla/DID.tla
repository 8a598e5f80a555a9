-------------------------------- MODULE DID --------------------------------
(***************************************************************************)
(* The decentralized identifier of an account (DID.cpp), amendment         *)
(* fixEmptyDID enabled.  Each of the three fields is absent or has a       *)
(* value; a transaction leaves a field out, empties it or sets it.         *)
(***************************************************************************)
EXTENDS AccountRoot

CONSTANTS Funds, Values

Fields == {"URI", "DIDDocument", "Data"}
Absent == "absent"          \* not in the transaction, or not in the entry
Empty == "empty"
Requests == [Fields -> Values \cup {Absent, Empty}]

VARIABLES did, exists, balance, owners, directory
vars == <<did, exists, balance, owners, directory>>

None == [f \in Fields |-> Absent]
IsEmpty(d) == \A f \in Fields : d[f] = Absent

TypeOK ==
    /\ did \in [Fields -> Values \cup {Absent}]
    /\ exists \in BOOLEAN /\ balance \in 0 .. Funds /\ owners \in Nat

Init ==
    /\ did = None /\ exists = FALSE /\ directory = FALSE
    /\ balance = Funds /\ owners = 0

Preflight(tx) ==
    /\ \E f \in Fields : tx[f] # Absent
    /\ \E f \in Fields : tx[f] # Empty

\* An empty field removes, an absent one keeps.
Updated(tx) ==
    [f \in Fields |-> IF tx[f] = Absent THEN did[f] ELSE IF tx[f] = Empty THEN Absent ELSE tx[f]]

AddSLE(new) == balance >= AccountReserve(owners + 1) /\ ~IsEmpty(new)

DIDSet(tx) ==
    /\ Preflight(tx)
    /\ IF exists THEN ~IsEmpty(Updated(tx)) ELSE AddSLE(Updated(tx))
    /\ did' = Updated(tx) /\ exists' = TRUE /\ directory' = TRUE
    /\ owners' = IF exists THEN owners ELSE ConfineOwnerCount(owners, 1)
    /\ UNCHANGED balance

DIDDelete ==
    /\ exists
    /\ did' = None /\ exists' = FALSE /\ directory' = FALSE
    /\ owners' = ConfineOwnerCount(owners, -1)
    /\ UNCHANGED balance

\* Other transactions of the account spend and own.
Others ==
    /\ XrpLiquid(balance, owners) > 0 /\ balance' = balance - 1
    /\ UNCHANGED <<did, exists, owners, directory>>

Next == DIDDelete \/ Others \/ \E tx \in Requests : DIDSet(tx)
Spec == Init /\ [][Next]_vars
-----------------------------------------------------------------------------
\* No sequence of sets, partial updates, removals and deletions leaves an
\* entry without a field, or a field without an entry; and the owner pays for
\* the entry exactly while it exists.
NeverEmpty ==
    /\ exists <=> ~IsEmpty(did)
    /\ exists = directory /\ owners = IF exists THEN 1 ELSE 0
=============================================================================
