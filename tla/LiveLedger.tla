---------------------------- MODULE LiveLedger ----------------------------
(***************************************************************************)
(* What the live schedule promises its clients: a ledger of accepted       *)
(* execution operations.  An operation is accepted once, against the head   *)
(* its client named, and makes a new head; importing a baseline also makes  *)
(* a new head; a client is only ever told what the ledger holds.  Locks,    *)
(* transactions, retries and failures do not exist at this level.           *)
(***************************************************************************)
EXTENDS Integers, Sequences

CONSTANTS Clients, OpIds, Facts

VARIABLES ledger, head, told

ledgerVars == <<ledger, head, told>>

Used == {ledger[i].opid : i \in DOMAIN ledger}

Init == ledger = <<>> /\ head = 0 /\ told = {}

Accept(opid, actor, fact) ==
    /\ head # 0 /\ opid \notin Used
    /\ head' > head
    /\ ledger' = Append(ledger,
           [opid |-> opid, result |-> head',
            payload |-> [actor |-> actor, expected |-> head, fact |-> fact]])
    /\ UNCHANGED told

Rebase == head' > head /\ UNCHANGED <<ledger, told>>

Tell(i) ==
    /\ told' = told \union
           {[opid |-> ledger[i].opid, sequence |-> i, result |-> ledger[i].result]}
    /\ UNCHANGED <<ledger, head>>

Next ==
    \/ \E opid \in OpIds, actor \in Clients, fact \in Facts : Accept(opid, actor, fact)
    \/ Rebase
    \/ \E i \in DOMAIN ledger : Tell(i)

Spec == Init /\ [][Next]_ledgerVars
=============================================================================
