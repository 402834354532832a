------------------------------ MODULE JobLedger ------------------------------
(***************************************************************************)
(* What the publish store promises its clients, without statements,        *)
(* processes or crashes.  A ledger entry is recorded at most once per key, *)
(* a relay is contacted only for an entry that is recorded and not         *)
(* settled, and an entry is settled exactly once.                          *)
(***************************************************************************)
CONSTANTS
  Calls,     \* what may be recorded
  Keys,      \* idempotency keys
  NoKey,     \* the key of an entry recorded without one
  Final      \* statuses of a settled entry

VARIABLES
  ledger,    \* status of each entry
  keyOf,     \* key of each recorded entry
  contacted  \* entries for which some relay has been contacted

ledgerVars == <<ledger, keyOf, contacted>>

LedgerInit ==
  /\ ledger = [c \in Calls |-> "Absent"]
  /\ keyOf = [c \in Calls |-> NoKey]
  /\ contacted = {}

Record(c, k) ==
  /\ ledger[c] = "Absent"
  /\ k # NoKey => \A d \in Calls : ledger[d] = "Absent" \/ keyOf[d] # k
  /\ ledger' = [ledger EXCEPT ![c] = "Publishing"]
  /\ keyOf' = [keyOf EXCEPT ![c] = k]
  /\ UNCHANGED contacted

Contact(c) ==
  /\ ledger[c] = "Publishing"
  /\ contacted' = contacted \cup {c}
  /\ UNCHANGED <<ledger, keyOf>>

Settle(c, s) ==
  /\ ledger[c] = "Publishing"
  /\ ledger' = [ledger EXCEPT ![c] = s]
  /\ UNCHANGED <<keyOf, contacted>>

LedgerNext ==
  \E c \in Calls :
    \/ \E k \in Keys \cup {NoKey} : Record(c, k)
    \/ Contact(c)
    \/ \E s \in Final : Settle(c, s)

LedgerSpec == LedgerInit /\ [][LedgerNext]_ledgerVars
=============================================================================
