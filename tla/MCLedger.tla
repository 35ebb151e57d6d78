------------------------------ MODULE MCLedger ------------------------------
(***************************************************************************)
(* Two producers that append to one database, and certificates of ledgers  *)
(* of up to five receipts with two kinds of events.                        *)
(***************************************************************************)
EXTENDS LedgerStore, TLC

\* Two producers with batches that share an event, and one ID for two events.
MCEvents == {"a", "b", "b2"}
MCIdOf == [a |-> 1, b |-> 2, b2 |-> 2]
MCTimeOf == [a |-> 5, b |-> 4, b2 |-> 5]
MCBatches == {<<"a">>, <<"b", "a">>, <<"b2">>}

VARIABLES
    system,     \* which component this behaviour is of
    ledger, retained, proof, member, accepted, honest

proofs == <<ledger, retained, proof, member, accepted, honest>>

Proofs == INSTANCE MerkleProofs WITH
    Events <- {1, 2}, EventBase <- 3, MaxEntries <- 5, MaxPath <- 4, MaxSiblings <- 3

ASSUME LedgerAssumption /\ Proofs!MerkleAssumption

LedgerInit ==
    /\ system \in {"proofs", "store"}
    /\ Init /\ Proofs!Init
    /\ system = "proofs" => file = <<>>

\* Events 1 and 2 are alike: what the verifier retains begins with event 1.
Alike == retained = <<>> \/ retained[1] = 1

\* The components share nothing: a behaviour is one of a single component, beside
\* the initial state of the other.
LedgerNext ==
    \/ system = "proofs" /\ Proofs!Next /\ Alike' /\ UNCHANGED <<system, vars>>
    \/ system = "store" /\ Next /\ UNCHANGED <<system, proofs>>

allVars == <<system, vars, proofs>>

LedgerSpec == LedgerInit /\ [][LedgerNext]_allVars

-----------------------------------------------------------------------------
\* What verifies of the growth of a ledger and of its receipts is so, whoever edited the
\* proof, and every honest proof verifies (consistency.py, membership.py).
CertificatesSound ==
    system = "proofs" =>
        Proofs!TypeOK /\ Proofs!ExtensionsAreReal /\ Proofs!ReceiptsAreReal /\ Proofs!ProofsVerify
=============================================================================
