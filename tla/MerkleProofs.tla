----------------------------- MODULE MerkleProofs -----------------------------
(***************************************************************************)
(* Commitments to a ledger (membership.py) and the detached proofs under   *)
(* them: that a receipt is in the ledger (membership.py) and that one      *)
(* committed ledger extends another (consistency.py).  A verifier retains  *)
(* the commitment of a ledger; the ledger is appended to, or rewritten by  *)
(* its keeper; proofs are made, and may be edited on their way.            *)
(*                                                                         *)
(* Hashing is injective: the digest of a leaf is its receipt, the digest   *)
(* of a node is the tree below it in prefix notation (0, left, right), and *)
(* a chain digest is the sequence of events it commits to, as a number in  *)
(* base EventBase.  Genesis is 1.  One proof is in transit at a time.      *)
(***************************************************************************)
EXTENDS Integers, Sequences, SequencesExt

CONSTANTS
    Events,         \* the events of receipts: numbers below EventBase
    EventBase,
    MaxEntries,     \* MAX_LEDGER_ENTRIES
    MaxPath,        \* _MAX_PATH
    MaxSiblings     \* _MAX_SIBLINGS

MerkleAssumption == Events \subseteq 0..(EventBase - 1) /\ MaxEntries \in Nat

VARIABLES
    ledger,     \* the events of the ledger
    retained,   \* the events of the ledger whose commitment the verifier retained
    proof,      \* the consistency path in transit, or <<>>
    member,     \* the membership proof in transit: [sequence, event, previous, siblings]
    accepted,   \* what the verifier accepted: "nothing", "extension" or "receipt"
    honest      \* history: nobody edited the proof in transit

vars == <<ledger, retained, proof, member, accepted, honest>>

-----------------------------------------------------------------------------
(***************************************************************************)
(* Receipts, trees and commitments.                                        *)
(***************************************************************************)
\* The chain digest after these events.
ChainDigest(events) == FoldLeft(LAMBDA d, e : d * EventBase + e, 1, events)

\* Mutant: the link to the previous receipt is not hashed.
LeafHashUnlinked(sequence, previous, event) == <<10 * event + sequence>>

\* _leaf_hash of the receipt at `sequence`: a receipt is determined by these.
LeafHash(sequence, previous, event) == <<1000 * previous + 10 * event + sequence>>

NodeHash(left, right) == <<0>> \o left \o right

LeafOf(events, i) == LeafHash(i - 1, ChainDigest(SubSeq(events, 1, i - 1)), events[i])

\* Mutant: the first receipt alone goes to the left.
SplitFirst(count) == 1

\* 1 << ((count - 1).bit_length() - 1): the largest power of two below count.
Split(count) == CHOOSE s \in {2^k : k \in 0..count} : s < count /\ count <= 2 * s

\* The digest of the tree over count receipts from the first on: _build.
RECURSIVE Build(_, _, _)
Build(events, first, count) ==
    IF count = 1 THEN LeafOf(events, first)
    ELSE NodeHash(Build(events, first, Split(count)),
                  Build(events, first + Split(count), count - Split(count)))

EmptyRoot == <<-1>>

Root(events) == IF events = <<>> THEN EmptyRoot ELSE Build(events, 1, Len(events))

\* LedgerCommitment; its digest is all of it.
Commitment(events) ==
    [head |-> ChainDigest(events), count |-> Len(events), root |-> Root(events)]

-----------------------------------------------------------------------------
(***************************************************************************)
(* Consistency.                                                            *)
(***************************************************************************)
\* _headers
HeadersAgree(old, new) ==
    old.count <= new.count /\ (old.count = new.count => old = new)

RECURSIVE PathSize(_, _, _)
PathSize(old, new, known) ==
    IF old = 0 THEN 0
    ELSE IF old = new THEN (IF known THEN 0 ELSE 1)
    ELSE 1 + IF old <= Split(new) THEN PathSize(old, Split(new), known)
             ELSE PathSize(old - Split(new), new - Split(new), FALSE)

\* The checks of the constructor of LedgerConsistencyProof.
WellFormed(old, new, path) ==
    /\ HeadersAgree(old, new)
    /\ Len(path) <= MaxPath /\ Len(path) = PathSize(old.count, new.count, TRUE)

\* _subproof of the tree over `size` receipts from the first on.
RECURSIVE Subproof(_, _, _, _, _)
Subproof(events, first, size, count, known) ==
    IF count = size THEN IF known THEN <<>> ELSE <<Build(events, first, size)>>
    ELSE LET s == Split(size)
         IN  IF count <= s
             THEN Append(Subproof(events, first, s, count, known),
                         Build(events, first + s, size - s))
             ELSE Append(Subproof(events, first + s, size - s, count - s, FALSE),
                         Build(events, first, s))

\* prove_ledger_consistency compares the head and the root of the prefix first.
ProvesConsistency(events, old) ==
    /\ HeadersAgree(old, Commitment(events))
    /\ old.count > 0 => Commitment(SubSeq(events, 1, old.count)) = old

ConsistencyPath(events, old) ==
    IF old.count = 0 THEN <<>> ELSE Subproof(events, 1, Len(events), old.count, TRUE)

\* _recover: the old and the new root, and the hashes that are left.
RECURSIVE Recover(_, _, _, _, _)
Recover(old, new, known, oldRoot, hashes) ==
    IF old = new
    THEN IF known THEN [before |-> oldRoot, after |-> oldRoot, rest |-> hashes]
         ELSE [before |-> Head(hashes), after |-> Head(hashes), rest |-> Tail(hashes)]
    ELSE LET s == Split(new)
             left == old <= s
             sub == IF left THEN Recover(old, s, known, oldRoot, hashes)
                    ELSE Recover(old - s, new - s, FALSE, oldRoot, hashes)
             sibling == Head(sub.rest)
         IN  [before |-> IF left THEN sub.before ELSE NodeHash(sibling, sub.before),
              after |-> IF left THEN NodeHash(sub.after, sibling) ELSE NodeHash(sibling, sub.after),
              rest |-> Tail(sub.rest)]

\* Mutant: only the new root is compared.
RootsMatchNew(recovered, old, new) == recovered.after = new.root /\ recovered.rest = <<>>

RootsMatch(recovered, old, new) ==
    recovered.before = old.root /\ recovered.after = new.root /\ recovered.rest = <<>>

\* verify_ledger_consistency; the anchors are the two retained digests.
VerifiesConsistency(old, new, path) ==
    /\ WellFormed(old, new, path)
    /\ old.count \notin {0, new.count} =>
           RootsMatch(Recover(old.count, new.count, TRUE, old.root, path), old, new)

-----------------------------------------------------------------------------
(***************************************************************************)
(* Membership.                                                             *)
(***************************************************************************)
\* _route: bottom-up, TRUE where the sibling goes on the left.
RECURSIVE Route(_, _)
Route(position, count) ==
    IF count = 1 THEN <<>>
    ELSE LET s == Split(count)
         IN  IF position >= s THEN Append(Route(position - s, count - s), TRUE)
             ELSE Append(Route(position, s), FALSE)

\* LedgerProofIndex._member walks down the tree.
RECURSIVE Siblings(_, _, _, _)
Siblings(events, first, size, offset) ==
    IF size = 1 THEN <<>>
    ELSE LET s == Split(size)
         IN  IF offset < s
             THEN Append(Siblings(events, first, s, offset), Build(events, first + s, size - s))
             ELSE Append(Siblings(events, first + s, size - s, offset - s), Build(events, first, s))

MemberProof(events, sequence) ==
    [sequence |-> sequence, event |-> events[sequence + 1],
     previous |-> ChainDigest(SubSeq(events, 1, sequence)),
     siblings |-> Siblings(events, 1, Len(events), sequence)]

\* Mutant: a sibling always goes on the right.
FoldRouteRight(route, siblings, leaf) ==
    FoldLeft(LAMBDA d, k : NodeHash(d, siblings[k]), leaf, [k \in DOMAIN route |-> k])

\* The root that a leaf and its siblings make.
FoldRoute(route, siblings, leaf) ==
    FoldLeft(LAMBDA d, k : IF route[k] THEN NodeHash(siblings[k], d) ELSE NodeHash(d, siblings[k]),
             leaf, [k \in DOMAIN route |-> k])

\* The receipt fits genesis and the committed head, where it meets them.
ChainEndsFit(m, header) ==
    /\ m.sequence = 0 => m.previous = 1
    /\ m.sequence = header.count - 1 => m.previous * EventBase + m.event = header.head

\* verify_ledger_membership of a bundle of one member.
VerifiesMembership(header, m) ==
    /\ m.sequence \in 0..(header.count - 1)
    /\ Len(m.siblings) <= MaxSiblings
    /\ LET route == Route(m.sequence, header.count)
       IN  /\ Len(m.siblings) = Len(route)
           /\ ChainEndsFit(m, header)
           /\ FoldRoute(route, m.siblings, LeafHash(m.sequence, m.previous, m.event)) = header.root

-----------------------------------------------------------------------------
NoMember == [sequence |-> 0, event |-> 0, previous |-> 0, siblings |-> <<>>]

Init ==
    /\ ledger = <<>> /\ retained = <<>>
    /\ proof = <<>> /\ member = NoMember
    /\ accepted = "nothing" /\ honest = TRUE

\* Nothing is in transit: the verifier is done with the last proof.
Idle == proof = <<>> /\ member = NoMember /\ accepted = "nothing" /\ honest

Discard ==
    /\ ~Idle
    /\ proof' = <<>> /\ member' = NoMember /\ accepted' = "nothing" /\ honest' = TRUE
    /\ UNCHANGED <<ledger, retained>>

AppendEvent(e) ==
    /\ Idle /\ Len(ledger) < MaxEntries
    /\ ledger' = Append(ledger, e)
    /\ UNCHANGED <<retained, proof, member, accepted, honest>>

\* Somebody rebuilds the ledger with another event in one place, or without its tail.
Rewrite(i, e) ==
    /\ Idle /\ i \in DOMAIN ledger
    /\ ledger' \in {[ledger EXCEPT ![i] = e], SubSeq(ledger, 1, i - 1)}
    /\ UNCHANGED <<retained, proof, member, accepted, honest>>

Retain ==
    /\ Idle
    /\ retained' = ledger
    /\ UNCHANGED <<ledger, proof, member, accepted, honest>>

ProveConsistency ==
    /\ Idle /\ ProvesConsistency(ledger, Commitment(retained))
    /\ proof' = ConsistencyPath(ledger, Commitment(retained)) /\ member' = NoMember
    /\ accepted' = "nothing" /\ honest' = TRUE
    /\ UNCHANGED <<ledger, retained>>

ProveMember(sequence) ==
    /\ Idle /\ sequence \in 0..(Len(ledger) - 1)
    /\ member' = MemberProof(ledger, sequence) /\ proof' = <<>>
    /\ accepted' = "nothing" /\ honest' = TRUE
    /\ UNCHANGED <<ledger, retained>>

\* Digests that an editor has at hand.
AtHand ==
    {Build(ledger, i, n) : <<i, n>> \in {x \in (1..Len(ledger)) \X (1..Len(ledger)) :
                                             x[1] + x[2] <= Len(ledger) + 1}}
    \cup {Root(retained)}

Edited(path) ==
    {[path EXCEPT ![i] = d] : i \in DOMAIN path, d \in AtHand}
    \cup {Append(path, d) : d \in AtHand}
    \cup {RemoveAt(path, i) : i \in DOMAIN path}

\* A path for a ledger that need not extend the retained one, possibly edited.
ForgeConsistency ==
    /\ Idle /\ retained # <<>> /\ Len(retained) < Len(ledger)
    /\ LET path == Subproof(ledger, 1, Len(ledger), Len(retained), TRUE)
       IN  proof' \in {path} \cup Edited(path)
    /\ member' = NoMember /\ honest' = FALSE /\ accepted' = "nothing"
    /\ UNCHANGED <<ledger, retained>>

\* A receipt, or one sibling, is edited on its way.
ForgeMember ==
    /\ member.previous # 0 /\ honest
    /\ \/ member' \in {[member EXCEPT !.event = e] : e \in Events}
       \/ member' \in {[member EXCEPT !.sequence = i] : i \in 0..MaxEntries}
       \/ \E e \in Events : member' = [member EXCEPT !.previous = @ - (@ % EventBase) + e]
       \/ member' \in {[member EXCEPT !.siblings = s] : s \in Edited(member.siblings)}
    /\ honest' = FALSE /\ accepted' = "nothing"
    /\ UNCHANGED <<ledger, retained, proof>>

\* The verifier has both commitments from separate places.
VerifyConsistency ==
    /\ VerifiesConsistency(Commitment(retained), Commitment(ledger), proof)
    /\ accepted' = "extension"
    /\ UNCHANGED <<ledger, retained, proof, member, honest>>

\* The verifier uses the commitment it retained.
VerifyMember ==
    /\ member.previous # 0
    /\ VerifiesMembership(Commitment(retained), member)
    /\ accepted' = "receipt"
    /\ UNCHANGED <<ledger, retained, proof, member, honest>>

Next ==
    \/ \E e \in Events : AppendEvent(e)
    \/ \E i \in 1..MaxEntries, e \in Events : Rewrite(i, e)
    \/ Retain
    \/ Discard
    \/ ProveConsistency
    \/ \E sequence \in 0..MaxEntries : ProveMember(sequence)
    \/ ForgeConsistency
    \/ ForgeMember
    \/ VerifyConsistency
    \/ VerifyMember

Spec == Init /\ [][Next]_vars

-----------------------------------------------------------------------------
(***************************************************************************)
(* Type invariant.                                                         *)
(***************************************************************************)
TypeOK ==
    /\ ledger \in Seq(Events) /\ Len(ledger) <= MaxEntries
    /\ retained \in Seq(Events) /\ Len(retained) <= MaxEntries
    /\ member.sequence \in 0..MaxEntries /\ member.event \in Events \cup {0}
    /\ member.previous \in Nat
    /\ honest => Len(member.siblings) <= MaxSiblings /\ Len(proof) <= MaxPath
    /\ \A i \in DOMAIN proof : proof[i] \in Seq(Nat)
    /\ honest \in BOOLEAN /\ accepted \in {"nothing", "extension", "receipt"}

(***************************************************************************)
(* A consistency proof is accepted only if the second committed ledger     *)
(* extends the first, however the path was made.                           *)
(***************************************************************************)
ExtensionsAreReal == accepted = "extension" => IsPrefix(retained, ledger)

(***************************************************************************)
(* A receipt is accepted only if it is the one the committed ledger has at *)
(* its place, whichever ledger it was proved from and however it was       *)
(* edited.                                                                 *)
(***************************************************************************)
ReceiptsAreReal ==
    accepted = "receipt" =>
        /\ member.sequence < Len(retained)
        /\ member.event = retained[member.sequence + 1]
        /\ member.previous = ChainDigest(SubSeq(retained, 1, member.sequence))

(***************************************************************************)
(* Every prefix of a ledger can be proved and the proof verifies, within   *)
(* the bounds on paths; and so does every receipt.                         *)
(***************************************************************************)
ProofsVerify ==
    /\ IsPrefix(retained, ledger) =>
           /\ ProvesConsistency(ledger, Commitment(retained))
           /\ VerifiesConsistency(Commitment(retained), Commitment(ledger),
                                  ConsistencyPath(ledger, Commitment(retained)))
    /\ honest /\ member.previous # 0 => VerifiesMembership(Commitment(ledger), member)
=============================================================================
