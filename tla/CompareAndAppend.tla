-------------------------- MODULE CompareAndAppend --------------------------
(***************************************************************************)
(* What a durable workflow store promises its callers: one log of requests *)
(* to which a request is added atomically, only at the tip it expects,     *)
(* only once per request ID and only if its batch is authorized there.     *)
(* A caller that is told of success has its request in the log, and being  *)
(* told adds nothing.                                                      *)
(***************************************************************************)
EXTENDS Naturals, Sequences

CONSTANTS Callers, RequestIds, Transitions, Imported, Authorized(_, _), NoRequest

VARIABLES
    history,    \* the committed requests, in order
    asked,      \* per caller: its current request, if any
    told        \* the callers whose last call reported the request as committed

Mark == [receipts: Seq(Transitions), log: Seq([id: RequestIds, end: Nat])]

Requests == [id: RequestIds, expected: Mark, batch: Seq(Transitions)]

\* The checkpoint a committed request leads to.
Result(r) ==
    [receipts |-> r.expected.receipts \o r.batch,
     log |-> Append(r.expected.log,
                    [id |-> r.id, end |-> Len(r.expected.receipts) + Len(r.batch)])]

Tip == IF history = <<>> THEN [receipts |-> Imported, log |-> <<>>]
       ELSE Result(history[Len(history)])

Init ==
    /\ history = <<>>
    /\ asked = [p \in Callers |-> NoRequest]
    /\ told = {}

Ask(p) ==
    /\ asked'[p] \in Requests
    /\ asked' = [asked EXCEPT ![p] = asked'[p]]
    /\ told' = told \ {p}
    /\ UNCHANGED history

Commit(p) ==
    /\ asked[p] # NoRequest
    /\ asked[p].batch # <<>>
    /\ asked[p].expected = Tip
    /\ \A i \in DOMAIN history : history[i].id # asked[p].id
    /\ Authorized(Tip.receipts, asked[p].batch)
    /\ history' = Append(history, asked[p])
    /\ UNCHANGED <<asked, told>>

Tell(p) ==
    /\ \E i \in DOMAIN history : history[i] = asked[p]
    /\ told' = told \cup {p}
    /\ UNCHANGED <<history, asked>>

\* The caller asks again.
Retry(p) ==
    /\ told' = told \ {p}
    /\ UNCHANGED <<history, asked>>

Next == \E p \in Callers : Ask(p) \/ Commit(p) \/ Tell(p) \/ Retry(p)

Spec == Init /\ [][Next]_<<history, asked, told>>
=============================================================================
