------------------------------ MODULE Registry ------------------------------
(***************************************************************************)
(* The tables the gateways look messages up in: DecoderRegistry,           *)
(* EncoderRegistry and the routes of NetworkGateway, which are one         *)
(* algorithm three times over: a vector of entries, registration that      *)
(* refuses null and duplicates, and a search from the front.               *)
(***************************************************************************)
EXTENDS Naturals, Sequences

CONSTANTS
    Keys,           \* msg_id, or (kind, id)
    Values,         \* decoders, encoders or tasks
    Null            \* the null pointer

ASSUME RegistryAssumption == Null \notin Values

VARIABLES
    entries,        \* the vector
    result          \* what the last registration returned

vars == <<entries, result>>

Init ==
    /\ entries = <<>>
    /\ result = FALSE

HasKey(s, k) == \E i \in 1..Len(s) : s[i].key = k
Registered(k) == HasKey(entries, k)

\* Fault variant: null not refused.
RegisterNull(k, v) ==
    /\ IF ~Registered(k)
       THEN entries' = Append(entries, [key |-> k, value |-> v]) /\ result' = TRUE
       ELSE UNCHANGED entries /\ result' = FALSE

\* Fault variant: the newest registration put where the search finds it first.
RegisterInFront(k, v) ==
    /\ IF v # Null
       THEN entries' = <<[key |-> k, value |-> v]>> \o SelectSeq(entries, LAMBDA e : e.key # k)
            /\ result' = TRUE
       ELSE UNCHANGED entries /\ result' = FALSE

Register(k, v) ==
    /\ IF v # Null /\ ~Registered(k)
       THEN entries' = Append(entries, [key |-> k, value |-> v]) /\ result' = TRUE
       ELSE UNCHANGED entries /\ result' = FALSE

\* The search from the front.
Lookup(s, k) ==
    IF HasKey(s, k)
    THEN s[CHOOSE i \in 1..Len(s) : s[i].key = k /\ \A j \in 1..(i - 1) : s[j].key # k].value
    ELSE Null

Find(k) == Lookup(entries, k)

Next == \E k \in Keys, v \in Values \cup {Null} : Register(k, v)

Spec == Init /\ [][Next]_vars

-----------------------------------------------------------------------------
(* Properties.                                                             *)

TypeOK ==
    /\ entries \in Seq([key : Keys, value : Values])
    /\ result \in BOOLEAN

\* What a search finds stays what it finds, whatever is registered later: messages
\* of a kind are never sent another way by a second registration.  And register
\* returns true exactly when a key can be found that could not be before.
FirstWins ==
    [][/\ \A k \in Keys : Find(k) # Null => Find(k)' = Find(k)
       /\ result' <=> \E k \in Keys : Find(k) = Null /\ Find(k)' # Null]_vars

=============================================================================
