------------------------------- MODULE Query -------------------------------
(***************************************************************************)
(* A query as service.py, the workers and the backends see it: a dict, so  *)
(* a function whose domain holds the keys that are present.  A handler     *)
(* that subscripts an absent key fails; one that calls get does not.       *)
(***************************************************************************)
EXTENDS Integers, Sequences, FiniteSets

CONSTANTS
    None,    \* Python's None
    Empty    \* the empty string

\* query.get(key), its truth, and query.get(key, default).
Given(q, key) == IF key \in DOMAIN q THEN q[key] ELSE None
Some(q, key) == Given(q, key) \notin {None, Empty}
On(q, key) == Given(q, key) = TRUE
Get(q, key, default) == IF key \in DOMAIN q THEN q[key] ELSE default

SomeOf(q, keys) == \E key \in keys : Some(q, key)
NoneOf(q, keys) == \A key \in keys : ~Some(q, key)

\* {**query, key: value}
Set(q, key, value) == [k \in DOMAIN q \cup {key} |-> IF k = key THEN value ELSE q[k]]
Without(q, keys) == [k \in DOMAIN q \ keys |-> q[k]]

\* {**defaults, **q}
Joined(q, defaults) ==
    [k \in DOMAIN q \cup DOMAIN defaults |-> IF k \in DOMAIN q THEN q[k] ELSE defaults[k]]
=============================================================================
