----------------------------- MODULE KeyRegister -----------------------------
(***************************************************************************)
(* What the BYOK key API promises for one provider key of one installation.*)
(* Every request takes effect at one moment between its call and its       *)
(* answer (a removal of an absent key at a moment when it was absent),     *)
(* except that a rotation writes back a value the key had at some moment   *)
(* since the rotation was called, not necessarily its latest one, and that *)
(* a request answered with an error may or may not have taken effect.      *)
(***************************************************************************)
CONSTANTS
    Requests,       \* HTTP requests, each made once; an upsert stores a key of its own
    Stored,         \* the key stored before the first request
    None            \* no row

Ops == {"list", "upsert", "rotate", "remove"}

VARIABLES
    secret,         \* the key: Stored, that of an upsert, or None
    call,           \* call[q]: [op, reply]; both are "none" until they happen
    seen            \* seen[q]: the values the key has had since q was called

vars == <<secret, call, seen>>

Uncalled == [op |-> "none", reply |-> "none"]
Pending(q) == call[q].op # "none" /\ call[q].reply = "none"

Init ==
    /\ secret \in {Stored, None}
    /\ call = [q \in Requests |-> Uncalled]
    /\ seen = [q \in Requests |-> {}]

Call(q, op) ==
    /\ call[q].op = "none"
    /\ call' = [call EXCEPT ![q] = [op |-> op, reply |-> "none"]]
    /\ seen' = [seen EXCEPT ![q] = {secret}]
    /\ UNCHANGED secret

Answer(q, reply) == call' = [call EXCEPT ![q].reply = reply]

\* The key becomes v and q is answered: the pending requests see v.
Seen(q, v) ==
    seen' = [p \in Requests |->
               IF p = q THEN {} ELSE IF Pending(p) THEN seen[p] \cup {v} ELSE seen[p]]

\* What a request may leave in the key.
Effects(q) ==
    CASE call[q].op = "upsert" -> {q}
      [] call[q].op = "remove" -> {None}
      [] call[q].op = "rotate" -> seen[q] \ {None}
      [] OTHER -> {}

Apply(q) ==
    /\ Pending(q)
    /\ \E v \in Effects(q) : secret' = v
    /\ \E reply \in {"ok", "error"} : Answer(q, reply)
    /\ Seen(q, secret')

Observe(q) ==
    /\ Pending(q)
    /\ \/ Answer(q, "error")
       \/ call[q].op = "list" /\ \E v \in seen[q] : Answer(q, IF v = None THEN "unset" ELSE "set")
       \/ call[q].op = "remove" /\ None \in seen[q] /\ Answer(q, "ok")
       \/ call[q].op = "rotate" /\ None \in seen[q] /\ Answer(q, "missing")
    /\ Seen(q, secret)
    /\ UNCHANGED secret

Next == \E q \in Requests :
    \/ \E op \in Ops : Call(q, op)
    \/ Apply(q)
    \/ Observe(q)

Spec == Init /\ [][Next]_vars
=============================================================================
