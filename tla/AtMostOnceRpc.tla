--------------------------- MODULE AtMostOnceRpc ---------------------------
(* What wg-manager may rely on when it asks the privileged worker to do     *)
(* something, whatever the socket, the queue and the worker process do:     *)
(*                                                                          *)
(*   - a request takes effect at most once;                                 *)
(*   - an "ok" answer means that it has taken effect;                       *)
(*   - an "err" answer may come with or without the effect, but it is       *)
(*     final: the request never takes effect after it;                      *)
(*   - a request the caller gave up on (read timeout, crash of the          *)
(*     manager) is out of the caller's hands: it may still take effect      *)
(*     later, and the caller never learns whether it did.                   *)
(*                                                                          *)
(* WorkerRpc refines this module.                                           *)
CONSTANT
    Conn            \* connections a call can travel on

VARIABLES
    st,             \* st[c]: where the call on connection c stands
    applied         \* the connections whose call has taken effect

vars == <<st, applied>>

TypeOK ==
    /\ st \in [Conn -> {"free", "pending", "abandoned", "ok", "err"}]
    /\ applied \subseteq Conn

Init ==
    /\ st = [c \in Conn |-> "free"]
    /\ applied = {}

Call(c) ==
    /\ st[c] = "free"
    /\ st' = [st EXCEPT ![c] = "pending"]
    /\ UNCHANGED applied

\* The effect, once, whether or not the caller still listens.
Apply(c) ==
    /\ st[c] \in {"pending", "abandoned"}
    /\ c \notin applied
    /\ applied' = applied \cup {c}
    /\ UNCHANGED st

AnswerOk(c) ==
    /\ st[c] = "pending"
    /\ c \in applied
    /\ st' = [st EXCEPT ![c] = "ok"]
    /\ UNCHANGED applied

\* "err" whether or not the effect took place; Apply is disabled from here on.
AnswerErr(c) ==
    /\ st[c] = "pending"
    /\ st' = [st EXCEPT ![c] = "err"]
    /\ UNCHANGED applied

Abandon(c) ==
    /\ st[c] = "pending"
    /\ st' = [st EXCEPT ![c] = "abandoned"]
    /\ UNCHANGED applied

\* The caller has read its answer, or nobody will ever read it.
Release(c) ==
    /\ st[c] \in {"ok", "err", "abandoned"}
    /\ st' = [st EXCEPT ![c] = "free"]
    /\ applied' = applied \ {c}

\* The serving side dies: every caller is told "err", every abandoned call is
\* forgotten.
DropAll ==
    /\ st' = [c \in Conn |-> IF st[c] = "pending" THEN "err"
                             ELSE IF st[c] = "abandoned" THEN "free" ELSE st[c]]
    /\ applied' = {c \in applied : st[c] # "abandoned"}

\* The calling side dies: its open calls are abandoned, its answers lost.
CallerCrash ==
    /\ st' = [c \in Conn |-> IF st[c] = "pending" THEN "abandoned"
                             ELSE IF st[c] \in {"ok", "err"} THEN "free" ELSE st[c]]
    /\ applied' = {c \in applied : st[c] \notin {"ok", "err"}}

Next ==
    \/ DropAll
    \/ CallerCrash
    \/ \E c \in Conn :
          \/ Call(c)   \/ Apply(c)     \/ AnswerOk(c)
          \/ AnswerErr(c) \/ Abandon(c) \/ Release(c)

Spec == Init /\ [][Next]_vars
=============================================================================
