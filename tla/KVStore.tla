------------------------------- MODULE KVStore -------------------------------
(***************************************************************************)
(* What RolexIndex promises its callers about writes, with no leaves, no   *)
(* locks and no remote memory: a map from keys to values on which every    *)
(* insert and every update takes effect in one step between its call and   *)
(* its return.  No key ever leaves the map.                                *)
(*                                                                         *)
(* insert adds an absent key and leaves a present one alone                *)
(* (src/src/Rolex.cpp:337, :348); update replaces the value of a present   *)
(* key and may also return without having found its key (:661).            *)
(***************************************************************************)
CONSTANTS Client, Key, Value, Nil

VARIABLES kv,    \* the map; Nil where the key is absent
          st,    \* st[c]: "idle", "pending" or "done" (took effect, not returned)
          req    \* req[c]: the call c is in, NoReq when idle

vars == <<kv, st, req>>

Request == [kind : {"insert", "update", "search", "range"},
            key : Key, to : Key \cup {Nil}, val : Value \cup {Nil}]

NoReq == [kind |-> "none", key |-> Nil, to |-> Nil, val |-> Nil]

Init ==
    /\ kv = [k \in Key |-> Nil]
    /\ st = [c \in Client |-> "idle"]
    /\ req = [c \in Client |-> NoReq]

Call(c, r) ==
    /\ st[c] = "idle"
    /\ st' = [st EXCEPT ![c] = "pending"]
    /\ req' = [req EXCEPT ![c] = r]
    /\ UNCHANGED kv

DoInsert(c) ==
    /\ st[c] = "pending"
    /\ req[c].kind = "insert"
    /\ st' = [st EXCEPT ![c] = "done"]
    /\ kv' = [kv EXCEPT ![req[c].key] = IF @ = Nil THEN req[c].val ELSE @]
    /\ UNCHANGED req

DoUpdate(c) ==
    /\ st[c] = "pending"
    /\ req[c].kind = "update"
    /\ kv[req[c].key] # Nil
    /\ st' = [st EXCEPT ![c] = "done"]
    /\ kv' = [kv EXCEPT ![req[c].key] = req[c].val]
    /\ UNCHANGED req

\* A search, a range query, or an update that did not find its key.
ReturnUnchanged(c) ==
    /\ st[c] = "pending"
    /\ req[c].kind # "insert"
    /\ st' = [st EXCEPT ![c] = "idle"]
    /\ req' = [req EXCEPT ![c] = NoReq]
    /\ UNCHANGED kv

Return(c) ==
    /\ st[c] = "done"
    /\ st' = [st EXCEPT ![c] = "idle"]
    /\ req' = [req EXCEPT ![c] = NoReq]
    /\ UNCHANGED kv

Next ==
    \E c \in Client :
        \/ \E r \in Request : Call(c, r)
        \/ DoInsert(c)
        \/ DoUpdate(c)
        \/ ReturnUnchanged(c)
        \/ Return(c)

Spec == Init /\ [][Next]_vars
=============================================================================
