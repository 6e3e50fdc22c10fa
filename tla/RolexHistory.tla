---------------------------- MODULE RolexHistory ----------------------------
(***************************************************************************)
(* RolexIndex with history variables, to state what a call may return.     *)
(* They record and never restrict: every step of RolexIndex is taken.      *)
(***************************************************************************)
EXTENDS RolexIndex

VARIABLES acked,   \* keys an insert has returned for
          owed,    \* owed[c]: the value of acked when c's call began
          seen     \* seen[c][k]: every Visible(k) since c's call began

histVars == <<acked, owed, seen>>

Inserted == {req[c].key : c \in {d \in Client : /\ pc[d] = "unlock"
                                                /\ pc'[d] = "idle"
                                                /\ req[d].kind = "insert"}}
NothingSeen == [k \in Key |-> {}]

HInit ==
    /\ Init
    /\ acked = {}
    /\ owed = [c \in Client |-> {}]
    /\ seen = [c \in Client |-> NothingSeen]

HNext ==
    /\ Next
    /\ acked' = acked \cup Inserted
    /\ owed' = [c \in Client |-> IF pc'[c] = "idle" THEN {}
                                 ELSE IF pc[c] = "idle" THEN acked ELSE owed[c]]
    /\ seen' = [c \in Client |->
                  IF pc'[c] \in {"read", "read_syn"}
                  THEN [k \in Key |-> seen[c][k] \cup {Visible(k)'}]
                  ELSE NothingSeen]

HSpec == HInit /\ [][HNext]_<<vars, histVars>>

\* A search (_search, src/src/Rolex.cpp:827) and a range query, although they
\* read leaf and synonym leaf at different moments and take no lock, return
\* for each key something that really was in memory under that key at one
\* moment of the call: never a value older than the call, never the old value
\* of a record that was replaced before the call, never another key's value.
\* "Not found" too: only when at some moment the key was visible nowhere.
ReadsWereVisible ==
    \A c \in Client : HasRead(c) =>
        /\ req[c].kind \in {"search", "update"} =>
               SearchResult(c) \in seen[c][req[c].key]
        /\ req[c].kind = "range" =>
               \A k \in req[c].key .. (req[c].to - 1) :
                   k \in Key => RangeResult(c)[k] \in seen[c][k]

\* A search that starts after the insert of its key has returned finds it.
AckedFound ==
    \A c \in Client :
        HasRead(c) /\ req[c].kind = "search" /\ req[c].key \in owed[c] =>
            Found(c, req[c].key)
=============================================================================
