-------------------------- MODULE MCRequestTable --------------------------
(***************************************************************************)
(* Small instances of RequestTable.                                        *)
(***************************************************************************)
EXTENDS RequestTable

(* The poll loop asks for positions and the account; user tasks ask for    *)
(* either, too.                                                            *)
SharedUses == [c \in Callers |-> Cmds]

(* Each command has one caller.                                            *)
OwnUses == [c \in Callers |-> CASE c = "poll" -> {"positions", "account"}
                                [] c = "user" -> {"candles"}
                                [] c = "history" -> {"deals"}]
===========================================================================
