------------------------------- MODULE Ledger -------------------------------
(***************************************************************************)
(* What the traffic accounting promises: bytes are counted into the bucket *)
(* of their hour, a checkpoint makes some of what was counted durable, and *)
(* only a restart forgets, exactly what no checkpoint had reached.         *)
(***************************************************************************)
EXTENDS Naturals

CONSTANT Hours

VARIABLES
  counted,   (* hour -> bytes the running process knows of                 *)
  durable    (* hour -> bytes in the database                              *)

(* An upgrade can find counts that are not in the tables yet.               *)
LedgerInit ==
  /\ counted \in [Hours -> Nat] /\ durable \in [Hours -> Nat]
  /\ \A h \in Hours : durable[h] <= counted[h]

Count(h) ==
  /\ counted' = [counted EXCEPT ![h] = @ + 1]
  /\ UNCHANGED durable

Checkpoint ==
  /\ \A h \in Hours : durable'[h] \in durable[h] .. counted[h]
  /\ UNCHANGED counted

Restart == counted' = durable /\ UNCHANGED durable

LedgerNext == (\E h \in Hours : Count(h)) \/ Checkpoint \/ Restart

LedgerSpec == LedgerInit /\ [][LedgerNext]_<<counted, durable>>
=============================================================================
