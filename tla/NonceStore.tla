---------------------------- MODULE NonceStore ----------------------------
(***************************************************************************)
(* What a replay cache promises verify_envelope, whatever its backend (the *)
(* contract of verify_envelope.ReplayCache.mark_if_new): a call for a key  *)
(* (sender, nonce) with a ttl is answered "new" only when no earlier       *)
(* reservation of the key is still running, and then reserves the key for  *)
(* at least the ttl, counted from the call, less `slack`, what the backend  *)
(* loses by rounding.                                                      *)
(***************************************************************************)
EXTENDS Naturals

CONSTANTS Caller, Key, Ttls, Idle

VARIABLES
    clock,
    slack,    \* fixed by the choice of the backend
    call,     \* call[c]: the running call [key, ttl, start], or Idle
    until,    \* until[k]: the end of k's last reservation, 0 if none
    outcome   \* outcome[c]: "none" until the call of c is answered

storeVars == <<clock, slack, call, until, outcome>>

Request == [key : Key, ttl : Ttls, start : Nat]

StoreInit ==
    /\ clock \in Nat /\ slack \in Nat
    /\ call = [c \in Caller |-> Idle]
    /\ until = [k \in Key |-> 0]
    /\ outcome = [c \in Caller |-> "none"]

Advance ==
    /\ clock' = clock + 1
    /\ UNCHANGED <<slack, call, until, outcome>>

Invoke(c) ==
    /\ call[c] = Idle
    /\ \E k \in Key, t \in Ttls :
          call' = [call EXCEPT ![c] = [key |-> k, ttl |-> t, start |-> clock]]
    /\ UNCHANGED <<clock, slack, until, outcome>>

\* The key is free: it was never reserved or its reservation has run out.
Reserve(c) ==
    /\ call[c] # Idle
    /\ outcome[c] = "none"
    /\ until[call[c].key] <= clock
    /\ \E e \in 0..(clock + call[c].ttl) :
          /\ e + slack >= call[c].start + call[c].ttl
          /\ until' = [until EXCEPT ![call[c].key] = e]
    /\ outcome' = [outcome EXCEPT ![c] = "new"]
    /\ UNCHANGED <<clock, slack, call>>

\* Some earlier call reserved the key.
Refuse(c) ==
    /\ call[c] # Idle
    /\ outcome[c] = "none"
    /\ until[call[c].key] # 0
    /\ outcome' = [outcome EXCEPT ![c] = "replay"]
    /\ UNCHANGED <<clock, slack, call, until>>

\* The backend could not answer; the caller gets an exception.
Fail(c) ==
    /\ call[c] # Idle
    /\ outcome[c] = "none"
    /\ outcome' = [outcome EXCEPT ![c] = "error"]
    /\ UNCHANGED <<clock, slack, call, until>>

Return(c) ==
    /\ outcome[c] # "none"
    /\ call' = [call EXCEPT ![c] = Idle]
    /\ outcome' = [outcome EXCEPT ![c] = "none"]
    /\ UNCHANGED <<clock, slack, until>>

StoreNext ==
    \/ Advance
    \/ \E c \in Caller :
          Invoke(c) \/ Reserve(c) \/ Refuse(c) \/ Fail(c) \/ Return(c)

StoreSpec == StoreInit /\ [][StoreNext]_storeVars

=============================================================================
