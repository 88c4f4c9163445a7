----------------------------- MODULE KeyedWrite -----------------------------
(***************************************************************************)
(* What an Idempotency-Key promises a client: one write per key, and       *)
(* answers that tell the truth about it.  There are no transactions here,  *)
(* no index and no lost connections; a call may stay without an answer.    *)
(***************************************************************************)
CONSTANTS Calls, Keys, Payloads, None

VARIABLES
  asked,   \* the key and the payload of each call, once it is made
  ledger,  \* the write made under each key: its payload and the call behind it
  said     \* the answer to each call

vars == <<asked, ledger, said>>

Init == /\ asked = [c \in Calls |-> None]
        /\ ledger = [k \in Keys |-> None]
        /\ said = [c \in Calls |-> None]

Ask(c) == /\ asked[c] = None
          /\ \E k \in Keys, p \in Payloads :
               asked' = [asked EXCEPT ![c] = [key |-> k, payload |-> p]]
          /\ UNCHANGED <<ledger, said>>

Waiting(c) == asked[c] # None /\ said[c] = None

Write(c) == /\ Waiting(c)
            /\ ledger[asked[c].key] = None
            /\ ledger' = [ledger EXCEPT ![asked[c].key] =
                            [payload |-> asked[c].payload, body |-> c]]
            /\ UNCHANGED <<asked, said>>

(* Success shows the one write of the key, to whoever asks for that write. *)
(* A conflict is with a different write, an expired response belongs to    *)
(* this one, and a rejection means that nothing was written.               *)
Truthful(c, answer) ==
  LET written == ledger[asked[c].key] IN
  \/ answer \in Calls /\ written = [payload |-> asked[c].payload, body |-> answer]
  \/ answer = "conflict" /\ written # None /\ written.payload # asked[c].payload
  \/ answer = "gone" /\ written # None /\ written.payload = asked[c].payload
  \/ answer = "rejected" /\ written = None
  \/ answer = "failed"

Say(c, answer) == /\ Waiting(c)
                  /\ Truthful(c, answer)
                  /\ said' = [said EXCEPT ![c] = answer]
                  /\ UNCHANGED <<asked, ledger>>

Next == \E c \in Calls :
          \/ Ask(c)
          \/ Write(c)
          \/ \E answer \in Calls \cup {"conflict", "gone", "rejected", "failed"} : Say(c, answer)

Spec == Init /\ [][Next]_vars

=============================================================================
