---------------------------- MODULE EchoService ----------------------------
(***************************************************************************)
(* What the connector promises the users of its client API                 *)
(* (client_api/connector_client_api.h), as they see it: a connection is    *)
(* opened by a handshake; messages may be pushed (PushMessage does not ask *)
(* for the end of the handshake); every answer belongs to a message that   *)
(* was pushed on the same connection and no message is answered twice;     *)
(* answers come only once OnHandShakeSucceed has been called, and after    *)
(* the end of the connection nothing happens on it.                        *)
(* Messages may be lost and, with several back ends, overtake each other.  *)
(***************************************************************************)
EXTENDS Naturals, Sequences

CONSTANTS
    Connections,
    MaxAsked       \* bound: messages pushed on one connection

VARIABLES
    phase,         \* per connection
    asked,         \* messages pushed so far, numbered from 1
    answers        \* the answers taken, in order

echoVars == <<phase, asked, answers>>

EchoInit ==
    /\ phase = [c \in Connections |-> "idle"]
    /\ asked = [c \in Connections |-> 0]
    /\ answers = [c \in Connections |-> <<>>]

Move(c, from, to) ==
    /\ phase[c] \in from
    /\ phase' = [phase EXCEPT ![c] = to]
    /\ UNCHANGED <<asked, answers>>

Begin(c) == Move(c, {"idle"}, "handshake")
Open(c) == Move(c, {"handshake"}, "open")
End(c) == Move(c, {"handshake", "open"}, "closed")

Ask(c) ==
    /\ phase[c] \in {"handshake", "open"}
    /\ asked[c] < MaxAsked
    /\ asked' = [asked EXCEPT ![c] = @ + 1]
    /\ UNCHANGED <<phase, answers>>

(***************************************************************************)
(* The answer carries the name of the message it answers.                  *)
(***************************************************************************)
Answer(c, n) ==
    /\ phase[c] = "open"
    /\ \A i \in 1 .. Len(answers[c]) : answers[c][i].n # n
    /\ answers' = [answers EXCEPT ![c] = Append(@, [conn |-> c, n |-> n])]
    /\ UNCHANGED <<phase, asked>>

EchoNext ==
    \E c \in Connections :
        \/ Begin(c) \/ Open(c) \/ End(c) \/ Ask(c)
        \/ \E n \in 1 .. asked[c] : Answer(c, n)

EchoSpec == EchoInit /\ [][EchoNext]_echoVars
=============================================================================
