-------------------------- MODULE OperationContract --------------------------
(***************************************************************************)
(* What an Idempotency-Key promises to the caller of a governed command:   *)
(* the command of a key is decided once, for one request, and every call   *)
(* that gets an answer other than an error gets that one result, or is     *)
(* told that the key belongs to another request.  A call may always end    *)
(* with an error or without an answer; whether the command was decided is  *)
(* then found out by calling again with the same key.                      *)
(***************************************************************************)
CONSTANTS Calls,      \* the calls of the clients
          KeyOf,      \* KeyOf[c]: the key under which c is made
          Requests,   \* the request digests
          Bodies,     \* the results a command can have
          NoRequest, NoBody

VARIABLES outcome,    \* the decided commands: their key, request and result
          asked,      \* asked[c]: the request of c, once it was made
          told        \* told[c]: the answer c has received

vars == <<outcome, asked, told>>

Untold == [kind |-> "none", body |-> NoBody]

Init == /\ outcome = {}
        /\ asked = [c \in Calls |-> NoRequest]
        /\ told = [c \in Calls |-> Untold]

Ask(c, request) == /\ asked[c] = NoRequest
                   /\ asked' = [asked EXCEPT ![c] = request]
                   /\ UNCHANGED <<outcome, told>>

(* A key is decided once, for the request of a call that was made with it. *)
Decide(c, body) ==
  /\ asked[c] # NoRequest
  /\ \A decided \in outcome : decided.key # KeyOf[c]
  /\ outcome' = outcome \cup {[key |-> KeyOf[c], request |-> asked[c], body |-> body]}
  /\ UNCHANGED <<asked, told>>

(* The answer of a call, given what has been decided for its key. *)
Truthful(c, answer) ==
  \/ answer.kind = "error"
  \/ /\ answer.kind = "made"
     /\ [key |-> KeyOf[c], request |-> asked[c], body |-> answer.body] \in outcome
  \/ /\ answer.kind = "reused"
     /\ \E decided \in outcome : decided.key = KeyOf[c] /\ decided.request # asked[c]

Tell(c, answer) == /\ asked[c] # NoRequest
                   /\ told[c] = Untold
                   /\ Truthful(c, answer)
                   /\ told' = [told EXCEPT ![c] = answer]
                   /\ UNCHANGED <<outcome, asked>>

Answers == [kind : {"made", "reused", "error"}, body : Bodies \cup {NoBody}]

Next == \E c \in Calls :
          \/ \E request \in Requests : Ask(c, request)
          \/ \E body \in Bodies : Decide(c, body)
          \/ \E answer \in Answers : Tell(c, answer)

Spec == Init /\ [][Next]_vars

-----------------------------------------------------------------------------
(* What the contract is for: callers who got a result under one key asked   *)
(* for the same thing and got the same result, a caller who is told that    *)
(* the key belongs to another request did ask for another one than they,    *)
(* and no answer is ever taken back.                                        *)
OneAnswerPerKey ==
  \A c, d \in Calls : KeyOf[c] = KeyOf[d] /\ told[d].kind = "made" =>
    /\ told[c].kind = "made" => told[c].body = told[d].body /\ asked[c] = asked[d]
    /\ told[c].kind = "reused" => asked[c] # asked[d]

AnswerStands == \A c \in Calls : told[c] # Untold => told'[c] = told[c]

AnswersStand == [][AnswerStands]_vars
=============================================================================
