-------------------------- MODULE GovernedOperation --------------------------
(***************************************************************************)
(* A command under an Idempotency-Key (spaces/governed.py): inside one     *)
(* transaction a call probes for the record of its key, inserts it, runs   *)
(* the command and completes the record.  The record is unique by key, so  *)
(* a second insert waits for the first transaction and then fails.  The    *)
(* module that extends this one says what the command does: it takes its   *)
(* row locks with Enter and its effect with Commit.  A retry of a client   *)
(* is another call with the same key; actor and operation code are part of *)
(* the key.                                                                *)
(***************************************************************************)
CONSTANTS Calls,      \* the calls the clients can make
          KeyOf,      \* KeyOf[c]: the actor, operation code and key of c
          NoRequest, NoBody

VARIABLES records,    \* the committed rows of WriteIdempotencyRecord
          stage,      \* stage[c]: where the handler of c stands
          asked,      \* asked[c]: the request of c, once it was made
          answer      \* answer[c]: the response the handler has built

governedVars == <<records, stage, asked, answer>>

NoAnswer == [kind |-> "none", body |-> NoBody]

Stages == {"idle", "probe", "claim", "lock", "work", "reply", "done", "lost"}

GovernedTypeOK(keys, requests, bodies) ==
  /\ records \subseteq [key : keys, request : requests, body : bodies]
  /\ stage \in [Calls -> Stages]
  /\ asked \in [Calls -> requests \cup {NoRequest}]
  /\ answer \in [Calls -> [kind : {"none", "made", "reused", "error"},
                           body : bodies \cup {NoBody}]]

GovernedInit == /\ records = {}
                /\ stage = [c \in Calls |-> "idle"]
                /\ asked = [c \in Calls |-> NoRequest]
                /\ answer = [c \in Calls |-> NoAnswer]

RecordsOf(c) == {row \in records : row.key = KeyOf[c]}

(* The inserted record of a running transaction holds its key. *)
Holds(c) == stage[c] \in {"lock", "work"}

KeyFree(c) == \A other \in Calls \ {c} : KeyOf[other] = KeyOf[c] => ~Holds(other)

InFlight(c) == stage[c] \in {"probe", "claim", "lock", "work", "reply"}

Responds(c, kind, body) ==
  /\ stage' = [stage EXCEPT ![c] = "reply"]
  /\ answer' = [answer EXCEPT ![c] = [kind |-> kind, body |-> body]]

-----------------------------------------------------------------------------
Send(c, request) == /\ stage[c] = "idle"
                    /\ stage' = [stage EXCEPT ![c] = "probe"]
                    /\ asked' = [asked EXCEPT ![c] = request]
                    /\ UNCHANGED <<records, answer>>

(* Mutant: the digest of the recorded request is not compared. *)
AnswerOfAny(c, row) == Responds(c, "made", row.body)

(* The recorded answer of the same request; another request is refused. *)
AnswerOf(c, row) == IF row.request = asked[c] THEN Responds(c, "made", row.body)
                                              ELSE Responds(c, "reused", NoBody)

Probe(c) == /\ stage[c] = "probe"
            /\ \/ /\ RecordsOf(c) = {}
                  /\ stage' = [stage EXCEPT ![c] = "claim"]
                  /\ UNCHANGED answer
               \/ \E row \in RecordsOf(c) : AnswerOf(c, row)
            /\ UNCHANGED <<records, asked>>

(* Mutant: the unique constraint is missing: a second insert succeeds. *)
ClaimTwice(c) == /\ stage[c] = "claim"
                 /\ stage' = [stage EXCEPT ![c] = "lock"]
                 /\ UNCHANGED <<records, asked, answer>>

(* The insert waits for a running insert of the same key.  A duplicate     *)
(* breaks the surrounding transaction: the recovery of operation_record    *)
(* queries inside the broken block and the call ends with a server error.  *)
Claim(c) == /\ stage[c] = "claim"
            /\ KeyFree(c)
            /\ IF RecordsOf(c) = {}
               THEN stage' = [stage EXCEPT ![c] = "lock"] /\ UNCHANGED answer
               ELSE Responds(c, "error", NoBody)
            /\ UNCHANGED <<records, asked>>

Enter(c) == /\ stage[c] = "lock"
            /\ stage' = [stage EXCEPT ![c] = "work"]
            /\ UNCHANGED <<records, asked, answer>>

(* The command, its record and its answer are committed together. *)
Commit(c, body) ==
  /\ stage[c] = "work"
  /\ records' = records \cup {[key |-> KeyOf[c], request |-> asked[c], body |-> body]}
  /\ Responds(c, "made", body)
  /\ UNCHANGED asked

(* An exception that is not a refusal of the workflow rolls the record back. *)
Abort(c) == /\ Holds(c)
            /\ Responds(c, "error", NoBody)
            /\ UNCHANGED <<records, asked>>

Reply(c) == /\ stage[c] = "reply"
            /\ stage' = [stage EXCEPT ![c] = "done"]
            /\ UNCHANGED <<records, asked, answer>>

(* The process dies, which rolls an open transaction back, or the response *)
(* is lost on its way: the client does not know which.                     *)
Lose(c) == /\ InFlight(c)
           /\ stage' = [stage EXCEPT ![c] = "lost"]
           /\ UNCHANGED <<records, asked, answer>>
=============================================================================
