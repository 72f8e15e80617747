------------------------------ MODULE KvStore ------------------------------
(***************************************************************************)
(* What the Storage trait of panweave-storage promises: a map from keys to *)
(* values with store, load, erase and erase_kind, each of which is either  *)
(* done or not done, whenever the power fails.                             *)
(*                                                                         *)
(* A key is a pair <<kind, id>>. With StoreMayTear a store that a power    *)
(* loss or an error ends early may also lose the previous value of that    *)
(* one key: this is the weaker promise a medium without atomic writes can  *)
(* keep. Nothing is promised of a medium that is not sound.                *)
(***************************************************************************)
CONSTANTS Keys,           \* pairs <<kind, id>>
          Values,         \* record contents
          NoValue,        \* load returns Ok(None)
          StoreMayTear    \* a store that ends early may lose its key

VARIABLES content,        \* what load returns for each key
          op,             \* the call in progress, or Idle
          result,         \* the answer to the last call
          sound           \* the medium reads back what was written

abstractVars == <<content, op, result>>

Idle == [type |-> "idle"]

\* The calls that change the store.
Calls == [type : {"store"}, key : Keys, value : Values]
         \cup [type : {"erase"}, key : Keys]
         \cup [type : {"erase_kind"}, kind : {k[1] : k \in Keys}]

\* The keys a call is about.
Touched(call) ==
    CASE call.type = "store" -> {call.key}
      [] call.type = "erase" -> {call.key}
      [] call.type = "erase_kind" -> {k \in Keys : k[1] = call.kind}

\* The map after a call.
Applied(call) ==
    [k \in Keys |-> IF k \notin Touched(call) THEN content[k]
                    ELSE IF call.type = "store" THEN call.value
                    ELSE NoValue]

\* The map after a store whose record was lost together with the old one.
Torn(call) == [content EXCEPT ![call.key] = NoValue]

KvInit ==
    /\ content = [k \in Keys |-> NoValue]
    /\ op = Idle
    /\ result = "none"

Begin(call) ==
    /\ op = Idle
    /\ op' = call
    /\ result' = "none"
    /\ UNCHANGED content

Succeed ==
    /\ op # Idle
    /\ op' = Idle
    /\ result' = "ok"
    /\ content' = Applied(op)

\* The record of a store and the one it replaces are lost.
Tear == StoreMayTear /\ op # Idle /\ op.type = "store" /\ content' = Torn(op)

\* Err(Full): nothing has changed. Err(Io): nothing, or the store has torn.
Fail ==
    /\ op # Idle
    /\ op' = Idle
    /\ \/ result' \in {"full", "io"} /\ UNCHANGED content
       \/ result' = "io" /\ Tear

\* The call in progress is done or not done; nothing else changes.
LosePower ==
    /\ op' = Idle
    /\ result' = "none"
    /\ \/ UNCHANGED content
       \/ op # Idle /\ content' = Applied(op)
       \/ Tear

\* What a step may do while the medium is sound.
KvNext ==
    sound' => \/ \E call \in Calls : Begin(call)
              \/ Succeed
              \/ Fail
              \/ LosePower

KvSpec == KvInit /\ [][KvNext]_abstractVars
=============================================================================
