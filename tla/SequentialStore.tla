-------------------------- MODULE SequentialStore --------------------------
(***************************************************************************)
(* What a partition promises its clients: their commands take effect one   *)
(* after the other, each at most once, and each is answered by what came   *)
(* before it.  There is no map here: a key has the value that was put last.*)
(***************************************************************************)
EXTENDS Naturals, Sequences

CONSTANT Command   \* records [type, key, value], with what tells them apart

VARIABLE history   \* commands that took effect, with their results

\* The last command before the k-th that wrote its key, or 0.
Writer(key) ==
    LET writes == {j \in DOMAIN history : history[j].cmd.key = key /\ history[j].cmd.type # "GET"}
    IN  IF writes = {} THEN 0 ELSE CHOOSE j \in writes : \A i \in writes : i <= j

Present(key) == Writer(key) # 0 /\ history[Writer(key)].cmd.type = "PUT"

Answer(cmd) ==
    IF cmd.type = "PUT" \/ (cmd.type = "DEL" /\ Present(cmd.key)) THEN "empty"
    ELSE IF Present(cmd.key) THEN history[Writer(cmd.key)].cmd.value
    ELSE "key not found"

Init == history = <<>>

TakeEffect(cmd) ==
    /\ \A k \in DOMAIN history : history[k].cmd # cmd
    /\ history' = Append(history, [cmd |-> cmd, result |-> Answer(cmd)])

Next == \E cmd \in Command : TakeEffect(cmd)

Spec == Init /\ [][Next]_history

=============================================================================
