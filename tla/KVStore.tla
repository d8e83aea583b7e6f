------------------------------ MODULE KVStore ------------------------------
(***************************************************************************)
(* The key-value store of a partition (kvstore.cc, memkvstore.cc) as       *)
(* operators on its map.  A command is [type, key, value]; the result is   *)
(* what the client is told.                                                *)
(***************************************************************************)

kEmpty    == "empty"
kNotFound == "key not found"

EmptyStore == [k \in {} |-> kEmpty]

\* A missing key and an empty value read the same: Parse lets no empty value in.
Get(map, key) == IF key \in DOMAIN map THEN map[key] ELSE kEmpty

Put(map, key, value) ==
    [k \in DOMAIN map \cup {key} |-> IF k = key THEN value ELSE map[k]]

Del(map, key) == [k \in DOMAIN map \ {key} |-> map[k]]

Effect(map, cmd) ==
    CASE cmd.type = "GET" -> map
      [] cmd.type = "PUT" -> Put(map, cmd.key, cmd.value)
      [] cmd.type = "DEL" -> Del(map, cmd.key)

\* Slip: whether a key was there is tested when it is gone.
ResultAfter(map, cmd) ==
    CASE cmd.type = "GET" -> IF Get(map, cmd.key) = kEmpty THEN kNotFound ELSE Get(map, cmd.key)
      [] cmd.type = "PUT" -> kEmpty
      [] cmd.type = "DEL" -> kNotFound

Result(map, cmd) ==
    CASE cmd.type = "GET" -> IF Get(map, cmd.key) = kEmpty THEN kNotFound ELSE Get(map, cmd.key)
      [] cmd.type = "PUT" -> kEmpty
      [] cmd.type = "DEL" -> IF cmd.key \in DOMAIN map THEN kEmpty ELSE kNotFound

=============================================================================
