-------------------------------- MODULE Maps --------------------------------
(***************************************************************************)
(* A Rust HashMap is a function whose DOMAIN is the set of keys present.   *)
(***************************************************************************)
EXTENDS Functions

EmptyMap == [k \in {} |-> k]

(* map.insert(k, v): adds the key or overwrites its value.                 *)
Put(f, k, v) == [x \in DOMAIN f \cup {k} |-> IF x = k THEN v ELSE f[x]]

(* map.remove(k) for every k in S.                                         *)
Drop(f, S) == Restrict(f, DOMAIN f \ S)
=============================================================================
