-------------------------- MODULE MCNameResolution --------------------------
(***************************************************************************)
(* NameResolution for TLC: three records whose names are equal, are alike  *)
(* or contain each other, some with a code, one with a number for a code;  *)
(* every kind of request by id, by name and by what may be a code.         *)
(***************************************************************************)
EXTENDS NameResolution

CONSTANTS lk, falk, Falk              \* the last two differ in case

ThreeIds == 1 .. 3
SomeWords == {lk, falk, Falk}
Lower == [w \in SomeWords |-> IF w = Falk THEN falk ELSE w]
Contains == {<<lk, lk>>, <<falk, falk>>, <<lk, falk>>}

Coding == {c \in [ThreeIds -> {None, lk, 1}] : c[1] = None /\ c[2] # 1}
AllDirectories ==
  {[r \in ThreeIds |-> [name |-> n[r], code |-> c[r], value |-> None]] :
     n \in [ThreeIds -> SomeWords], c \in Coding}

Ask(kind, whos, refs) == [kind : {kind}, who : whos, ref : refs]
SomeRequests ==
  Ask("create", {1}, {1, lk, falk}) \cup Ask("update", {1, falk, lk}, {2, lk, falk})
  \cup Ask("verb", {falk}, {Falk}) \cup Ask("delete", {1, lk, falk}, {1})
=============================================================================
