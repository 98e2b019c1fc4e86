--------------------------- MODULE MCStorageLayout ---------------------------
(* A contract that initializes one library, in small address spaces.         *)
EXTENDS StorageLayout

Var(loc, size) == [kind |-> "variable", location |-> loc, size |-> size]
Initializes(m) == [kind |-> "initializes", module |-> m]

(* The library is initialized before, between or after the variables of the  *)
(* contract, which lie in all locations and have one or two words.           *)
Trees ==
  {[m \in {"main", "lib"} |->
      IF m = "main" THEN <<Initializes("lib"), Var("storage", 2), Var("transient", 1)>>
      ELSE <<Var("storage", 1), Var("transient", 2)>>],
   [m \in {"main", "lib"} |->
      IF m = "main" THEN <<Var("storage", 1), Initializes("lib"), Var("storage", 1)>>
      ELSE <<Var("storage", 2), Var("code", 1)>>],
   [m \in {"main", "lib"} |->
      IF m = "main" THEN <<Var("transient", 3), Var("code", 2), Initializes("lib")>>
      ELSE <<Var("code", 1), Var("transient", 1), Var("storage", 1)>>]}
=============================================================================
